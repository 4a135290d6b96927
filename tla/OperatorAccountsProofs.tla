------------------------ MODULE OperatorAccountsProofs ------------------------
(***************************************************************************)
(* Proofs about OperatorAccounts, for any accounts, any number of          *)
(* concurrent calls and any number of logins.                              *)
(***************************************************************************)
EXTENDS OperatorAccounts, TLAPS

\* A guarded transaction past its first statement holds the lock, and nothing
\* else is in a state only the guard leads to.
LockHeld ==
  \A c \in Calls :
    /\ call[c].at \in {"locked", "counted"} => call[c].kind \in Guarded
    /\ call[c].at \in {"locked", "written", "counted"} /\ call[c].kind \in Guarded => lock = c

\* What the guard counted stays true until its transaction ends.
CountStands == \A c \in Calls : call[c].at = "counted" => HoldersLeft(c)

\* The foreign keys of a row about to be inserted.
GrantsKnown == \A c \in Calls :
  call[c].at \in {"written", "counted"} /\ call[c].kind = "grant" => call[c].target \in known

AccountsInv == TypeOK /\ LockHeld /\ CountStands /\ GrantsKnown /\ SomeoneAdministers

LEMMA Initially == Init => AccountsInv
<1> SUFFICES ASSUME Init PROVE AccountsInv
  OBVIOUS
<1>1. TypeOK
  BY AccountsAssumption DEF Init, TypeOK, Call, Idle
<1>2. \A c \in Calls : call[c].at = "idle"
  BY DEF Init, Idle
<1>3. Root \in Holders
  BY AccountsAssumption DEF Init, Holders
<1>4. QED
  BY <1>1, <1>2, <1>3 DEF AccountsInv, LockHeld, CountStands, GrantsKnown, SomeoneAdministers

\* A call that moves on while no table changes.
LEMMA MovesSafe ==
  ASSUME AccountsInv, NEW c \in Calls, NEW r \in Call,
         call' = [call EXCEPT ![c] = r], UNCHANGED <<known, enabled, managers, sessions, login>>,
         lock' \in Calls \cup {NoCall},
         lock # c => lock' \in {lock, c},
         lock' = c => lock \in {c, NoCall},
         r.at \in {"locked", "counted"} => r.kind \in Guarded,
         r.at \in {"locked", "written", "counted"} /\ r.kind \in Guarded => lock' = c,
         r.at = "counted" => Holders \ {r.target} # {},
         r.at \in {"written", "counted"} /\ r.kind = "grant" => r.target \in known
  PROVE  AccountsInv'
<1>1. call \in [Calls -> Call] /\ call'[c] = r /\ \A d \in Calls \ {c} : call'[d] = call[d]
  BY DEF AccountsInv, TypeOK
<1>2. TypeOK'
  BY <1>1 DEF AccountsInv, TypeOK
<1>3. LockHeld'
  <2>1. SUFFICES ASSUME NEW d \in Calls
                 PROVE  /\ call'[d].at \in {"locked", "counted"} => call'[d].kind \in Guarded
                        /\ call'[d].at \in {"locked", "written", "counted"}
                             /\ call'[d].kind \in Guarded => lock' = d
    BY DEF LockHeld
  <2>2. CASE d = c
    BY <1>1, <2>2
  <2>3. CASE d # c
    <3>1. lock = d => lock' = d
      BY <2>3, AccountsAssumption
    <3>2. QED
      BY <1>1, <2>3, <3>1 DEF AccountsInv, LockHeld
  <2>4. QED
    BY <2>2, <2>3
<1>4. Holders' = Holders
  BY DEF Holders
<1>5. CountStands'
  <2>1. SUFFICES ASSUME NEW d \in Calls, call'[d].at = "counted"
                 PROVE  HoldersLeft(d)'
    BY DEF CountStands
  <2>2. CASE d = c
    BY <1>1, <1>4, <2>1, <2>2 DEF HoldersLeft, HoldersSeenBy
  <2>3. CASE d # c
    BY <1>1, <1>4, <2>1, <2>3 DEF AccountsInv, CountStands, HoldersLeft, HoldersSeenBy
  <2>4. QED
    BY <2>2, <2>3
<1>6. GrantsKnown'
  BY <1>1 DEF AccountsInv, GrantsKnown
<1>7. SomeoneAdministers'
  BY <1>4 DEF AccountsInv, SomeoneAdministers
<1>8. QED
  BY <1>2, <1>3, <1>5, <1>6, <1>7 DEF AccountsInv

LEMMA RollBackSafe == ASSUME AccountsInv, NEW c \in Calls, RollBack(c) PROVE AccountsInv'
<1>1. Idle \in Call /\ Idle.at = "idle"
  BY DEF Call, Idle
<1>2. /\ UNCHANGED <<known, enabled, managers, sessions, login>>
      /\ call' = [call EXCEPT ![c] = Idle]
      /\ lock' = IF lock = c THEN NoCall ELSE lock
  BY DEF RollBack, LockWithout, tables
<1>3. lock \in Calls \cup {NoCall}
  BY DEF AccountsInv, TypeOK
<1>4. QED
  BY <1>1, <1>2, <1>3, AccountsAssumption, MovesSafe

LEMMA RequestSafe ==
  ASSUME AccountsInv, NEW c \in Calls, NEW kind \in Writers, NEW target \in Operators,
         Request(c, kind, target)
  PROVE  AccountsInv'
<1> DEFINE r == [at |-> "begun", kind |-> kind, target |-> target]
<1>1. r \in Call /\ r.at = "begun"
  BY DEF Call
<1>2. /\ UNCHANGED <<known, enabled, managers, sessions, login, lock>>
      /\ call' = [call EXCEPT ![c] = r]
      /\ lock \in Calls \cup {NoCall}
  BY DEF Request, tables, AccountsInv, TypeOK
<1> HIDE DEF r
<1>3. QED
  BY <1>1, <1>2, MovesSafe

LEMMA TakeLockSafe == ASSUME AccountsInv, NEW c \in Calls, TakeLock(c) PROVE AccountsInv'
<1> DEFINE r == [call[c] EXCEPT !.at = "locked"]
<1>1. call[c] \in Call /\ call[c].at = "begun"
  BY DEF TakeLock, AccountsInv, TypeOK
<1>2. /\ r \in Call /\ r.at = "locked" /\ r.kind = call[c].kind
  BY <1>1 DEF Call, Idle
<1>3. /\ UNCHANGED <<known, enabled, managers, sessions, login>>
      /\ call' = [call EXCEPT ![c] = r]
      /\ lock = NoCall /\ lock' = c /\ call[c].kind \in Guarded
  BY DEF TakeLock, tables
<1> HIDE DEF r
<1>4. QED
  BY <1>2, <1>3, MovesSafe

LEMMA MutateSafe == ASSUME AccountsInv, NEW c \in Calls, Mutate(c) PROVE AccountsInv'
<1> DEFINE kind   == call[c].kind
           target == call[c].target
           gone   == IF kind \in {"disable", "reset"}
                       THEN { s \in sessions : s.op = target } ELSE {}
           wrote  == kind = "grant" => target \notin managers
           r      == [at |-> "written", kind |-> kind, target |-> target,
                      wrote |-> wrote, gone |-> gone]
<1>1. /\ call[c] \in Call /\ call[c].at \in {"begun", "locked"}
      /\ sessions \subseteq Session /\ lock \in Calls \cup {NoCall}
  BY DEF Mutate, AccountsInv, TypeOK
<1>2. CASE NothingToDo(kind, target)
  BY <1>2, RollBackSafe DEF Mutate
<1>3. CASE ~NothingToDo(kind, target)
  <2>1. kind \in Writers /\ target \in Operators
    BY <1>1 DEF Call, Idle
  <2>2. wrote \in BOOLEAN /\ gone \in SUBSET Session
    BY <1>1
  <2>3. r \in Call /\ r.at = "written" /\ r.kind = kind /\ r.target = target
    BY <2>1, <2>2 DEF Call
  <2>4. /\ UNCHANGED <<known, enabled, managers, sessions, login, lock>>
        /\ call' = [call EXCEPT ![c] = r]
    BY <1>3 DEF Mutate, tables
  <2>5. kind \in Guarded => lock = c
    BY DEF Mutate, AccountsInv, LockHeld
  <2>6. kind = "grant" => target \in known
    BY <1>3 DEF NothingToDo
  <2> HIDE DEF r
  <2>7. QED
    BY <1>1, <2>3, <2>4, <2>5, <2>6, MovesSafe
<1>4. QED
  BY <1>2, <1>3

LEMMA CountSafe == ASSUME AccountsInv, NEW c \in Calls, Count(c) PROVE AccountsInv'
<1> DEFINE r == [call[c] EXCEPT !.at = "counted"]
<1>1. CASE ~HoldersLeft(c)
  BY <1>1, RollBackSafe DEF Count
<1>2. CASE HoldersLeft(c)
  <2>1. call[c] \in Call /\ call[c].at = "written" /\ call[c].kind \in Guarded
    BY DEF Count, AccountsInv, TypeOK
  <2>2. /\ r \in Call /\ r.at = "counted" /\ r.kind = call[c].kind /\ r.target = call[c].target
    BY <2>1 DEF Call, Idle
  <2>3. /\ UNCHANGED <<known, enabled, managers, sessions, login, lock>>
        /\ call' = [call EXCEPT ![c] = r]
        /\ lock = c /\ lock \in Calls \cup {NoCall}
    BY <1>2, <2>1 DEF Count, tables, AccountsInv, LockHeld, TypeOK
  <2>4. Holders \ {r.target} # {}
    BY <1>2, <2>1, <2>2 DEF HoldersLeft, HoldersSeenBy
  <2>5. r.kind # "grant"
    BY <2>1, <2>2 DEF Guarded
  <2> HIDE DEF r
  <2>6. QED
    BY <2>1, <2>2, <2>3, <2>4, <2>5, MovesSafe
<1>3. QED
  BY <1>1, <1>2

\* A commit takes away nobody but what the guard had counted out.
LEMMA CommitSafe == ASSUME AccountsInv, NEW c \in Calls, Commit(c) PROVE AccountsInv'
<1> DEFINE kind   == call[c].kind
           target == call[c].target
<1>1. /\ call \in [Calls -> Call] /\ enabled \in [Operators -> BOOLEAN]
      /\ managers \subseteq known /\ known \subseteq Operators
      /\ sessions \subseteq { s \in Session : s.op \in known }
      /\ lock \in Calls \cup {NoCall} /\ login \in [Logins -> known \cup {NoOperator}]
  BY DEF AccountsInv, TypeOK
<1>2. call[c] \in Call /\ call[c].at \in {"written", "counted"}
  BY <1>1 DEF Commit
<1>3. kind \in Writers /\ target \in Operators
  BY <1>2 DEF Call, Idle
<1>4. /\ call'[c] = Idle /\ \A d \in Calls \ {c} : call'[d] = call[d]
      /\ Idle.at = "idle" /\ Idle \in Call
      /\ lock' = IF lock = c THEN NoCall ELSE lock
  BY <1>1 DEF Commit, Idle, Call, LockWithout
<1>5. known \subseteq known'
  BY DEF Commit
<1>6. TypeOK'
  <2>1. known' \subseteq Operators
    BY <1>1, <1>3 DEF Commit
  <2>2. enabled' \in [Operators -> BOOLEAN]
    BY <1>1, <1>3 DEF Commit
  <2>3. managers' \subseteq known'
    <3>1. CASE kind = "grant"
      <4>1. target \in known
        BY <1>2, <3>1 DEF AccountsInv, GrantsKnown
      <4>2. managers' \subseteq managers \cup {target}
        BY <3>1 DEF Commit
      <4>3. QED
        BY <1>1, <1>5, <4>1, <4>2
    <3>2. CASE kind # "grant"
      <4>1. managers' \subseteq managers
        BY <3>2 DEF Commit
      <4>2. QED
        BY <1>1, <1>5, <4>1
    <3>3. QED
      BY <3>1, <3>2
  <2>4. sessions' \subseteq sessions /\ login' = login /\ call' \in [Calls -> Call]
    BY <1>1, <1>4 DEF Commit
  <2>5. QED
    BY <1>1, <1>4, <1>5, <2>1, <2>2, <2>3, <2>4 DEF TypeOK
<1>7. LockHeld'
  BY <1>1, <1>4, AccountsAssumption DEF AccountsInv, LockHeld
<1>8. GrantsKnown'
  BY <1>4, <1>5 DEF AccountsInv, GrantsKnown
<1>9. CASE kind \in Guarded
  <2>1. call[c].at = "counted" /\ lock = c
    BY <1>2, <1>9 DEF Commit, AccountsInv, LockHeld
  <2>2. Holders \ {target} # {}
    BY <1>9, <2>1 DEF AccountsInv, CountStands, HoldersLeft, HoldersSeenBy
  <2>3. Holders \ {target} \subseteq Holders'
    <3>1. CASE kind = "disable"
      <4>1. managers' = managers /\ enabled' = [enabled EXCEPT ![target] = FALSE]
        BY <3>1 DEF Commit
      <4>2. QED
        BY <1>1, <4>1 DEF Holders
    <3>2. CASE kind = "revoke"
      <4>1. managers' = managers \ {target} /\ enabled' = enabled
        BY <3>2 DEF Commit
      <4>2. QED
        BY <4>1 DEF Holders
    <3>3. QED
      BY <1>9, <3>1, <3>2 DEF Guarded
  <2>4. \A d \in Calls : call'[d].at # "counted"
    BY <1>4, <2>1 DEF AccountsInv, LockHeld
  <2>5. QED
    BY <1>6, <1>7, <1>8, <2>2, <2>3, <2>4 DEF AccountsInv, CountStands, SomeoneAdministers
<1>10. CASE kind \notin Guarded
  <2>1. Holders \subseteq Holders'
    <3>1. managers \subseteq managers'
      BY <1>10 DEF Commit, Guarded
    <3>2. \A o \in Operators : enabled[o] => enabled'[o]
      BY <1>1, <1>3, <1>10 DEF Commit, Guarded
    <3>3. QED
      BY <1>1, <3>1, <3>2 DEF Holders
  <2>2. CountStands'
    BY <1>4, <2>1 DEF AccountsInv, CountStands, HoldersLeft, HoldersSeenBy
  <2>3. QED
    BY <1>6, <1>7, <1>8, <2>1, <2>2 DEF AccountsInv, SomeoneAdministers
<1>11. QED
  BY <1>9, <1>10

\* Sessions and logins touch nothing the guard counts.
LEMMA SessionsSafe ==
  ASSUME AccountsInv, TypeOK', UNCHANGED <<known, enabled, managers, lock, call>>
  PROVE  AccountsInv'
<1>1. Holders' = Holders
  BY DEF Holders
<1>2. CountStands'
  BY <1>1 DEF AccountsInv, CountStands, HoldersLeft, HoldersSeenBy
<1>3. QED
  BY <1>1, <1>2 DEF AccountsInv, LockHeld, GrantsKnown, SomeoneAdministers

LEMMA VerifySafe ==
  ASSUME AccountsInv, NEW l \in Logins, NEW o \in Operators, Verify(l, o) PROVE AccountsInv'
BY SessionsSafe DEF Verify, tables, AccountsInv, TypeOK

LEMMA OpenSessionSafe ==
  ASSUME AccountsInv, NEW l \in Logins, OpenSession(l) PROVE AccountsInv'
<1>1. login[l] \in known /\ known \subseteq Operators
  BY DEF OpenSession, AccountsInv, TypeOK
<1>2. [id |-> l, op |-> login[l]] \in { s \in Session : s.op \in known }
  BY <1>1 DEF Session
<1>3. TypeOK'
  BY <1>2 DEF OpenSession, AccountsInv, TypeOK
<1>4. QED
  BY <1>3, SessionsSafe DEF OpenSession

LEMMA LogoutSafe == ASSUME AccountsInv, NEW s \in sessions, Logout(s) PROVE AccountsInv'
BY SessionsSafe DEF Logout, AccountsInv, TypeOK

LEMMA Inductive == AccountsInv /\ [Next]_vars => AccountsInv'
<1> SUFFICES ASSUME AccountsInv, [Next]_vars PROVE AccountsInv'
  OBVIOUS
<1>1. CASE UNCHANGED vars
  BY <1>1, SessionsSafe DEF vars, tables, AccountsInv, TypeOK
<1>2. CASE \E c \in Calls : Step(c) \/ Fail(c)
  BY <1>2, TakeLockSafe, MutateSafe, CountSafe, CommitSafe, RollBackSafe DEF Step, Fail
<1>3. CASE \E c \in Calls, kind \in Writers, target \in Operators : Request(c, kind, target)
  BY <1>3, RequestSafe
<1>4. CASE \/ \E l \in Logins : OpenSession(l) \/ \E o \in Operators : Verify(l, o)
           \/ \E s \in sessions : Logout(s)
  BY <1>4, OpenSessionSafe, VerifySafe, LogoutSafe
<1>5. QED
  BY <1>1, <1>2, <1>3, <1>4 DEF Next

\* The tables keep their keys and foreign keys, and every transaction is in one
\* of the states the code can leave it in.
THEOREM AccountsTyped == Spec => []TypeOK
<1>1. AccountsInv => TypeOK
  BY DEF AccountsInv
<1>2. QED
  BY Initially, Inductive, <1>1, PTL DEF Spec

\* However many calls disable accounts and revoke grants at once, an enabled
\* account that can manage accounts is left.
THEOREM PanelStaysAdministrable == Spec => []SomeoneAdministers
<1>1. AccountsInv => SomeoneAdministers
  BY DEF AccountsInv
<1>2. QED
  BY Initially, Inductive, <1>1, PTL DEF Spec
=============================================================================
