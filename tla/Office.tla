-------------------------------- MODULE Office --------------------------------
(***************************************************************************)
(* What the admin panel does to tenants: apps/admin/src/tenant-handlers.ts *)
(* over packages/platform-core/src/postgres-tenant-admin-repository.ts.    *)
(*                                                                         *)
(* A request reads the tenant on its own, then changes one column of its   *)
(* row and inserts its audit entry in a transaction at READ COMMITTED.     *)
(* The statements of concurrent requests interleave; a row an open         *)
(* transaction has written, and a key it has taken, keep others waiting.   *)
(***************************************************************************)
EXTENDS Tenants

CONSTANT Saves   \* requests in flight at once

VARIABLES
  save,      \* where each request stands
  audit,     \* committed rows of audit_entries
  nextId,    \* the sequence their ids are drawn from
  savesLeft  \* bound: requests still to be made

officeVars == <<save, audit, nextId, savesLeft>>

\* The column each route writes, which is also what its audit entry tells of.
FieldOf(kind) == CASE kind = "create"  -> "embedKey"       [] kind = "rotate" -> "embedKey"
                   [] kind = "origins" -> "allowedOrigins" [] kind = "games"  -> "entitledGames"
                   [] kind = "window"  -> "validUntil"     [] kind = "theme"  -> "theme"
Fields == {"embedKey", "allowedOrigins", "entitledGames", "validUntil", "theme"}

\* Bodies a handler accepts, and what it makes of them.
Requested(kind) == CASE kind \in {"create", "rotate"} -> EmbedKeys
                     [] kind = "origins" -> SUBSET PageOrigins
                     [] kind = "games"   -> SUBSET TenantGames
                     [] kind = "window"  -> { PaidThroughToInstant(d) : d \in Days }
                     [] kind = "theme"   -> Themes \cup {NoTheme}
Kinds == {"create", "rotate", "origins", "games", "window", "theme"}

NoSave == [at |-> "idle"]
Open(c) == save[c].at \in {"written", "witnessed"}

OfficeTypeOK ==
  /\ \A c \in Saves : \/ save[c] = NoSave
                      \/ /\ save[c].at \in {"asked", "read", "written", "witnessed"}
                         /\ save[c].kind \in Kinds /\ save[c].id \in TenantIds
                         /\ save[c].value \in Requested(save[c].kind)
                         /\ Open(c) => save[c].row \in Row
  /\ \A e \in audit : e.field \in Fields /\ e.tenant \in DOMAIN tenants /\ e.id < nextId
  /\ \A e, f \in audit : e.id = f.id => e = f

OfficeInit ==
  /\ save = [c \in Saves |-> NoSave]
  /\ audit = {} /\ nextId = 1

-----------------------------------------------------------------------------
(* A request. *)

Ask(c, kind, t, value) ==
  /\ save[c] = NoSave /\ savesLeft > 0
  /\ save' = [save EXCEPT ![c] =
       [at |-> "asked", kind |-> kind, id |-> t, value |-> value, asked |-> now]]
  /\ savesLeft' = savesLeft - 1
  /\ UNCHANGED <<audit, nextId, tenantsVars>>

Column(t, f) == IF t \in DOMAIN tenants THEN tenants[t][f] ELSE Unset

\* findById, outside the transaction: what the entry will call "before", and the
\* lower bound that a change of the window carries along.  Creating asks nothing.
\* An end of the window that does not come after that bound goes no further.
Look(c) ==
  /\ save[c].at = "asked"
  /\ LET s == save[c] IN
       IF s.kind = "window" /\ ~WindowOrdered(Column(s.id, "validFrom"), s.value)
         THEN save' = [save EXCEPT ![c] = NoSave]
         ELSE save' = [save EXCEPT ![c] =
                [at |-> "read", kind |-> s.kind, id |-> s.id, value |-> s.value, asked |-> s.asked,
                 before |-> IF s.kind = "create" THEN Unset ELSE Column(s.id, FieldOf(s.kind)),
                 from |-> Column(s.id, "validFrom")]]
  /\ UNCHANGED <<audit, nextId, savesLeft, tenantsVars>>

-----------------------------------------------------------------------------
(* Its transaction. *)

EmptyRow(key) ==
  [embedKey |-> key, allowedOrigins |-> {}, entitledGames |-> {}, theme |-> NoTheme,
   validFrom |-> Unset, validUntil |-> Unset]

\* The row an INSERT or UPDATE leaves.
Written(s) ==
  CASE s.kind = "create" -> EmptyRow(s.value)
    [] s.kind = "theme"  -> [tenants[s.id] EXCEPT !.theme = SanitizeTheme(s.value)]
    [] s.kind = "window" -> [tenants[s.id] EXCEPT !.validFrom = s.from, !.validUntil = s.value]
    [] OTHER             -> [tenants[s.id] EXCEPT ![FieldOf(s.kind)] = s.value]

KeyTaken(s) == /\ FieldOf(s.kind) = "embedKey"
               /\ \E t \in DOMAIN tenants : tenants[t].embedKey = s.value /\ t # s.id

\* unknown-tenant, tenant-id-taken, embed-key-taken
Refused(s) ==
  \/ s.kind # "create" /\ s.id \notin DOMAIN tenants
  \/ s.kind = "create" /\ s.id \in DOMAIN tenants
  \/ KeyTaken(s)

\* An UPDATE does not see a row that is still being inserted, and so need not wait
\* for it; an INSERT or a new key waits to learn whether its keys are taken.
Blocked(c) ==
  LET s == save[c] IN
  \E d \in Saves \ {c} :
    /\ Open(d)
    /\ \/ save[d].id = s.id /\ (s.kind = "create" \/ s.id \in DOMAIN tenants)
       \/ /\ FieldOf(s.kind) = "embedKey"
          /\ \/ save[d].row.embedKey = s.value
             \/ Column(save[d].id, "embedKey") = s.value

\* BEGIN and the statement; a refusal rolls back and is answered at once.
Mutate(c) ==
  /\ save[c].at = "read" /\ ~Blocked(c)
  /\ save' = [save EXCEPT ![c] =
       IF Refused(@) THEN NoSave
       ELSE [at |-> "written", kind |-> @.kind, id |-> @.id, value |-> @.value,
             asked |-> @.asked, before |-> @.before, row |-> Written(@)]]
  /\ UNCHANGED <<audit, nextId, savesLeft, tenantsVars>>

\* Seeded fault: numbered after the rows that are committed.
NumberedEntry(s, at) ==
  [id |-> IF audit = {} THEN 1 ELSE 1 + (CHOOSE n \in { e.id : e \in audit } : \A e \in audit : e.id <= n),
   at |-> at, tenant |-> s.id, field |-> FieldOf(s.kind), before |-> s.before, after |-> s.value]
Entry(s, at) == [id |-> nextId, at |-> at, tenant |-> s.id, field |-> FieldOf(s.kind),
                 before |-> s.before, after |-> s.value]

\* Seeded fault: the entry carries the time the request came in.
WitnessOfTheRequest(c) ==
  /\ save[c].at = "written"
  /\ save' = [save EXCEPT ![c] =
       [at |-> "witnessed", kind |-> @.kind, id |-> @.id, value |-> @.value, row |-> @.row,
        entry |-> Entry(@, @.asked)]]
  /\ nextId' = nextId + 1
  /\ UNCHANGED <<audit, savesLeft, tenantsVars>>
\* tenantAuditWitness, appendAuditEntry: on the same client, with the time it is then.
Witness(c) ==
  /\ save[c].at = "written"
  /\ save' = [save EXCEPT ![c] =
       [at |-> "witnessed", kind |-> @.kind, id |-> @.id, value |-> @.value, row |-> @.row,
        entry |-> Entry(@, now)]]
  /\ nextId' = nextId + 1
  /\ UNCHANGED <<audit, savesLeft, tenantsVars>>

Commit(c) ==
  /\ save[c].at = "witnessed"
  /\ tenants' = WithRow(save[c].id, save[c].row) /\ edition' = edition + 1
  /\ audit' = audit \cup {save[c].entry}
  /\ save' = [save EXCEPT ![c] = NoSave]
  /\ UNCHANGED <<nextId, savesLeft, now, horizon>>

\* A statement throws, or the connection dies: ROLLBACK.  A number drawn from the
\* sequence is not given back.
FailSave(c) ==
  /\ save[c] # NoSave
  /\ save' = [save EXCEPT ![c] = NoSave]
  /\ UNCHANGED <<audit, nextId, savesLeft, tenantsVars>>

\* What operators may ask for: all of it, or what a scene needs.
Asks == UNION { [kind : {k}, id : TenantIds, value : Requested(k)] : k \in Kinds }

OfficeNext(asks) ==
  \E c \in Saves :
    \/ \E q \in asks : Ask(c, q.kind, q.id, q.value)
    \/ Look(c) \/ Mutate(c) \/ Witness(c) \/ Commit(c) \/ FailSave(c)

-----------------------------------------------------------------------------
(* Properties. *)

\* Read from the newest entry, as the panel lists them (audit-query.ts:107-113), the
\* audit log tells what each column holds: whichever of two concurrent saves of a
\* tenant wrote last is also the last one listed, and nothing is saved without its
\* entry.
Newest(E) == CHOOSE e \in E : \A f \in E : f.at < e.at \/ (f.at = e.at /\ f.id <= e.id)
AuditTellsTheState ==
  \A t \in DOMAIN tenants, f \in Fields :
    LET E == { e \in audit : e.tenant = t /\ e.field = f } IN
    E # {} => tenants[t][f] = IF f = "theme" THEN SanitizeTheme(Newest(E).after)
                                             ELSE Newest(E).after
=============================================================================
