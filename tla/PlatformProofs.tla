---------------------------- MODULE PlatformProofs ----------------------------
(***************************************************************************)
(* Proofs about Platform: the audit log, the door, its limiters and its    *)
(* guard, for any tenants, any number of requests in flight, any limit,    *)
(* window and lifetime, with or without Redis.                             *)
(***************************************************************************)
EXTENDS Platform, MigrationsProofs

-----------------------------------------------------------------------------
(* The office.  A transaction that is open is the only one on its tenant, so *)
(* the row it is to commit is the committed one but for its own column       *)
(* (Draft), and the entry it has written is newer than every entry of that   *)
(* tenant that is committed (Testimony).                                     *)

\* What its column holds once a save is committed.
SavedValue(s) == IF FieldOf(s.kind) = "theme" THEN SanitizeTheme(s.value) ELSE s.value

Draft(s) ==
  /\ s.row \in Row /\ EndsWithDay(s.row)
  /\ s.row[FieldOf(s.kind)] = SavedValue(s)
  /\ s.kind = "create" => s.id \notin DOMAIN tenants
  /\ s.kind # "create" =>
       /\ s.id \in DOMAIN tenants
       /\ \A f \in Fields \ {FieldOf(s.kind)} : s.row[f] = tenants[s.id][f]

WellFormed(s) ==
  /\ s.at \in {"asked", "read", "written", "witnessed"}
  /\ s.kind \in Kinds /\ s.id \in TenantIds /\ s.value \in Requested(s.kind)
  /\ s.at = "read" => s.from \in Int \cup {Unset}

SaveShape ==
  /\ save = [c \in Saves |-> save[c]]
  /\ \A c \in Saves : save[c] # NoSave => WellFormed(save[c])

Drafts == \A c \in Saves : Open(c) => Draft(save[c])

OneSavePerTenant ==
  \A c, d \in Saves : c # d /\ Open(c) /\ Open(d) => save[c].id # save[d].id

AuditShape ==
  /\ nextId \in Nat
  /\ \A e \in audit : /\ e.field \in Fields /\ e.tenant \in DOMAIN tenants
                      /\ e.id \in Nat /\ e.id < nextId /\ e.at \in Nat /\ e.at <= now
  /\ \A e, f \in audit : e.id = f.id => e = f

Testifies(s) ==
  /\ s.entry.tenant = s.id /\ s.entry.field = FieldOf(s.kind) /\ s.entry.after = s.value
  /\ s.entry.id \in Nat /\ s.entry.id < nextId /\ s.entry.at \in Nat /\ s.entry.at <= now
  /\ \A f \in audit : f.id # s.entry.id
  /\ \A f \in audit : f.tenant = s.id => f.at <= s.entry.at /\ f.id < s.entry.id

Testimony ==
  /\ \A c \in Saves : save[c].at = "witnessed" => Testifies(save[c])
  /\ \A c, d \in Saves : c # d /\ save[c].at = "witnessed" /\ save[d].at = "witnessed" =>
       save[c].entry.id # save[d].entry.id

RowsOK ==
  /\ DOMAIN tenants \subseteq TenantIds
  /\ \A t \in DOMAIN tenants : tenants[t] \in Row /\ EndsWithDay(tenants[t])
  /\ now \in Nat /\ horizon \in Nat /\ now <= horizon /\ edition \in Nat

OfficeInv ==
  /\ RowsOK /\ SaveShape /\ Drafts /\ OneSavePerTenant
  /\ AuditShape /\ Testimony /\ AuditTellsTheState

\* What the panel saves as a window ends with a day.
LEMMA WindowsEndWithADay ==
  ASSUME NEW d \in Nat
  PROVE  /\ PaidThroughToInstant(d) \in Int
         /\ (PaidThroughToInstant(d) - BehindUtc) % TicksPerDay = 0
<1>1. TicksPerDay \in Nat \ {0} /\ BehindUtc \in Int
  BY TenantsAssumption
<1>2. (d + 1) * TicksPerDay \in Int
  BY <1>1
<1>3. PaidThroughToInstant(d) = (d + 1) * TicksPerDay + BehindUtc
  BY <1>1, <1>2 DEF PaidThroughToInstant, ZonedToInstant, ReadZoned
<1>4. ((d + 1) * TicksPerDay) % TicksPerDay = 0
  BY <1>1
<1>5. QED
  BY <1>1, <1>2, <1>3, <1>4

\* The entry that is later than all others is the newest.
LEMMA NewestIs ==
  ASSUME NEW E, NEW e \in E, e.at \in Int, e.id \in Int,
         \A f \in E \ {e} : f.at \in Int /\ f.id \in Int /\ f.at <= e.at /\ f.id < e.id
  PROVE  Newest(E) = e
<1> DEFINE Last(m) == \A f \in E : f.at < m.at \/ (f.at = m.at /\ f.id <= m.id)
<1>1. Last(e)
  OBVIOUS
<1>2. Newest(E) \in E /\ Last(Newest(E))
  <2> HIDE DEF Last
  <2>1. Newest(E) = CHOOSE m \in E : Last(m)
    BY DEF Newest, Last
  <2>2. QED
    BY <1>1, <2>1, Zenon
<1>3. e.at < Newest(E).at \/ (e.at = Newest(E).at /\ e.id <= Newest(E).id)
  BY <1>2
<1>4. QED
  BY <1>2, <1>3

\* A request that has nothing written disturbs nobody.
LEMMA QuietSave ==
  ASSUME OfficeInv, NEW c \in Saves, NEW s, save' = [save EXCEPT ![c] = s],
         s.at \notin {"written", "witnessed"}, s = NoSave \/ WellFormed(s),
         UNCHANGED <<audit, nextId, tenantsVars>>
  PROVE  OfficeInv'
<1>1. /\ UNCHANGED <<tenants, edition, now, horizon>>
      /\ save' = [d \in Saves |-> IF d = c THEN s ELSE save[d]]
  BY DEF OfficeInv, SaveShape, tenantsVars
<1>2. \A d \in Saves : /\ save'[d] = IF d = c THEN s ELSE save[d]
                       /\ (Open(d))' => d # c /\ Open(d)
                       /\ save'[d].at = "witnessed" => d # c /\ save[d].at = "witnessed"
  BY <1>1 DEF Open
<1>3. SaveShape'
  BY <1>1, <1>2 DEF OfficeInv, SaveShape, WellFormed, NoSave
<1>4. RowsOK' /\ AuditShape' /\ AuditTellsTheState'
  BY <1>1 DEF OfficeInv, RowsOK, AuditShape, AuditTellsTheState
<1>5. Drafts'
  BY <1>1, <1>2 DEF OfficeInv, Drafts, Draft
<1>6. OneSavePerTenant'
  BY <1>2 DEF OfficeInv, OneSavePerTenant
<1>7. Testimony'
  BY <1>1, <1>2 DEF OfficeInv, Testimony, Testifies
<1>8. QED
  BY <1>3, <1>4, <1>5, <1>6, <1>7 DEF OfficeInv

LEMMA AskKeeps ==
  ASSUME OfficeInv, NEW c \in Saves, NEW q \in Asks, Ask(c, q.kind, q.id, q.value)
  PROVE  OfficeInv'
<1> DEFINE s == [at |-> "asked", kind |-> q.kind, id |-> q.id, value |-> q.value, asked |-> now]
<1>1. q.kind \in Kinds /\ q.id \in TenantIds /\ q.value \in Requested(q.kind)
  BY DEF Asks
<1>2. WellFormed(s) /\ s.at \notin {"written", "witnessed"}
  BY <1>1 DEF WellFormed
<1>3. save' = [save EXCEPT ![c] = s] /\ UNCHANGED <<audit, nextId, tenantsVars>>
  BY DEF Ask
<1> HIDE DEF s
<1>4. QED
  BY <1>2, <1>3, QuietSave

LEMMA LookKeeps ==
  ASSUME OfficeInv, NEW c \in Saves, Look(c) PROVE OfficeInv'
<1> DEFINE s == [at |-> "read", kind |-> save[c].kind, id |-> save[c].id,
                 value |-> save[c].value, asked |-> save[c].asked,
                 before |-> IF save[c].kind = "create" THEN Unset
                            ELSE Column(save[c].id, FieldOf(save[c].kind)),
                 from |-> Column(save[c].id, "validFrom")]
<1>1. WellFormed(save[c]) /\ save[c].at = "asked"
  BY DEF Look, OfficeInv, SaveShape, NoSave
<1>2. Column(save[c].id, "validFrom") \in Int \cup {Unset}
  BY DEF Column, OfficeInv, RowsOK, Row
<1>3. WellFormed(s) /\ s.at \notin {"written", "witnessed"}
  BY <1>1, <1>2 DEF WellFormed
<1>4. /\ save' = [save EXCEPT ![c] = NoSave] \/ save' = [save EXCEPT ![c] = s]
      /\ UNCHANGED <<audit, nextId, tenantsVars>>
  BY DEF Look
<1>5. NoSave.at \notin {"written", "witnessed"}
  BY DEF NoSave
<1> HIDE DEF s
<1>6. QED
  BY <1>3, <1>4, <1>5, QuietSave

LEMMA FailSaveKeeps ==
  ASSUME OfficeInv, NEW c \in Saves, FailSave(c) PROVE OfficeInv'
<1>1. /\ save' = [save EXCEPT ![c] = NoSave] /\ UNCHANGED <<audit, nextId, tenantsVars>>
      /\ NoSave.at \notin {"written", "witnessed"}
  BY DEF FailSave, NoSave
<1>2. QED
  BY <1>1, QuietSave

\* What a statement writes is the row it found, but for its column.
LEMMA StatementDrafts ==
  ASSUME OfficeInv, NEW s, WellFormed(s), s.at = "read", ~Refused(s),
         NEW w, w.kind = s.kind, w.id = s.id, w.value = s.value, w.row = Written(s)
  PROVE  Draft(w)
<1>1. s.kind \in Kinds /\ s.id \in TenantIds /\ s.value \in Requested(s.kind)
        /\ s.from \in Int \cup {Unset}
  BY DEF WellFormed
<1>2. s.kind # "create" => s.id \in DOMAIN tenants /\ tenants[s.id] \in Row
                             /\ EndsWithDay(tenants[s.id])
  BY DEF Refused, OfficeInv, RowsOK
<1>3. s.kind = "create" => s.id \notin DOMAIN tenants
  BY DEF Refused
<1> USE TenantsAssumption
<1>4. CASE s.kind = "create"
  <2>1. w.row = EmptyRow(s.value) /\ s.value \in EmbedKeys
    BY <1>1, <1>4 DEF Written, Requested
  <2>2. QED
    BY <1>3, <1>4, <2>1 DEF Draft, EmptyRow, Row, EndsWithDay, FieldOf, SavedValue
<1>5. CASE s.kind = "theme"
  <2>1. w.row = [tenants[s.id] EXCEPT !.theme = SanitizeTheme(s.value)]
    BY <1>5 DEF Written
  <2>2. SanitizeTheme(s.value) \in LegibleThemes \cup {NoTheme}
    BY DEF SanitizeTheme
  <2>3. QED
    BY <1>2, <1>5, <2>1, <2>2 DEF Draft, Row, EndsWithDay, FieldOf, SavedValue, Fields
<1>6. CASE s.kind = "window"
  <2>1. w.row = [tenants[s.id] EXCEPT !.validFrom = s.from, !.validUntil = s.value]
    BY <1>6 DEF Written
  <2>2. PICK d \in Days : s.value = PaidThroughToInstant(d)
    BY <1>1, <1>6 DEF Requested
  <2>3. s.value \in Int /\ (s.value - BehindUtc) % TicksPerDay = 0
    BY <2>2, WindowsEndWithADay
  <2>4. w.row \in Row
    BY <1>1, <1>2, <1>6, <2>1, <2>3 DEF Row
  <2>5. w.row.validUntil = s.value
    BY <1>2, <1>6, <2>1 DEF Row
  <2>6. EndsWithDay(w.row)
    BY <2>3, <2>5 DEF EndsWithDay
  <2>7. \A f \in Fields \ {"validUntil"} : w.row[f] = tenants[s.id][f]
    BY <1>2, <1>6, <2>1 DEF Row, Fields
  <2>8. QED
    BY <1>2, <1>6, <2>4, <2>5, <2>6, <2>7 DEF Draft, FieldOf, SavedValue, Fields
<1>7. CASE s.kind = "rotate"
  <2>1. w.row = [tenants[s.id] EXCEPT !["embedKey"] = s.value] /\ s.value \in EmbedKeys
    BY <1>1, <1>7 DEF Written, FieldOf, Requested
  <2>2. QED
    BY <1>2, <1>7, <2>1 DEF Draft, Row, EndsWithDay, FieldOf, SavedValue, Fields
<1>8. CASE s.kind = "origins"
  <2>1. w.row = [tenants[s.id] EXCEPT !["allowedOrigins"] = s.value]
          /\ s.value \in SUBSET PageOrigins
    BY <1>1, <1>8 DEF Written, FieldOf, Requested
  <2>2. QED
    BY <1>2, <1>8, <2>1 DEF Draft, Row, EndsWithDay, FieldOf, SavedValue, Fields
<1>9. CASE s.kind = "games"
  <2>1. w.row = [tenants[s.id] EXCEPT !["entitledGames"] = s.value]
          /\ s.value \in SUBSET TenantGames
    BY <1>1, <1>9 DEF Written, FieldOf, Requested
  <2>2. QED
    BY <1>2, <1>9, <2>1 DEF Draft, Row, EndsWithDay, FieldOf, SavedValue, Fields
<1>10. QED
  BY <1>1, <1>4, <1>5, <1>6, <1>7, <1>8, <1>9 DEF Kinds

LEMMA MutateKeeps ==
  ASSUME OfficeInv, NEW c \in Saves, Mutate(c) PROVE OfficeInv'
<1>1. /\ save[c].at = "read" /\ WellFormed(save[c]) /\ ~Blocked(c)
      /\ UNCHANGED <<audit, nextId, tenantsVars>>
  BY DEF Mutate, OfficeInv, SaveShape, NoSave
<1>2. CASE Refused(save[c])
  <2>1. save' = [save EXCEPT ![c] = NoSave] /\ NoSave.at \notin {"written", "witnessed"}
    BY <1>2 DEF Mutate, NoSave, OfficeInv, SaveShape
  <2>2. QED
    BY <1>1, <2>1, QuietSave
<1>3. CASE ~Refused(save[c])
  <2> DEFINE w == [at |-> "written", kind |-> save[c].kind, id |-> save[c].id,
                   value |-> save[c].value, asked |-> save[c].asked,
                   before |-> save[c].before, row |-> Written(save[c])]
  <2>1. save' = [d \in Saves |-> IF d = c THEN w ELSE save[d]]
    BY <1>3 DEF Mutate, OfficeInv, SaveShape
  <2>2. /\ w.at = "written" /\ w.kind = save[c].kind /\ w.id = save[c].id
        /\ w.value = save[c].value /\ w.row = Written(save[c])
    OBVIOUS
  <2> HIDE DEF w
  <2>3. Draft(w) /\ WellFormed(w)
    BY <1>1, <1>3, <2>2, StatementDrafts DEF WellFormed
  <2>4. UNCHANGED <<tenants, edition, now, horizon>>
    BY <1>1 DEF tenantsVars
  <2>5. \A d \in Saves : save'[d] = IF d = c THEN w ELSE save[d]
    BY <2>1
  <2>6. \A d \in Saves \ {c} : Open(d) => save[d].id # w.id
    BY <1>1, <1>3, <2>2 DEF Blocked, Refused
  <2>7. SaveShape'
    BY <2>1, <2>3, <2>5 DEF OfficeInv, SaveShape, WellFormed
  <2>8. RowsOK' /\ AuditShape' /\ AuditTellsTheState'
    BY <1>1, <2>4 DEF OfficeInv, RowsOK, AuditShape, AuditTellsTheState
  <2>9. Drafts'
    BY <2>3, <2>4, <2>5 DEF OfficeInv, Drafts, Draft, Open
  <2>10. OneSavePerTenant'
    BY <2>5, <2>6 DEF OfficeInv, OneSavePerTenant, Open
  <2>11. Testimony'
    <3>1. \A d \in Saves : save'[d].at = "witnessed" => save'[d] = save[d]
      BY <2>2, <2>5
    <3>2. QED
      BY <1>1, <2>4, <3>1 DEF OfficeInv, Testimony, Testifies
  <2>12. QED
    BY <2>7, <2>8, <2>9, <2>10, <2>11 DEF OfficeInv
<1>4. QED
  BY <1>2, <1>3

LEMMA WitnessKeeps ==
  ASSUME OfficeInv, NEW c \in Saves, Witness(c) PROVE OfficeInv'
<1> DEFINE s == save[c]
           w == [at |-> "witnessed", kind |-> s.kind, id |-> s.id, value |-> s.value,
                 row |-> s.row, entry |-> Entry(s, now)]
<1>1. /\ s.at = "written" /\ WellFormed(s) /\ Draft(s)
      /\ nextId' = nextId + 1 /\ nextId \in Nat /\ now \in Nat
      /\ UNCHANGED <<audit, tenants, edition, now, horizon>>
  BY DEF Witness, OfficeInv, SaveShape, NoSave, Drafts, Open, tenantsVars, AuditShape, RowsOK
<1>2. save' = [d \in Saves |-> IF d = c THEN w ELSE save[d]]
  BY DEF Witness, OfficeInv, SaveShape
<1>3. /\ w.at = "witnessed" /\ w.kind = s.kind /\ w.id = s.id /\ w.value = s.value
      /\ w.row = s.row /\ w.entry.id = nextId /\ w.entry.at = now /\ w.entry.tenant = s.id
      /\ w.entry.field = FieldOf(s.kind) /\ w.entry.after = s.value
  BY DEF Entry
<1> HIDE DEF w
<1>4. \A d \in Saves : save'[d] = IF d = c THEN w ELSE save[d]
  BY <1>2
<1>5. SaveShape'
  BY <1>1, <1>2, <1>3, <1>4 DEF OfficeInv, SaveShape, WellFormed
<1>6. RowsOK' /\ AuditShape' /\ AuditTellsTheState'
  BY <1>1 DEF OfficeInv, RowsOK, AuditShape, AuditTellsTheState
<1>7. Drafts'
  BY <1>1, <1>3, <1>4 DEF OfficeInv, Drafts, Draft, Open, SavedValue
<1>8. OneSavePerTenant'
  BY <1>1, <1>3, <1>4 DEF OfficeInv, OneSavePerTenant, Open
<1>9. Testimony'
  <2>1. AuditShape /\ Testimony
    BY DEF OfficeInv
  <2>2. \A f \in audit : f.id < nextId /\ f.id \in Nat /\ f.at <= now
    BY <2>1 DEF AuditShape
  <2>3. \A d \in Saves \ {c} : save[d].at = "witnessed" =>
          Testifies(save[d]) /\ save[d].entry.id < nextId /\ save[d].entry.id \in Nat
    BY <2>1 DEF Testimony, Testifies
  <2>4. ASSUME NEW d \in Saves, save'[d].at = "witnessed" PROVE Testifies(save[d])'
    <3>1. CASE d = c
      BY <1>1, <1>3, <1>4, <2>2, <3>1 DEF Testifies
    <3>2. CASE d # c
      BY <1>1, <1>4, <2>3, <2>4, <3>2 DEF Testifies
    <3>3. QED
      BY <3>1, <3>2
  <2>5. QED
    BY <1>1, <1>3, <1>4, <2>1, <2>3, <2>4 DEF Testimony
<1>10. QED
  BY <1>5, <1>6, <1>7, <1>8, <1>9 DEF OfficeInv

\* A commit makes the row's draft the row and its entry the newest of its tenant.
LEMMA CommitTells ==
  ASSUME OfficeInv, NEW c \in Saves, Commit(c) PROVE OfficeInv'
<1> DEFINE s == save[c]
<1>1. /\ s.at = "witnessed" /\ WellFormed(s) /\ Draft(s) /\ Testifies(s)
      /\ tenants' = WithRow(s.id, s.row) /\ audit' = audit \cup {s.entry}
      /\ edition' = edition + 1 /\ UNCHANGED <<nextId, now, horizon>>
  BY DEF Commit, OfficeInv, SaveShape, NoSave, Drafts, Open, Testimony
<1>2. save' = [d \in Saves |-> IF d = c THEN NoSave ELSE save[d]]
  BY DEF Commit, OfficeInv, SaveShape
<1>3. \A d \in Saves : /\ save'[d] = IF d = c THEN NoSave ELSE save[d]
                       /\ (Open(d))' => d # c /\ Open(d) /\ save[d].id # s.id
                       /\ save'[d].at = "witnessed" => d # c /\ save[d].at = "witnessed"
  BY <1>1, <1>2 DEF Open, NoSave, OfficeInv, OneSavePerTenant
<1>4. /\ DOMAIN tenants' = DOMAIN tenants \cup {s.id}
      /\ \A t \in DOMAIN tenants' : tenants'[t] = IF t = s.id THEN s.row ELSE tenants[t]
  BY <1>1 DEF WithRow
<1>5. SaveShape'
  BY <1>2, <1>3 DEF OfficeInv, SaveShape, WellFormed, NoSave
<1>6. RowsOK'
  BY <1>1, <1>4 DEF OfficeInv, RowsOK, WellFormed, Draft
<1>7. Drafts'
  <2>1. ASSUME NEW d \in Saves, (Open(d))' PROVE Draft(save[d])'
    <3>1. d # c /\ Draft(save[d]) /\ save[d].id # s.id /\ save'[d] = save[d]
      BY <1>3, <2>1 DEF OfficeInv, Drafts
    <3>2. Draft(save[d]) /\ (save[d].id \in DOMAIN tenants' <=> save[d].id \in DOMAIN tenants)
            /\ (save[d].id \in DOMAIN tenants => tenants'[save[d].id] = tenants[save[d].id])
      BY <1>4, <3>1
    <3>3. QED
      BY <3>1, <3>2 DEF Draft
  <2>2. QED
    BY <2>1 DEF Drafts
<1>8. OneSavePerTenant'
  BY <1>3 DEF OfficeInv, OneSavePerTenant
<1>9. AuditShape'
  <2>1. FieldOf(s.kind) \in Fields
    BY <1>1 DEF WellFormed, Kinds, FieldOf, Fields
  <2>2. QED
    BY <1>1, <1>4, <2>1 DEF OfficeInv, AuditShape, Testifies
<1>10. Testimony'
  <2>1. ASSUME NEW d \in Saves, save'[d].at = "witnessed" PROVE Testifies(save[d])'
    <3>1. /\ d # c /\ save[d].at = "witnessed" /\ save'[d] = save[d] /\ save[d].id # s.id
          /\ Testifies(save[d]) /\ save[d].entry.id # s.entry.id
      BY <1>1, <1>3, <2>1 DEF OfficeInv, Testimony, Open
    <3>2. QED
      BY <1>1, <3>1 DEF Testifies
  <2>2. QED
    BY <1>3, <2>1 DEF OfficeInv, Testimony
<1>11. AuditTellsTheState'
  <2> DEFINE E(t, f) == { e \in audit : e.tenant = t /\ e.field = f }
             F(t, f) == { e \in audit' : e.tenant = t /\ e.field = f }
  <2>1. ASSUME NEW t \in DOMAIN tenants', NEW f \in Fields, F(t, f) # {}
        PROVE  tenants'[t][f] = IF f = "theme" THEN SanitizeTheme(Newest(F(t, f)).after)
                                               ELSE Newest(F(t, f)).after
    <3>1. CASE t = s.id /\ f = FieldOf(s.kind)
      <4>1. s.entry \in F(t, f) /\ s.entry.at \in Int /\ s.entry.id \in Int
        BY <1>1, <3>1 DEF Testifies
      <4>2. \A e \in F(t, f) \ {s.entry} :
              e.at \in Int /\ e.id \in Int /\ e.at <= s.entry.at /\ e.id < s.entry.id
        BY <1>1, <3>1 DEF Testifies, OfficeInv, AuditShape
      <4>3. Newest(F(t, f)) = s.entry
        <5> HIDE DEF F
        <5>1. QED
          BY <4>1, <4>2, NewestIs
      <4>4. tenants'[t][f] = SavedValue(s)
        BY <1>1, <1>4, <3>1 DEF Draft
      <4>5. QED
        BY <1>1, <3>1, <4>3, <4>4 DEF SavedValue, Testifies
    <3>2. CASE ~(t = s.id /\ f = FieldOf(s.kind))
      <4>1. F(t, f) = E(t, f)
        BY <1>1, <3>2 DEF Testifies
      <4>2. t \in DOMAIN tenants
        BY <1>4, <2>1, <4>1 DEF OfficeInv, AuditShape
      <4>3. tenants'[t][f] = tenants[t][f]
        BY <1>1, <1>4, <3>2, <4>2 DEF Draft
      <4>4. QED
        BY <2>1, <4>1, <4>2, <4>3 DEF OfficeInv, AuditTellsTheState
    <3>3. QED
      BY <3>1, <3>2
  <2>2. QED
    BY <2>1 DEF AuditTellsTheState
<1>12. QED
  BY <1>5, <1>6, <1>7, <1>8, <1>9, <1>10, <1>11 DEF OfficeInv

\* Time passes, and the office is left alone.
LEMMA OfficeWaits ==
  ASSUME OfficeInv, UNCHANGED <<officeVars, tenants, edition, horizon>>,
         now' \in {now, now + 1}, now' <= horizon
  PROVE  OfficeInv'
<1>1. /\ UNCHANGED <<save, audit, nextId, tenants, edition, horizon>>
      /\ now \in Nat /\ now' \in Nat /\ now <= now'
  BY DEF officeVars, OfficeInv, RowsOK
<1>2. RowsOK' /\ SaveShape' /\ Drafts' /\ OneSavePerTenant' /\ AuditTellsTheState'
  BY <1>1 DEF OfficeInv, RowsOK, SaveShape, WellFormed, Drafts, Draft, OneSavePerTenant, Open,
     AuditTellsTheState
<1>3. AuditShape'
  BY <1>1 DEF OfficeInv, AuditShape
<1>4. Testimony'
  <2>1. ASSUME NEW c \in Saves, save[c].at = "witnessed" PROVE Testifies(save[c])'
    BY <1>1, <2>1 DEF OfficeInv, Testimony, Testifies
  <2>2. QED
    BY <1>1, <2>1 DEF OfficeInv, Testimony
<1>5. QED
  BY <1>2, <1>3, <1>4 DEF OfficeInv

LEMMA OfficeKeeps ==
  ASSUME OfficeInv, scene \in Scenes, OfficeNext(AsksIn(scene)) PROVE OfficeInv'
<1>1. AsksIn(scene) \subseteq Asks
  BY PlatformAssumption
<1>2. PICK c \in Saves :
        \/ \E q \in AsksIn(scene) : Ask(c, q.kind, q.id, q.value)
        \/ Look(c) \/ Mutate(c) \/ Witness(c) \/ Commit(c) \/ FailSave(c)
  BY DEF OfficeNext
<1>3. QED
  BY <1>1, <1>2, AskKeeps, LookKeeps, MutateKeeps, WitnessKeeps, CommitTells, FailSaveKeeps

-----------------------------------------------------------------------------
(* The limiters.  The hits of a key that are let through fall into windows,  *)
(* each opened by its first hit and no more than Limit strong; the window    *)
(* that is followed (or was, last) began with hit m, and every hit but those *)
(* of the window before is a whole window older than it.                     *)

CountedHits(b) == IF b.count < Limit THEN b.count ELSE Limit

Rising(hits, at) ==
  /\ hits \in Seq(Nat)
  /\ \A i, j \in 1 .. Len(hits) : i <= j => hits[i] <= hits[j]
  /\ \A i \in 1 .. Len(hits) : hits[i] <= at

Opened(hits, m, inside, b, at) ==
  /\ Len(hits) - m + 1 <= Limit
  /\ inside => b.start = hits[m] /\ CountedHits(b) = Len(hits) - m + 1
  /\ ~inside => hits[m] + Window <= at
  /\ \A i \in 1 .. Len(hits) : i <= m - Limit => hits[m] - hits[i] >= Window

Sparse(hits) ==
  \A i, j \in 1 .. Len(hits) : j = i + 2 * Limit - 1 => hits[j] - hits[i] >= Window

Tracked(hits, inside, b, at) ==
  /\ Rising(hits, at)
  /\ IF hits = <<>> THEN ~inside
     ELSE \E m \in 1 .. Len(hits) : Opened(hits, m, inside, b, at)
  /\ Sparse(hits)

LimiterShape ==
  /\ buckets = [l \in Limiters |-> buckets[l]]
  /\ \A l \in Limiters :
       /\ buckets[l] = [k \in DOMAIN buckets[l] |-> buckets[l][k]]
       /\ DOMAIN buckets[l] \subseteq Keys(l)
       /\ \A k \in DOMAIN buckets[l] : buckets[l][k] \in Bucket
  /\ passed = [l \in Limiters |-> passed[l]]
  /\ \A l \in Limiters : passed[l] = [k \in Keys(l) |-> passed[l][k]]

LimiterInv ==
  /\ LimiterShape
  /\ now \in Nat
  /\ \A l \in Limiters : \A k \in Keys(l) :
       Tracked(passed[l][k], InWindow(l, k), buckets[l][k], now)

LEMMA TrackedWaits ==
  ASSUME NEW hits, NEW in \in BOOLEAN, NEW out \in BOOLEAN, NEW b, NEW at \in Nat, NEW to \in Nat,
         at <= to, in => b.start \in Nat, out <=> in /\ to - b.start < Window, Tracked(hits, in, b, at)
  PROVE  Tracked(hits, out, b, to)
<1>0. Window \in Nat
  BY DoorAssumption
<1>1. hits \in Seq(Nat) /\ Rising(hits, to)
  BY DEF Tracked, Rising
<1>2. ASSUME hits # <<>> PROVE \E m \in 1 .. Len(hits) : Opened(hits, m, out, b, to)
  <2>1. PICK m \in 1 .. Len(hits) : Opened(hits, m, in, b, at)
    BY <1>2 DEF Tracked
  <2>2. hits[m] \in Nat
    BY <1>1
  <2>3. ~out => hits[m] + Window <= to
    BY <1>0, <2>1, <2>2 DEF Opened
  <2>4. QED
    BY <2>1, <2>3 DEF Opened
<1>3. QED
  BY <1>1, <1>2 DEF Tracked

\* What a bucket that is not followed says is of no account.
LEMMA TrackedSame ==
  ASSUME NEW hits, NEW in \in BOOLEAN, NEW b, NEW c, NEW at, in => c = b, Tracked(hits, in, b, at)
  PROVE  Tracked(hits, in, c, at)
BY DEF Tracked, Opened

\* One more hit comes last.
LEMMA OneMoreHit ==
  ASSUME NEW at \in Nat, NEW hits, Rising(hits, at), NEW new, new = Append(hits, at)
  PROVE  /\ Len(hits) \in Nat /\ Len(new) = Len(hits) + 1 /\ new # <<>>
         /\ new[Len(hits) + 1] = at
         /\ \A i \in 1 .. Len(hits) : new[i] = hits[i] /\ hits[i] \in Nat
         /\ Rising(new, at)
<1>1. /\ hits \in Seq(Nat) /\ Len(hits) \in Nat /\ new \in Seq(Nat) /\ Len(new) = Len(hits) + 1
      /\ new[Len(hits) + 1] = at /\ \A i \in 1 .. Len(hits) : new[i] = hits[i] /\ hits[i] \in Nat
  BY DEF Rising
<1>2. \A i \in 1 .. Len(hits) : hits[i] <= at
  BY DEF Rising
<1>3. \A i, j \in 1 .. Len(hits) : i <= j => hits[i] <= hits[j]
  BY DEF Rising
<1>4. \A i, j \in 1 .. Len(new) : i <= j => new[i] <= new[j]
  BY <1>1, <1>2, <1>3
<1>5. \A i \in 1 .. Len(new) : new[i] <= at
  BY <1>1, <1>2
<1>6. QED
  BY <1>1, <1>4, <1>5 DEF Rising

\* If the window it falls in began a window after all but the last Limit hits, one more
\* hit leaves them sparse.
LEMMA SparseGrows ==
  ASSUME NEW at \in Nat, NEW hits, Rising(hits, at), Sparse(hits),
         NEW new, new = Append(hits, at),
         \A i \in 1 .. Len(hits) : i <= Len(hits) + 2 - 2 * Limit => at - hits[i] >= Window
  PROVE  Sparse(new)
<1>0. Limit \in Nat \ {0} /\ Window \in Nat
  BY DoorAssumption
<1>1. SUFFICES ASSUME NEW i \in 1 .. Len(new), NEW j \in 1 .. Len(new), j = i + 2 * Limit - 1
               PROVE  new[j] - new[i] >= Window
  BY DEF Sparse
<1>2. /\ Len(hits) \in Nat /\ Len(new) = Len(hits) + 1 /\ new[Len(hits) + 1] = at
      /\ \A k \in 1 .. Len(hits) : new[k] = hits[k] /\ hits[k] \in Nat
  BY OneMoreHit
<1>3. i < j /\ i \in 1 .. Len(hits)
  BY <1>0, <1>1, <1>2
<1>4. CASE j = Len(hits) + 1
  <2>1. i <= Len(hits) + 2 - 2 * Limit
    BY <1>0, <1>1, <1>2, <1>4
  <2>2. at - hits[i] >= Window
    BY <1>3, <2>1
  <2>3. new[j] = at /\ new[i] = hits[i]
    BY <1>2, <1>3, <1>4
  <2>4. QED
    BY <2>2, <2>3
<1>5. CASE j \in 1 .. Len(hits)
  <2>1. hits[j] - hits[i] >= Window
    BY <1>1, <1>3, <1>5 DEF Sparse
  <2>2. new[j] = hits[j] /\ new[i] = hits[i]
    BY <1>2, <1>3, <1>5
  <2>3. QED
    BY <2>1, <2>2
<1>6. QED
  BY <1>2, <1>4, <1>5

\* A hit that opens a window.
LEMMA TrackedOpens ==
  ASSUME NEW hits, NEW b, NEW c, NEW at \in Nat, Tracked(hits, FALSE, b, at),
         c.start = at, c.count = 1
  PROVE  Tracked(Append(hits, at), TRUE, c, at)
<1> DEFINE new == Append(hits, at)
<1>0. Limit \in Nat \ {0} /\ Window \in Nat \ {0}
  BY DoorAssumption
<1>1. /\ Len(hits) \in Nat /\ Len(new) = Len(hits) + 1 /\ new # <<>>
      /\ new[Len(hits) + 1] = at
      /\ \A i \in 1 .. Len(hits) : new[i] = hits[i] /\ hits[i] \in Nat
      /\ Rising(new, at)
  BY OneMoreHit DEF Tracked
<1> HIDE DEF new
<1>2. ASSUME NEW i \in 1 .. Len(hits), i <= Len(hits) + 1 - Limit PROVE at - hits[i] >= Window
  <2>1. hits # <<>>
    BY <1>1
  <2>2. PICK m \in 1 .. Len(hits) : Len(hits) - m + 1 <= Limit /\ hits[m] + Window <= at
    BY <2>1 DEF Tracked, Opened
  <2>3. i <= m
    BY <1>0, <1>1, <1>2, <2>2
  <2>4. hits[i] <= hits[m]
    BY <2>3 DEF Tracked, Rising
  <2>5. hits[i] \in Nat /\ hits[m] \in Nat
    BY <1>1
  <2>6. QED
    BY <1>0, <2>2, <2>4, <2>5
<1>3. Sparse(new)
  <2>1. \A i \in 1 .. Len(hits) : i <= Len(hits) + 2 - 2 * Limit => i <= Len(hits) + 1 - Limit
    BY <1>0, <1>1
  <2>2. QED
    BY <1>2, <2>1, SparseGrows DEF Tracked, new
<1>4. PICK m \in 1 .. Len(new) : m = Len(hits) + 1
  BY <1>1
<1>5. Opened(new, m, TRUE, c, at)
  <2>1. CountedHits(c) = 1
    BY <1>0 DEF CountedHits
  <2>2. \A i \in 1 .. Len(new) : i <= m - Limit => i \in 1 .. Len(hits) /\ i <= Len(hits) + 1 - Limit
    BY <1>0, <1>1, <1>4
  <2>3. new[m] = at
    BY <1>1, <1>4
  <2>4. \A i \in 1 .. Len(new) : i <= m - Limit => new[m] - new[i] >= Window
    BY <1>1, <1>2, <2>2, <2>3
  <2>5. Len(new) - m + 1 = 1 /\ 1 <= Limit
    BY <1>0, <1>1, <1>4
  <2>6. QED
    BY <2>1, <2>3, <2>4, <2>5 DEF Opened
<1>6. Tracked(new, TRUE, c, at)
  BY <1>1, <1>3, <1>5 DEF Tracked
<1>7. QED
  BY <1>6 DEF new

\* A hit that the window has room for.
LEMMA TrackedCounts ==
  ASSUME NEW hits, NEW b, NEW c, NEW at \in Nat, Tracked(hits, TRUE, b, at),
         b.count \in Nat, b.count < Limit, c.start = b.start, c.count = b.count + 1
  PROVE  Tracked(Append(hits, at), TRUE, c, at)
<1> DEFINE new == Append(hits, at)
<1>0. Limit \in Nat \ {0} /\ Window \in Nat \ {0}
  BY DoorAssumption
<1>1. /\ Len(hits) \in Nat /\ Len(new) = Len(hits) + 1 /\ new # <<>>
      /\ new[Len(hits) + 1] = at
      /\ \A i \in 1 .. Len(hits) : new[i] = hits[i] /\ hits[i] \in Nat
      /\ Rising(new, at)
  BY OneMoreHit DEF Tracked
<1>2. hits # <<>>
  BY DEF Tracked
<1> HIDE DEF new
<1>3. PICK m \in 1 .. Len(hits) : Opened(hits, m, TRUE, b, at)
  BY <1>2 DEF Tracked
<1>4. /\ b.start = hits[m] /\ b.count = Len(hits) - m + 1
      /\ \A i \in 1 .. Len(hits) : i <= m - Limit => hits[m] - hits[i] >= Window
  BY <1>3 DEF Opened, CountedHits
<1>5. \A i \in 1 .. Len(hits) : i <= m - Limit => at - hits[i] >= Window
  <2>1. hits[m] <= at /\ hits[m] \in Nat
    BY <1>1 DEF Tracked, Rising
  <2>2. QED
    BY <1>0, <1>1, <1>4, <2>1
<1>6. Sparse(new)
  <2>1. \A i \in 1 .. Len(hits) : i <= Len(hits) + 2 - 2 * Limit => i <= m - Limit
    BY <1>0, <1>1, <1>4
  <2>2. \A i \in 1 .. Len(hits) : i <= Len(hits) + 2 - 2 * Limit => at - hits[i] >= Window
    BY <1>5, <2>1
  <2>3. QED
    BY <2>2, SparseGrows DEF Tracked, new
<1>7. Opened(new, m, TRUE, c, at)
  <2>1. CountedHits(c) = b.count + 1 /\ b.count + 1 <= Limit
    BY <1>0 DEF CountedHits
  <2>6. Len(new) - m + 1 = b.count + 1
    BY <1>1, <1>4
  <2>2. \A i \in 1 .. Len(new) : i <= m - Limit => i \in 1 .. Len(hits)
    BY <1>0, <1>1
  <2>3. \A i \in 1 .. Len(new) : i <= m - Limit => new[m] - new[i] >= Window
    BY <1>1, <1>4, <2>2
  <2>4. c.start = new[m]
    BY <1>1, <1>4
  <2>5. QED
    BY <2>6, <2>1, <2>3, <2>4, Zenon DEF Opened
<1>8. m \in 1 .. Len(new)
  BY <1>1
<1>9. Tracked(new, TRUE, c, at)
  BY <1>1, <1>6, <1>7, <1>8 DEF Tracked
<1>10. QED
  BY <1>9 DEF new

\* A hit too many, which Redis counts and the process does not.
LEMMA TrackedRefuses ==
  ASSUME NEW hits, NEW b, NEW c, NEW at \in Nat, Tracked(hits, TRUE, b, at),
         b.count \in Nat, b.count >= Limit, c.start = b.start, c.count \in {b.count, b.count + 1}
  PROVE  Tracked(hits, TRUE, c, at)
<1>1. CountedHits(c) = CountedHits(b)
  BY DoorAssumption DEF CountedHits
<1>2. QED
  BY <1>1 DEF Tracked, Opened

\* A limiter follows key k from now on, the other keys' windows are as they were.
Follows(l, k, X, h) ==
  /\ buckets' = [buckets EXCEPT ![l] = X] /\ passed' = [passed EXCEPT ![l][k] = h]
  /\ X = [j \in DOMAIN X |-> X[j]] /\ DOMAIN X \subseteq Keys(l)
  /\ \A j \in DOMAIN X : X[j] \in Bucket
  /\ \A j \in Keys(l) \ {k} :
       /\ j \in DOMAIN X => j \in DOMAIN buckets[l] /\ X[j] = buckets[l][j]
       /\ InWindow(l, j) => j \in DOMAIN X
  /\ k \in DOMAIN X /\ now - X[k].start < Window /\ Tracked(h, TRUE, X[k], now)

LEMMA LimiterFollows ==
  ASSUME LimiterInv, now' = now, NEW l \in Limiters, NEW k \in Keys(l), NEW X, NEW h,
         Follows(l, k, X, h)
  PROVE  LimiterInv'
<1> USE DEF Follows
<1>1. /\ \A m \in Limiters : buckets'[m] = IF m = l THEN X ELSE buckets[m]
      /\ buckets' = [m \in Limiters |-> buckets'[m]]
  BY DEF LimiterInv, LimiterShape
<1>2. /\ \A m \in Limiters : \A j \in Keys(m) :
           passed'[m][j] = IF m = l /\ j = k THEN h ELSE passed[m][j]
      /\ passed' = [m \in Limiters |-> passed'[m]]
      /\ \A m \in Limiters : passed'[m] = [j \in Keys(m) |-> passed'[m][j]]
  BY DEF LimiterInv, LimiterShape
<1>3. LimiterShape'
  <2>1. ASSUME NEW m \in Limiters
        PROVE  /\ buckets'[m] = [j \in DOMAIN buckets'[m] |-> buckets'[m][j]]
               /\ DOMAIN buckets'[m] \subseteq Keys(m)
               /\ \A j \in DOMAIN buckets'[m] : buckets'[m][j] \in Bucket
    <3>1. CASE m = l
      BY <1>1, <3>1
    <3>2. CASE m # l
      BY <1>1, <3>2 DEF LimiterInv, LimiterShape
    <3>3. QED
      BY <3>1, <3>2
  <2>2. QED
    BY <1>1, <1>2, <2>1 DEF LimiterShape
<1>4. ASSUME NEW m \in Limiters, NEW j \in Keys(m)
      PROVE  Tracked(passed[m][j], InWindow(m, j), buckets[m][j], now)'
  <2>1. Tracked(passed[m][j], InWindow(m, j), buckets[m][j], now)
    BY DEF LimiterInv
  <2>2. CASE m = l /\ j = k
    <3>1. InWindow(m, j)' = TRUE
      BY <1>1, <2>2 DEF InWindow
    <3>2. passed'[m][j] = h /\ buckets'[m][j] = X[k]
      BY <1>1, <1>2, <2>2
    <3>3. Tracked(passed'[m][j], TRUE, buckets'[m][j], now')
      BY <3>2
    <3>4. QED
      BY <3>1, <3>3 DEF Tracked, Rising, Opened, Sparse, CountedHits
  <2>3. CASE ~(m = l /\ j = k)
    <3>1. passed'[m][j] = passed[m][j]
      BY <1>2, <2>3
    <3>2. InWindow(m, j)' = InWindow(m, j)
      BY <1>1, <2>3 DEF InWindow
    <3>3. InWindow(m, j) => buckets'[m][j] = buckets[m][j]
      BY <1>1, <2>3
    <3>4. InWindow(m, j) \in BOOLEAN
      BY DEF InWindow
    <3>5. Tracked(passed[m][j], InWindow(m, j), buckets'[m][j], now)
      BY <2>1, <3>3, <3>4, TrackedSame
    <3>6. Tracked(passed'[m][j], InWindow(m, j)', buckets'[m][j], now')
      BY <3>1, <3>2, <3>5
    <3>7. QED
      BY <3>6 DEF Tracked, Rising, Opened, Sparse, CountedHits
  <2>4. QED
    BY <2>2, <2>3
<1>5. QED
  BY <1>3, <1>4 DEF LimiterInv

LEMMA TryConsumeKeeps ==
  ASSUME LimiterInv, NEW l \in Limiters, NEW k \in Keys(l), TryConsume(l, k), now' = now
  PROVE  LimiterInv'
<1> DEFINE b == buckets[l]
<1>0. Limit \in Nat \ {0} /\ Window \in Nat \ {0}
  BY DoorAssumption
<1>1. /\ b = [j \in DOMAIN b |-> b[j]] /\ DOMAIN b \subseteq Keys(l)
      /\ \A j \in DOMAIN b : b[j] \in Bucket
      /\ now \in Nat /\ Tracked(passed[l][k], InWindow(l, k), b[k], now)
      /\ passed = [passed EXCEPT ![l][k] = passed[l][k]]
  BY DEF LimiterInv, LimiterShape
<1>2. CASE ~InWindow(l, k)
  <2>1. PICK S : /\ S \in {b, Swept(l)}
                 /\ buckets' = [buckets EXCEPT ![l] = With(S, k, FirstHit)]
    BY <1>2 DEF TryConsume, CountInProcess, CountInRedis, LimiterInv, LimiterShape
  <2>2. passed' = [passed EXCEPT ![l][k] = Append(passed[l][k], now)]
    BY <1>2 DEF TryConsume, HasBudget
  <2>3. /\ DOMAIN S \subseteq DOMAIN b /\ \A j \in DOMAIN S : S[j] = b[j]
        /\ \A j \in DOMAIN b : InWindow(l, j) => j \in DOMAIN S
    BY <2>1 DEF Swept, Only
  <2> DEFINE X == With(S, k, FirstHit)
  <2>4. /\ X = [j \in DOMAIN X |-> X[j]] /\ DOMAIN X = DOMAIN S \cup {k}
        /\ X[k] = FirstHit /\ \A j \in DOMAIN S : j # k => X[j] = S[j]
    BY DEF With
  <2>5. FirstHit \in Bucket /\ FirstHit.start = now /\ FirstHit.count = 1
    BY <1>1 DEF FirstHit, Bucket
  <2> HIDE DEF X
  <2>6. Tracked(Append(passed[l][k], now), TRUE, FirstHit, now)
    <3>1. Tracked(passed[l][k], FALSE, b[k], now)
      BY <1>1, <1>2 DEF Tracked, Opened
    <3>2. QED
      BY <1>1, <2>5, <3>1, TrackedOpens
  <2>7. /\ DOMAIN X \subseteq Keys(l) /\ \A j \in DOMAIN X : X[j] \in Bucket
        /\ k \in DOMAIN X /\ now - X[k].start < Window
    BY <1>0, <1>1, <2>3, <2>4, <2>5
  <2>8. \A j \in Keys(l) \ {k} :
           /\ j \in DOMAIN X => j \in DOMAIN b /\ X[j] = b[j]
           /\ InWindow(l, j) => j \in DOMAIN X
    BY <2>3, <2>4 DEF InWindow
  <2>9. buckets' = [buckets EXCEPT ![l] = X] /\ Tracked(Append(passed[l][k], now), TRUE, X[k], now)
    BY <2>1, <2>4, <2>6 DEF X
  <2>10. Follows(l, k, X, Append(passed[l][k], now))
    BY <2>2, <2>4, <2>7, <2>8, <2>9 DEF Follows
  <2>11. QED
    BY <2>10, LimiterFollows
<1>3. CASE InWindow(l, k)
  <2>1. k \in DOMAIN b /\ now - b[k].start < Window /\ b[k] \in Bucket
    BY <1>1, <1>3 DEF InWindow
  <2>2. Tracked(passed[l][k], TRUE, b[k], now)
    BY <1>1, <1>3 DEF Tracked, Opened
  <2>3. PICK X : /\ X \in {b, OneMore(b, k)}
                 /\ buckets' = [buckets EXCEPT ![l] = X]
                 /\ HasBudget(l, k) => X = OneMore(b, k)
    <3>1. CASE redis
      BY <1>3, <3>1 DEF TryConsume, CountInRedis
    <3>2. CASE ~redis
      <4>1. CountInProcess(l, k)
        BY <3>2 DEF TryConsume
      <4>2. QED
        BY <1>3, <4>1 DEF CountInProcess
    <3>3. QED
      BY <3>1, <3>2
  <2>4. /\ X = [j \in DOMAIN X |-> X[j]] /\ DOMAIN X = DOMAIN b
        /\ \A j \in DOMAIN b \ {k} : X[j] = b[j]
        /\ X[k] \in Bucket /\ X[k].start = b[k].start
        /\ X[k].count \in {b[k].count, b[k].count + 1}
        /\ HasBudget(l, k) => X[k].count = b[k].count + 1
    BY <1>1, <2>1, <2>3 DEF Bucket, OneMore
  <2>5. /\ DOMAIN X \subseteq Keys(l) /\ \A j \in DOMAIN X : X[j] \in Bucket
        /\ k \in DOMAIN X /\ now - X[k].start < Window
    BY <1>1, <2>1, <2>4
  <2>6. \A j \in Keys(l) \ {k} :
           /\ j \in DOMAIN X => j \in DOMAIN b /\ X[j] = b[j]
           /\ InWindow(l, j) => j \in DOMAIN X
    BY <2>4 DEF InWindow
  <2>7. b[k].count \in Nat
    BY <2>1 DEF Bucket
  <2>8. CASE HasBudget(l, k)
    <3>1. b[k].count < Limit
      BY <1>3, <2>8 DEF HasBudget
    <3>2. Tracked(Append(passed[l][k], now), TRUE, X[k], now)
      BY <1>1, <2>2, <2>4, <2>7, <2>8, <3>1, TrackedCounts
    <3>3. passed' = [passed EXCEPT ![l][k] = Append(passed[l][k], now)]
      BY <2>8 DEF TryConsume
    <3>4. Follows(l, k, X, Append(passed[l][k], now))
      BY <2>3, <2>4, <2>5, <2>6, <3>2, <3>3 DEF Follows
    <3>5. QED
      BY <3>4, LimiterFollows
  <2>9. CASE ~HasBudget(l, k)
    <3>1. b[k].count >= Limit
      BY <1>0, <1>3, <2>7, <2>9 DEF HasBudget
    <3>2. Tracked(passed[l][k], TRUE, X[k], now)
      BY <1>1, <2>2, <2>4, <2>7, <3>1, TrackedRefuses
    <3>3. passed' = [passed EXCEPT ![l][k] = passed[l][k]]
      BY <1>1, <2>9 DEF TryConsume
    <3>4. Follows(l, k, X, passed[l][k])
      BY <2>3, <2>4, <2>5, <2>6, <3>2, <3>3 DEF Follows
    <3>5. QED
      BY <3>4, LimiterFollows
  <2>10. QED
    BY <2>8, <2>9
<1>4. QED
  BY <1>2, <1>3

LEMMA ConsumesKeeps ==
  ASSUME LimiterInv, NEW l \in {"embed-ip", "join-ip"}, NEW ip \in Sockets, Consumes(l, ip),
         now' = now
  PROVE  LimiterInv'
<1>1. CASE ip = NoAddress
  BY <1>1 DEF Consumes, LimiterInv, LimiterShape, InWindow
<1>2. CASE ip # NoAddress
  BY <1>2, TryConsumeKeeps DEF Consumes, Limiters, Keys, Sockets
<1>3. QED
  BY <1>1, <1>2

\* A window closes with time.
LEMMA LimitersWait ==
  ASSUME LimiterInv, UNCHANGED <<buckets, passed>>, now' \in {now, now + 1}
  PROVE  LimiterInv'
<1>1. now \in Nat /\ now' \in Nat /\ now <= now'
  BY DEF LimiterInv
<1>2. ASSUME NEW l \in Limiters, NEW k \in Keys(l)
      PROVE  Tracked(passed[l][k], InWindow(l, k), buckets[l][k], now)'
  <2>1. Tracked(passed[l][k], InWindow(l, k), buckets[l][k], now)
    BY DEF LimiterInv
  <2>2. InWindow(l, k) => buckets[l][k].start \in Nat
    BY DEF InWindow, LimiterInv, LimiterShape, Bucket
  <2>3. InWindow(l, k)' <=> InWindow(l, k) /\ now' - buckets[l][k].start < Window
    BY <1>1, <2>2, DoorAssumption DEF InWindow, LimiterInv, LimiterShape, Bucket
  <2>4. InWindow(l, k) \in BOOLEAN /\ InWindow(l, k)' \in BOOLEAN
    BY DEF InWindow
  <2>5. Tracked(passed[l][k], InWindow(l, k)', buckets[l][k], now')
    BY <1>1, <2>1, <2>2, <2>3, <2>4, TrackedWaits
  <2>6. QED
    BY <2>5 DEF Tracked, Rising, Opened, Sparse, CountedHits
<1>3. LimiterShape'
  BY DEF LimiterInv, LimiterShape
<1>4. QED
  BY <1>1, <1>2, <1>3 DEF LimiterInv

\* The hits of any stretch as long as a window are fewer than twice the limit.
LEMMA LimitersLimit == LimiterInv => LessThanTwiceTheLimit
<1> SUFFICES ASSUME LimiterInv, NEW l \in Limiters, NEW k \in Keys(l),
                    NEW i \in DOMAIN passed[l][k],
                    i + 2 * Limit - 1 \in DOMAIN passed[l][k]
             PROVE  passed[l][k][i + 2 * Limit - 1] - passed[l][k][i] >= Window
  BY DEF LessThanTwiceTheLimit
<1>1. passed[l][k] \in Seq(Nat) /\ Sparse(passed[l][k])
  BY DEF LimiterInv, Tracked, Rising
<1>2. DOMAIN passed[l][k] = 1 .. Len(passed[l][k])
  BY <1>1
<1>3. QED
  BY <1>1, <1>2 DEF Sparse

-----------------------------------------------------------------------------
(* Visits.  What a visit was told stands as long as its tenant is not saved *)
(* again; a save leaves every visit under way with an edition that is over. *)

Told == {"", "limited", "tenant-lookup-failed", "unknown-tenant", "tenant-not-active",
         "origin-not-allowed", "failed", "token-expired", "not-entitled", "already-used"}
Carried == [at : {"key", "resolve", "sign", "verify", "tenant", "consume", "in", "out"},
            kind : {"embed", "renew", "join"}, key : EmbedKeys \cup {Unset}, origin : Senders,
            token : Token \cup {NoToken}, game : TenantGames \cup {Unset},
            of : TenantIds \cup {Unset}, decided : Nat, edition : Nat, why : Told]

Stands(w) ==
  /\ w.of \in DOMAIN tenants
  /\ w.at \in {"sign", "consume", "in"} => Active(tenants[w.of], w.decided)
  /\ w.at \in {"sign", "in"} /\ w.kind = "embed" => w.origin \in tenants[w.of].allowedOrigins
  /\ w.at \in {"consume", "in"} /\ w.kind = "join" => w.game \in tenants[w.of].entitledGames
  /\ w.why = "tenant-not-active" => w.at = "out" /\ ~Active(tenants[w.of], w.decided)

UnderWay(w) ==
  /\ w.at \in {"key", "resolve", "sign"} => w.kind \in {"embed", "renew"} /\ w.key \in EmbedKeys
  /\ w.at \in {"verify", "tenant", "consume"} => w.kind = "join"
  /\ w.at \in {"sign", "verify", "tenant", "consume"} => w.token \in Token
  /\ w.at \notin {"in", "out"} => w.why = ""
  /\ w.edition <= edition

Kept(w) == w = NoVisit \/ (w \in Carried /\ UnderWay(w)
                            /\ (w.of # Unset /\ w.edition = edition => Stands(w)))

VisitInv == visit = [v \in Visits |-> visit[v]] /\ \A v \in Visits : Kept(visit[v])

\* The tokens that may still open a seat.
Carries(w) == w.at \in {"sign", "verify", "tenant", "consume"}
Held == tokens \cup { visit[v].token : v \in { u \in Visits : Carries(visit[u]) } }

Issued(t) == /\ t \in Token /\ t.jti \in 1 .. minted /\ t.tenant \in DOMAIN tenants
             /\ t.exp * TicksPerSecond <= now + GuardTtl
\* Either the guard refuses it, or it refused it until the token was dead.
ShutOut(t) == \/ t.jti \in DOMAIN seen /\ t.exp * TicksPerSecond <= seen[t.jti]
              \/ t.exp * TicksPerSecond <= now

GuardShape ==
  /\ minted \in Nat /\ spent \in Seq([jti : Nat, alive : BOOLEAN])
  /\ DOMAIN seen \subseteq 1 .. minted /\ \A j \in DOMAIN seen : seen[j] \in Nat
GuardInv ==
  /\ GuardShape
  /\ \A t \in Held : Issued(t)
  /\ \A i \in DOMAIN spent :
       spent[i].jti \in 1 .. minted /\ \A t \in Held : t.jti = spent[i].jti => ShutOut(t)
  /\ OncePerToken

\* A day is paid for where the panel shows it so, and there the window is open.
LEMMA PaidAsShown ==
  ASSUME NEW row \in Row, EndsWithDay(row), NEW at \in Int
  PROVE  /\ Active(row, at) <=> ShownAsPaid(row, at)
         /\ Status(row, at) = "active" <=> ShownAsPaid(row, at)
<1>1. TicksPerDay \in Nat \ {0} /\ BehindUtc \in Int
  BY TenantsAssumption
<1>2. /\ row.validUntil \in Int \cup {Unset} /\ row.validFrom \in Int \cup {Unset}
      /\ row.validUntil # Unset => row.validUntil \in Int
      /\ row.validFrom # Unset => row.validFrom \in Int
  BY DEF Row
<1>3. Status(row, at) = "active" <=> Active(row, at)
  BY <1>2 DEF Status, Active
<1>4. CASE row.validUntil = Unset
  BY <1>3, <1>4 DEF Active, ShownAsPaid
<1>5. CASE row.validUntil # Unset
  <2>1. PICK u \in Int : u = row.validUntil
    BY <1>2, <1>5
  <2>2. (u - BehindUtc) % TicksPerDay = 0
    BY <1>5, <2>1 DEF EndsWithDay
  <2>3. at < u <=> (at - BehindUtc) \div TicksPerDay <= (u - 1 - BehindUtc) \div TicksPerDay
    <3>1. ASSUME NEW x \in Int, NEW y \in Int, NEW d \in Nat \ {0}, y % d = 0
          PROVE  x < y <=> x \div d <= (y - 1) \div d
      BY <3>1
    <3>2. /\ at - BehindUtc \in Int /\ u - BehindUtc \in Int
          /\ u - 1 - BehindUtc = (u - BehindUtc) - 1
      BY <1>1
    <3>3. at - BehindUtc < u - BehindUtc
          <=> (at - BehindUtc) \div TicksPerDay <= ((u - BehindUtc) - 1) \div TicksPerDay
      BY <1>1, <2>2, <3>1, <3>2
    <3>4. QED
      BY <1>1, <3>2, <3>3
  <2>4. DayOf(at) <= InstantToPaidThrough(u) <=> at < u
    BY <2>3 DEF DayOf, InstantToPaidThrough, ReadZoned
  <2>5. QED
    BY <1>2, <1>3, <1>5, <2>1, <2>4 DEF Active, ShownAsPaid
<1>6. QED
  BY <1>4, <1>5

LEMMA DoorAgrees == OfficeInv /\ VisitInv => DoorAgreesWithThePanel
<1> SUFFICES ASSUME OfficeInv, VisitInv, NEW v \in Visits, visit[v].at \in {"in", "out"},
                    visit[v].of # Unset, visit[v].edition = edition
             PROVE  LET w == visit[v]
                        row == tenants[w.of] IN
                    /\ w.at = "in" => ShownAsPaid(row, w.decided)
                    /\ w.why = "tenant-not-active" => ~ShownAsPaid(row, w.decided)
                    /\ Status(row, w.decided) = "active" <=> ShownAsPaid(row, w.decided)
                    /\ w.at = "in" /\ w.kind = "join" => w.game \in row.entitledGames
                    /\ w.at = "in" /\ w.kind = "embed" => w.origin \in row.allowedOrigins
  BY DEF DoorAgreesWithThePanel
<1>1. visit[v] \in Carried /\ Stands(visit[v])
  BY DEF VisitInv, Kept, NoVisit
<1>2. tenants[visit[v].of] \in Row /\ EndsWithDay(tenants[visit[v].of]) /\ visit[v].decided \in Int
  BY <1>1 DEF OfficeInv, RowsOK, Stands, Carried
<1>3. /\ Active(tenants[visit[v].of], visit[v].decided)
           <=> ShownAsPaid(tenants[visit[v].of], visit[v].decided)
      /\ Status(tenants[visit[v].of], visit[v].decided) = "active"
           <=> ShownAsPaid(tenants[visit[v].of], visit[v].decided)
  BY <1>2, PaidAsShown
<1>4. QED
  BY <1>1, <1>3 DEF Stands

\* Time passes and saves are committed; the visits stay where they are.
LEMMA VisitsWait ==
  ASSUME VisitInv, UNCHANGED visit, edition \in Nat,
         UNCHANGED <<tenants, edition>> \/ edition' = edition + 1
  PROVE  VisitInv'
<1>1. ASSUME NEW v \in Visits PROVE Kept(visit[v])'
  <2>1. CASE UNCHANGED <<tenants, edition>>
    BY <2>1 DEF VisitInv, Kept, UnderWay, Stands
  <2>2. CASE edition' = edition + 1
    <3>1. CASE visit[v] = NoVisit
      BY <3>1 DEF Kept
    <3>2. CASE visit[v] # NoVisit
      <4>1. visit[v] \in Carried /\ UnderWay(visit[v]) /\ visit[v].edition \in Nat
        BY <3>2 DEF VisitInv, Kept, Carried
      <4>2. PICK w : w = visit[v]
        OBVIOUS
      <4>3. w.edition <= edition' /\ w.edition # edition'
        <5>1. w.edition \in Nat /\ w.edition <= edition
          BY <4>1, <4>2 DEF UnderWay
        <5>2. QED
          BY <2>2, <5>1
      <4>4. w \in Carried /\ UnderWay(w)'
        BY <4>1, <4>2, <4>3 DEF UnderWay
      <4>5. QED
        BY <4>2, <4>3, <4>4 DEF Kept
    <3>3. QED
      BY <3>1, <3>2
  <2>3. QED
    BY <2>1, <2>2
<1>2. QED
  BY <1>1 DEF VisitInv

\* A step of one visit.
LEMMA VisitMoves ==
  ASSUME VisitInv, NEW v \in Visits, NEW w, visit' = [visit EXCEPT ![v] = w], Kept(w),
         UNCHANGED <<tenants, edition>>
  PROVE  VisitInv'
<1>1. \A u \in Visits : visit'[u] = IF u = v THEN w ELSE visit[u]
  BY DEF VisitInv
<1>2. ASSUME NEW u \in Visits PROVE Kept(visit[u])'
  <2>1. PICK x : x = visit'[u]
    OBVIOUS
  <2>2. Kept(x)
    BY <1>1, <2>1 DEF VisitInv
  <2>3. Kept(x)'
    BY <2>2 DEF Kept, UnderWay, Stands
  <2>4. QED
    BY <2>1, <2>3, Zenon DEF Kept, UnderWay, Stands
<1>3. visit' = [u \in Visits |-> visit'[u]]
  BY <1>1 DEF VisitInv
<1>4. QED
  BY <1>2, <1>3 DEF VisitInv

LEMMA HeldMoves ==
  ASSUME VisitInv, NEW v \in Visits, NEW w, visit' = [visit EXCEPT ![v] = w],
         tokens' \subseteq Held, Carries(w) => w.token \in Held
  PROVE  Held' \subseteq Held
<1>1. \A u \in Visits : visit'[u] = IF u = v THEN w ELSE visit[u]
  BY DEF VisitInv
<1>2. ASSUME NEW u \in Visits, Carries(visit'[u]) PROVE visit'[u].token \in Held
  BY <1>1, <1>2 DEF Held, Carries
<1>3. QED
  BY <1>2 DEF Held, Carries

\* As long as no token is minted or accepted the guard goes on as it was.
LEMMA GuardWaits ==
  ASSUME GuardInv, Held' \subseteq Held, UNCHANGED <<minted, seen, spent>>,
         DOMAIN tenants \subseteq DOMAIN tenants', now \in Nat, now' \in Nat, now <= now'
  PROVE  GuardInv'
<1>1. \A t \in Held' : t \in Held /\ t.exp \in Nat
  BY DEF GuardInv, Issued, Token
<1>2. TicksPerSecond \in Nat /\ GuardTtl \in Nat
  BY DoorAssumption DEF GuardTtl
<1>3. GuardShape' /\ OncePerToken'
  BY DEF GuardInv, GuardShape, OncePerToken
<1>4. \A t \in Held' : Issued(t)'
  <2>1. \A t \in Held' : t.exp * TicksPerSecond \in Int /\ t.exp * TicksPerSecond <= now + GuardTtl
    BY <1>1, <1>2 DEF GuardInv, Issued
  <2>2. \A t \in Held' : t.exp * TicksPerSecond <= now' + GuardTtl
    BY <1>2, <2>1
  <2>3. QED
    BY <1>1, <2>2 DEF GuardInv, Issued, GuardTtl
<1>5. ASSUME NEW i \in DOMAIN spent, NEW t \in Held', t.jti = spent[i].jti PROVE ShutOut(t)'
  <2>1. ShutOut(t) /\ t.exp * TicksPerSecond \in Int
    BY <1>1, <1>2, <1>5 DEF GuardInv
  <2>2. QED
    BY <2>1 DEF ShutOut
<1>6. QED
  BY <1>3, <1>4, <1>5 DEF GuardInv

LEMMA VisitShape ==
  ASSUME VisitInv, NEW v \in Visits, visit[v].at # "idle"
  PROVE  /\ visit[v] \in Carried /\ UnderWay(visit[v])
         /\ (visit[v].of # Unset /\ visit[v].edition = edition => Stands(visit[v]))
BY DEF VisitInv, Kept, NoVisit

LEMMA PlainStep ==
  ASSUME OfficeInv, VisitInv, GuardInv, NEW v \in Visits, NEW w,
         visit' = [visit EXCEPT ![v] = w], Kept(w), Carries(w) => w.token \in Held,
         tokens' \subseteq Held, UNCHANGED <<minted, seen, spent, tenantsVars>>
  PROVE  VisitInv' /\ GuardInv'
<1>1. UNCHANGED <<tenants, edition, now>> /\ now \in Nat
  BY DEF tenantsVars, OfficeInv, RowsOK
<1>2. VisitInv'
  BY <1>1, VisitMoves
<1>3. Held' \subseteq Held
  BY HeldMoves
<1>4. GuardInv'
  BY <1>1, <1>3, GuardWaits
<1>5. QED
  BY <1>2, <1>4

LEMMA TokensAreHeld ==
  ASSUME GuardInv
  PROVE  /\ tokens \subseteq Held /\ \A t \in Held : t \in Token
         /\ \A v \in Visits : Carries(visit[v]) => visit[v].token \in Held
BY DEF Held, GuardInv, Issued

\* Who is told something keeps no token; it was not about the window.
LEMMA OutKeeps ==
  ASSUME OfficeInv, VisitInv, GuardInv, NEW v \in Visits, visit[v].at # "idle",
         NEW why \in Told, why # "tenant-not-active", Out(v, why),
         UNCHANGED <<tokens, minted, seen, spent, tenantsVars>>
  PROVE  VisitInv' /\ GuardInv'
<1>1. visit[v] \in Carried /\ UnderWay(visit[v]) /\ now \in Nat
      /\ (visit[v].of # Unset /\ visit[v].edition = edition => Stands(visit[v]))
  BY VisitShape DEF OfficeInv, RowsOK
<1>2. CASE visit[v].of = Unset
  <2>1. Kept(NoVisit) /\ ~Carries(NoVisit)
    BY DEF Kept, Carries, NoVisit
  <2>2. visit' = [visit EXCEPT ![v] = NoVisit]
    BY <1>2 DEF Out
  <2>3. QED
    BY <2>1, <2>2, PlainStep, TokensAreHeld
<1>3. CASE visit[v].of # Unset
  <2> DEFINE w == [visit[v] EXCEPT !.at = "out", !.why = why, !.decided = now]
  <2>1. w \in Carried /\ w.at = "out" /\ w.why = why /\ w.of = visit[v].of
        /\ w.edition = visit[v].edition
    <3>1. "out" \in {"key", "resolve", "sign", "verify", "tenant", "consume", "in", "out"}
      OBVIOUS
    <3>2. w \in Carried
      BY <1>1, <3>1 DEF Carried
    <3>3. w.at = "out" /\ w.why = why
      BY <1>1 DEF Carried
    <3>4. w.of = visit[v].of /\ w.edition = visit[v].edition
      BY <1>1 DEF Carried
    <3>5. QED
      BY <3>2, <3>3, <3>4
  <2>2. visit' = [visit EXCEPT ![v] = w]
    BY <1>3 DEF Out
  <2> HIDE DEF w
  <2>3. Kept(w) /\ ~Carries(w)
    BY <1>1, <2>1 DEF Kept, UnderWay, Stands, Carries
  <2>4. QED
    BY <2>2, <2>3, PlainStep, TokensAreHeld
<1>4. QED
  BY <1>2, <1>3

LEMMA ArrivesKeeps ==
  ASSUME OfficeInv, VisitInv, GuardInv, NEW v \in Visits,
         NEW kind \in {"embed", "renew", "join"}, NEW key \in EmbedKeys \cup {Unset},
         NEW origin \in Senders, NEW token \in Token \cup {NoToken},
         NEW game \in TenantGames \cup {Unset}, NEW allowed,
         Arrives(v, kind, key, origin, token, game, allowed),
         IF kind = "join" THEN token \in Token /\ token \in Held ELSE key \in EmbedKeys,
         UNCHANGED <<tokens, minted, seen, spent, tenantsVars>>
  PROVE  VisitInv' /\ GuardInv'
<1> DEFINE w == [at |-> IF kind = "join" THEN "verify" ELSE "key",
                 kind |-> kind, key |-> key, origin |-> origin, token |-> token, game |-> game,
                 of |-> Unset, decided |-> now, edition |-> edition, why |-> ""]
<1>1. now \in Nat /\ edition \in Nat
  BY DEF OfficeInv, RowsOK
<1>2. w \in Carried
  BY <1>1 DEF Carried, Told
<1>3. UnderWay(w) /\ w.of = Unset
  BY <1>1 DEF UnderWay
<1>4. Carries(w) => w.token \in Held
  BY DEF Carries
<1>5. Kept(w)
  BY <1>2, <1>3 DEF Kept
<1>6. visit' = [visit EXCEPT ![v] = IF ~allowed THEN NoVisit ELSE w]
  BY DEF Arrives
<1> HIDE DEF w
<1>7. Kept(NoVisit) /\ ~Carries(NoVisit)
  BY DEF Kept, Carries, NoVisit
<1>8. CASE allowed
  <2>1. visit' = [visit EXCEPT ![v] = w]
    BY <1>6, <1>8
  <2>2. QED
    BY <1>4, <1>5, <2>1, PlainStep, TokensAreHeld
<1>9. CASE ~allowed
  <2>1. visit' = [visit EXCEPT ![v] = NoVisit]
    BY <1>6, <1>9
  <2>2. QED
    BY <1>7, <2>1, PlainStep, TokensAreHeld
<1>10. QED
  BY <1>8, <1>9

DoorInv == VisitInv /\ GuardInv /\ LimiterInv

LEMMA AskTokenKeeps ==
  ASSUME OfficeInv, DoorInv, NEW v \in Visits, NEW q \in Requests,
         AskToken(v, q.kind, q.ip, q.key, q.origin)
  PROVE  DoorInv'
<1>1. /\ q.kind \in {"embed", "renew"} /\ q.key \in EmbedKeys /\ q.origin \in Senders
      /\ q.ip \in Sockets
  BY DEF Requests
<1>2. VisitInv' /\ GuardInv'
  <2>1. Arrives(v, q.kind, q.key, q.origin, NoToken, Unset, Allowed("embed-ip", q.ip))
        /\ UNCHANGED <<tokens, minted, seen, spent, tenantsVars>>
    BY DEF AskToken
  <2>2. q.kind \in {"embed", "renew", "join"} /\ q.key \in EmbedKeys \cup {Unset} /\ q.kind # "join"
    BY <1>1
  <2>3. QED
    BY <1>1, <2>1, <2>2, ArrivesKeeps DEF DoorInv
<1>3. LimiterInv'
  <2>1. Consumes("embed-ip", q.ip) /\ now' = now
    BY DEF AskToken, tenantsVars
  <2>2. QED
    BY <1>1, <2>1, ConsumesKeeps DEF DoorInv
<1>4. QED
  BY <1>2, <1>3 DEF DoorInv

LEMMA JoinKeeps ==
  ASSUME OfficeInv, DoorInv, NEW v \in Visits, NEW q \in Joins, NEW token \in tokens,
         Join(v, q.ip, q.origin, token, q.game)
  PROVE  DoorInv'
<1>1. /\ q.origin \in Senders /\ q.ip \in Sockets /\ q.game \in TenantGames
      /\ token \in Token /\ token \in Held
  BY TokensAreHeld DEF Joins, DoorInv
<1>2. VisitInv' /\ GuardInv'
  <2>1. Arrives(v, "join", Unset, q.origin, token, q.game, Allowed("join-ip", q.ip))
        /\ UNCHANGED <<tokens, minted, seen, spent, tenantsVars>>
    BY DEF Join
  <2>2. token \in Token \cup {NoToken} /\ q.game \in TenantGames \cup {Unset}
        /\ Unset \in EmbedKeys \cup {Unset}
    BY <1>1
  <2>3. QED
    BY <1>1, <2>1, <2>2, ArrivesKeeps DEF DoorInv
<1>3. LimiterInv'
  <2>1. Consumes("join-ip", q.ip) /\ now' = now
    BY DEF Join, tenantsVars
  <2>2. QED
    BY <1>1, <2>1, ConsumesKeeps DEF DoorInv
<1>4. QED
  BY <1>2, <1>3 DEF DoorInv

LEMMA CheckKeyKeeps ==
  ASSUME OfficeInv, DoorInv, NEW v \in Visits, CheckKey(v)
  PROVE  DoorInv'
<1>0. visit[v].at = "key" /\ VisitInv
  BY DEF CheckKey, DoorInv
<1>1. /\ visit[v] \in Carried /\ UnderWay(visit[v]) /\ visit[v].key \in EmbedKeys
      /\ (visit[v].of # Unset /\ visit[v].edition = edition => Stands(visit[v]))
  BY <1>0, VisitShape DEF UnderWay
<1>2. UNCHANGED <<tokens, minted, seen, spent, tenantsVars>>
  BY DEF CheckKey
<1>3. VisitInv' /\ GuardInv'
  <2>1. CASE Out(v, "limited")
    <3>1. "limited" \in Told /\ "limited" # "tenant-not-active"
      BY DEF Told
    <3>2. QED
      BY <1>0, <1>2, <2>1, <3>1, OutKeeps DEF DoorInv
  <2>2. CASE Goes(v, "resolve")
    <3> DEFINE w == [visit[v] EXCEPT !.at = "resolve"]
    <3>1. visit' = [visit EXCEPT ![v] = w]
      BY <2>2 DEF Goes
    <3>2. w \in Carried /\ ~Carries(w)
      BY <1>1 DEF Carried, Carries
    <3>3. UnderWay(w)
      BY <1>0, <1>1 DEF UnderWay, Carried
    <3>4. w.of # Unset /\ w.edition = edition => Stands(w)
      BY <1>0, <1>1 DEF Stands, Carried, UnderWay
    <3> HIDE DEF w
    <3>5. QED
      BY <1>2, <3>1, <3>2, <3>3, <3>4, PlainStep, TokensAreHeld DEF DoorInv, Kept
  <2>3. QED
    BY <2>1, <2>2 DEF CheckKey
<1>4. LimiterInv'
  <2>1. TryConsume("embed-key", visit[v].key) /\ now' = now
    BY DEF CheckKey, tenantsVars
  <2>2. "embed-key" \in Limiters /\ visit[v].key \in Keys("embed-key")
    BY <1>1 DEF Limiters, Keys
  <2>3. QED
    BY <2>1, <2>2, TryConsumeKeeps DEF DoorInv
<1>5. QED
  BY <1>3, <1>4 DEF DoorInv

\* The seconds are rounded down when a token is signed, so it is dead before the
\* guard may forget it.
LEMMA SignedInTime ==
  ASSUME NEW at \in Nat
  PROVE  /\ Seconds(at) \in Nat /\ (Seconds(at) + TtlSeconds) * TicksPerSecond \in Nat
         /\ (Seconds(at) + TtlSeconds) * TicksPerSecond <= at + GuardTtl
<1>1. TicksPerSecond \in Nat \ {0} /\ TtlSeconds \in Nat
  BY DoorAssumption
<1>2. /\ at \div TicksPerSecond \in Nat
      /\ (at \div TicksPerSecond) * TicksPerSecond <= at
  BY <1>1
<1>3. (at \div TicksPerSecond + TtlSeconds) * TicksPerSecond
        = (at \div TicksPerSecond) * TicksPerSecond + TtlSeconds * TicksPerSecond
  BY <1>1, <1>2
<1>4. QED
  BY <1>1, <1>2, <1>3 DEF Seconds, GuardTtl

LEMMA DeadInTime ==
  ASSUME NEW at \in Nat, NEW exp \in Nat, exp * TicksPerSecond <= at
  PROVE  ~(exp > Seconds(at))
<1>1. TicksPerSecond \in Nat \ {0}
  BY DoorAssumption
<1>2. at < (at \div TicksPerSecond + 1) * TicksPerSecond /\ at \div TicksPerSecond \in Nat
  BY <1>1
<1>3. ASSUME NEW x \in Nat, NEW y \in Nat, NEW d \in Nat \ {0}, x * d <= at, at < (y + 1) * d
      PROVE  x <= y
  <2>1. x * d < (y + 1) * d
    BY <1>3
  <2>2. QED
    BY <2>1
<1>4. QED
  BY <1>1, <1>2, <1>3 DEF Seconds

LEMMA MintKeeps ==
  ASSUME GuardInv, NEW t \in DOMAIN tenants, OfficeInv, minted' = minted + 1,
         Held' \subseteq Held \cup {SignedFor(t)}, UNCHANGED <<seen, spent, tenants, now>>
  PROVE  GuardInv'
<1>1. now \in Nat /\ minted \in Nat /\ t \in TenantIds
      /\ tenants[t].entitledGames \in SUBSET TenantGames
  BY DEF OfficeInv, RowsOK, GuardInv, GuardShape, Row
<1>2. /\ SignedFor(t) \in Token /\ SignedFor(t).jti = minted + 1 /\ SignedFor(t).tenant = t
      /\ SignedFor(t).exp * TicksPerSecond <= now + GuardTtl
  <2>1. Seconds(now) + TtlSeconds \in Nat
        /\ (Seconds(now) + TtlSeconds) * TicksPerSecond <= now + GuardTtl
    BY <1>1, SignedInTime, DoorAssumption
  <2>2. QED
    BY <1>1, <2>1 DEF SignedFor, Token
<1>3. GuardShape' /\ OncePerToken'
  BY <1>1 DEF GuardInv, GuardShape, OncePerToken
<1>4. ASSUME NEW k \in Held' PROVE Issued(k)'
  <2>1. CASE k \in Held
    BY <1>1, <2>1 DEF GuardInv, Issued, GuardTtl
  <2>2. CASE k = SignedFor(t)
    <3>1. PICK s : s = SignedFor(t)
      OBVIOUS
    <3>2. s \in Token /\ s.jti \in 1 .. minted' /\ s.tenant \in DOMAIN tenants'
          /\ s.exp * TicksPerSecond <= now' + GuardTtl
      BY <1>1, <1>2, <3>1
    <3>3. k = s
      BY <2>2, <3>1
    <3>4. QED
      BY <3>2, <3>3 DEF Issued, GuardTtl
  <2>3. QED
    BY <2>1, <2>2
<1>5. ASSUME NEW i \in DOMAIN spent
      PROVE  spent[i].jti \in 1 .. minted'
             /\ \A k \in Held' : k.jti = spent[i].jti => ShutOut(k)'
  <2>1. spent[i].jti \in 1 .. minted /\ spent[i].jti # minted + 1
    BY <1>1 DEF GuardInv
  <2>2. \A k \in Held' : k.jti = spent[i].jti => k \in Held
    BY <1>2, <2>1
  <2>3. \A k \in Held' : k.jti = spent[i].jti => ShutOut(k)
    BY <2>2 DEF GuardInv
  <2>4. QED
    BY <1>1, <2>1, <2>3 DEF ShutOut
<1>6. QED
  BY <1>3, <1>4, <1>5 DEF GuardInv

LEMMA ResolveKeeps ==
  ASSUME OfficeInv, DoorInv, NEW v \in Visits, Resolve(v)
  PROVE  VisitInv' /\ GuardInv'
<1>0. visit[v].at = "resolve" /\ VisitInv /\ GuardInv /\ now \in Nat
  BY DEF Resolve, DoorInv, OfficeInv, RowsOK
<1>1. /\ visit[v] \in Carried /\ visit[v].why = "" /\ visit[v].edition <= edition
      /\ visit[v].kind \in {"embed", "renew"} /\ visit[v].key \in EmbedKeys
  BY <1>0, VisitShape DEF UnderWay
<1>2. UNCHANGED <<tokens, seen, spent, tenantsVars>>
  BY DEF Resolve
<1>3. CASE (Out(v, "tenant-lookup-failed") \/ Out(v, "unknown-tenant")) /\ UNCHANGED minted
  <2>1. "tenant-lookup-failed" \in Told /\ "unknown-tenant" \in Told
    BY DEF Told
  <2>2. QED
    BY <1>0, <1>2, <1>3, <2>1, OutKeeps
<1>4. ASSUME NEW t \in HoldersOf(visit[v].key),
             NEW why \in {"tenant-not-active", "origin-not-allowed"},
             visit' = [visit EXCEPT ![v] = [[visit[v] EXCEPT !.of = t, !.decided = now]
                         EXCEPT !.at = "out", !.why = why]],
             UNCHANGED minted, why = "tenant-not-active" => ~Active(tenants[t], now)
      PROVE  VisitInv' /\ GuardInv'
  <2> DEFINE w == [[visit[v] EXCEPT !.of = t, !.decided = now] EXCEPT !.at = "out", !.why = why]
  <2>1. t \in DOMAIN tenants /\ t \in TenantIds
    BY DEF HoldersOf, OfficeInv, RowsOK
  <2>2. w \in Carried
    BY <1>0, <1>1, <2>1 DEF Carried, Told
  <2>3. w.at = "out" /\ w.why = why /\ w.of = t /\ w.decided = now /\ w.edition = visit[v].edition
    BY <1>1 DEF Carried
  <2>4. visit' = [visit EXCEPT ![v] = w]
    BY <1>4
  <2> HIDE DEF w
  <2>5. Kept(w) /\ ~Carries(w)
    BY <1>1, <1>4, <2>1, <2>2, <2>3 DEF Kept, UnderWay, Stands, Carries
  <2>6. QED
    BY <1>0, <1>2, <1>4, <2>4, <2>5, PlainStep, TokensAreHeld
<1>5. ASSUME NEW t \in HoldersOf(visit[v].key), Active(tenants[t], now),
             visit[v].kind = "embed" => visit[v].origin \in tenants[t].allowedOrigins,
             visit' = [visit EXCEPT ![v] = [[visit[v] EXCEPT !.of = t, !.decided = now]
                         EXCEPT !.at = "sign", !.token = SignedFor(t)]],
             minted' = minted + 1
      PROVE  VisitInv' /\ GuardInv'
  <2> DEFINE w == [[visit[v] EXCEPT !.of = t, !.decided = now]
                     EXCEPT !.at = "sign", !.token = SignedFor(t)]
  <2>1. /\ t \in DOMAIN tenants /\ t \in TenantIds /\ minted \in Nat
        /\ tenants[t].entitledGames \in SUBSET TenantGames
    BY <1>0 DEF HoldersOf, OfficeInv, RowsOK, Row, GuardInv, GuardShape
  <2>2. SignedFor(t) \in Token
    <3>1. Seconds(now) + TtlSeconds \in Nat /\ minted + 1 \in Nat
      BY <1>0, <2>1, SignedInTime, DoorAssumption
    <3>2. QED
      BY <2>1, <3>1 DEF SignedFor, Token
  <2>3. w \in Carried
    BY <1>0, <1>1, <2>1, <2>2 DEF Carried
  <2>4. /\ w.at = "sign" /\ w.why = "" /\ w.of = t /\ w.decided = now /\ w.token = SignedFor(t)
        /\ w.edition = visit[v].edition /\ w.kind = visit[v].kind /\ w.key = visit[v].key
        /\ w.origin = visit[v].origin
    BY <1>1 DEF Carried
  <2>5. visit' = [visit EXCEPT ![v] = w] /\ UNCHANGED <<tenants, edition, now>>
    BY <1>2, <1>5 DEF tenantsVars
  <2> HIDE DEF w
  <2>6. Kept(w)
    <3>1. UnderWay(w)
      BY <1>1, <2>2, <2>4 DEF UnderWay
    <3>2. Stands(w)
      BY <1>1, <1>5, <2>1, <2>4 DEF Stands
    <3>3. QED
      BY <2>3, <3>1, <3>2 DEF Kept
  <2>7. VisitInv'
    BY <1>0, <2>5, <2>6, VisitMoves
  <2>8. Held' \subseteq Held \cup {SignedFor(t)}
    <3>1. \A u \in Visits : visit'[u] = IF u = v THEN w ELSE visit[u]
      BY <1>0, <2>5 DEF VisitInv
    <3>2. ASSUME NEW u \in Visits, Carries(visit'[u])
          PROVE  visit'[u].token \in Held \cup {SignedFor(t)}
      BY <2>4, <3>1, <3>2 DEF Held, Carries
    <3>3. QED
      BY <1>2, <3>2 DEF Held, Carries
  <2>9. GuardInv'
    BY <1>0, <1>2, <1>5, <2>1, <2>5, <2>8, MintKeeps
  <2>10. QED
    BY <2>7, <2>9
<1>6. QED
  <2>1. CASE \E t \in HoldersOf(visit[v].key) :
               LET row == tenants[t]
                   origins == IF visit[v].kind = "embed" THEN row.allowedOrigins ELSE WidgetOrigins
                   stands == [visit[v] EXCEPT !.of = t, !.decided = now] IN
               IF ~Active(row, now)
                 THEN /\ visit' = [visit EXCEPT ![v] =
                            [stands EXCEPT !.at = "out", !.why = "tenant-not-active"]]
                      /\ UNCHANGED minted
               ELSE IF visit[v].origin \notin origins
                 THEN /\ visit' = [visit EXCEPT ![v] =
                            [stands EXCEPT !.at = "out", !.why = "origin-not-allowed"]]
                      /\ UNCHANGED minted
               ELSE /\ visit' = [visit EXCEPT ![v] =
                            [stands EXCEPT !.at = "sign", !.token = SignedFor(t)]]
                    /\ minted' = minted + 1
    <3>1. PICK t \in HoldersOf(visit[v].key) :
            \/ /\ ~Active(tenants[t], now) /\ UNCHANGED minted
               /\ visit' = [visit EXCEPT ![v] = [[visit[v] EXCEPT !.of = t, !.decided = now]
                                EXCEPT !.at = "out", !.why = "tenant-not-active"]]
            \/ /\ UNCHANGED minted
               /\ visit' = [visit EXCEPT ![v] = [[visit[v] EXCEPT !.of = t, !.decided = now]
                                EXCEPT !.at = "out", !.why = "origin-not-allowed"]]
            \/ /\ Active(tenants[t], now) /\ minted' = minted + 1
               /\ visit[v].kind = "embed" => visit[v].origin \in tenants[t].allowedOrigins
               /\ visit' = [visit EXCEPT ![v] = [[visit[v] EXCEPT !.of = t, !.decided = now]
                                EXCEPT !.at = "sign", !.token = SignedFor(t)]]
      BY <2>1, Zenon
    <3>2. QED
      BY <3>1, <1>4, <1>5
  <2>2. QED
    BY <1>3, <2>1 DEF Resolve

LEMMA AnswerKeeps ==
  ASSUME OfficeInv, DoorInv, NEW v \in Visits, Answer(v)
  PROVE  VisitInv' /\ GuardInv'
<1>0. visit[v].at = "sign" /\ VisitInv /\ GuardInv
  BY DEF Answer, DoorInv
<1>1. /\ visit[v] \in Carried /\ UnderWay(visit[v]) /\ visit[v].token \in Held
      /\ visit[v].why = "" /\ visit[v].kind # "join"
      /\ (visit[v].of # Unset /\ visit[v].edition = edition => Stands(visit[v]))
  BY <1>0, VisitShape, TokensAreHeld DEF UnderWay, Carries
<1>2. UNCHANGED <<minted, seen, spent, tenantsVars>>
  BY DEF Answer
<1>3. CASE Goes(v, "in") /\ tokens' = tokens \cup {visit[v].token}
  <2> DEFINE w == [visit[v] EXCEPT !.at = "in"]
  <2>1. visit' = [visit EXCEPT ![v] = w]
    BY <1>3 DEF Goes
  <2>2. w \in Carried /\ ~Carries(w)
    BY <1>1 DEF Carried, Carries
  <2>3. UnderWay(w) /\ (w.of # Unset /\ w.edition = edition => Stands(w))
    BY <1>0, <1>1 DEF UnderWay, Stands, Carried
  <2> HIDE DEF w
  <2>4. Kept(w)
    BY <2>2, <2>3 DEF Kept
  <2>5. tokens' \subseteq Held
    BY <1>0, <1>1, <1>3, TokensAreHeld
  <2>6. QED
    BY <1>0, <1>2, <2>1, <2>2, <2>4, <2>5, PlainStep
<1>4. CASE Out(v, "failed") /\ UNCHANGED tokens
  <2>1. "failed" \in Told
    BY DEF Told
  <2>2. QED
    BY <1>0, <1>2, <1>4, <2>1, OutKeeps
<1>5. QED
  BY <1>3, <1>4 DEF Answer

LEMMA VerifyKeeps ==
  ASSUME OfficeInv, DoorInv, NEW v \in Visits, Verify(v)
  PROVE  VisitInv' /\ GuardInv'
<1>0. visit[v].at = "verify" /\ VisitInv /\ GuardInv
  BY DEF Verify, DoorInv
<1>1. /\ visit[v] \in Carried /\ UnderWay(visit[v]) /\ visit[v].token \in Held
      /\ (visit[v].of # Unset /\ visit[v].edition = edition => Stands(visit[v]))
  BY <1>0, VisitShape, TokensAreHeld DEF Carries
<1>2. UNCHANGED <<tokens, minted, seen, spent, tenantsVars>>
  BY DEF Verify
<1>3. CASE Goes(v, "tenant")
  <2> DEFINE w == [visit[v] EXCEPT !.at = "tenant"]
  <2>1. visit' = [visit EXCEPT ![v] = w]
    BY <1>3 DEF Goes
  <2>2. w \in Carried /\ w.token = visit[v].token
    BY <1>1 DEF Carried
  <2>3. UnderWay(w) /\ (w.of # Unset /\ w.edition = edition => Stands(w))
    BY <1>0, <1>1 DEF UnderWay, Stands, Carried
  <2> HIDE DEF w
  <2>4. Kept(w)
    BY <2>2, <2>3 DEF Kept
  <2>5. QED
    BY <1>0, <1>1, <1>2, <2>1, <2>2, <2>4, PlainStep, TokensAreHeld
<1>4. CASE Out(v, "token-expired") \/ Out(v, "origin-not-allowed")
  <2>1. "token-expired" \in Told /\ "origin-not-allowed" \in Told
    BY DEF Told
  <2>2. QED
    BY <1>0, <1>2, <1>4, <2>1, OutKeeps
<1>5. QED
  BY <1>3, <1>4 DEF Verify

LEMMA CheckTenantKeeps ==
  ASSUME OfficeInv, DoorInv, NEW v \in Visits, CheckTenant(v)
  PROVE  VisitInv' /\ GuardInv'
<1>0. visit[v].at = "tenant" /\ VisitInv /\ GuardInv /\ now \in Nat
  BY DEF CheckTenant, DoorInv, OfficeInv, RowsOK
<1>1. /\ visit[v] \in Carried /\ UnderWay(visit[v]) /\ visit[v].token \in Held
      /\ visit[v].kind = "join" /\ visit[v].token \in Token /\ visit[v].edition <= edition
  BY <1>0, VisitShape, TokensAreHeld DEF Carries, UnderWay
<1>2. UNCHANGED <<tokens, minted, seen, spent, tenantsVars>>
  BY DEF CheckTenant
<1> DEFINE t == visit[v].token.tenant
           why == IF t \notin DOMAIN tenants THEN "unknown-tenant"
                  ELSE IF ~Active(tenants[t], now) THEN "tenant-not-active"
                  ELSE IF ~Entitled(v, t) THEN "not-entitled" ELSE ""
           at == IF why = "" THEN "consume" ELSE "out"
           w == [visit[v] EXCEPT !.at = at, !.of = t, !.why = why, !.decided = now]
<1>3. CASE Out(v, "tenant-lookup-failed")
  <2>1. "tenant-lookup-failed" \in Told
    BY DEF Told
  <2>2. QED
    BY <1>0, <1>2, <1>3, <2>1, OutKeeps
<1>4. CASE visit' = [visit EXCEPT ![v] = w]
  <2>1. t \in DOMAIN tenants /\ t \in TenantIds
    BY <1>0, <1>1 DEF GuardInv, Issued, Token
  <2>2. why \in Told /\ at \in {"consume", "out"}
    BY DEF Told
  <2>3. w \in Carried
    <3> HIDE DEF t, why, at
    <3>1. QED
      BY <1>0, <1>1, <2>1, <2>2 DEF Carried
  <2>4. /\ w.at = at /\ w.of = t /\ w.why = why /\ w.decided = now /\ w.token = visit[v].token
        /\ w.edition = visit[v].edition /\ w.kind = "join" /\ w.game = visit[v].game
    <3> HIDE DEF t, why, at
    <3>1. QED
      BY <1>1 DEF Carried
  <2>5. /\ why = "tenant-not-active" => ~Active(tenants[t], now)
        /\ at = "consume" => why = "" /\ Active(tenants[t], now)
                             /\ visit[v].game \in tenants[t].entitledGames
        /\ at # "consume" => at = "out"
    BY <2>1 DEF Entitled
  <2> HIDE DEF t, why, at, w
  <2>6. UnderWay(w)
    BY <1>1, <2>2, <2>4, <2>5 DEF UnderWay
  <2>7. Stands(w)
    BY <2>1, <2>2, <2>4, <2>5 DEF Stands
  <2>8. Kept(w)
    BY <2>3, <2>6, <2>7 DEF Kept
  <2>9. QED
    BY <1>0, <1>1, <1>2, <1>4, <2>4, <2>8, PlainStep, TokensAreHeld
<1>5. \/ visit' = [visit EXCEPT ![v].at = at, ![v].of = t, ![v].why = why, ![v].decided = now]
      \/ Out(v, "tenant-lookup-failed")
  BY DEF CheckTenant
<1>6. [visit EXCEPT ![v].at = at, ![v].of = t, ![v].why = why, ![v].decided = now]
        = [visit EXCEPT ![v] = w]
  <2> HIDE DEF t, why, at
  <2>1. QED
    OBVIOUS
<1>7. QED
  BY <1>3, <1>4, <1>5, <1>6

LEMMA ConsumeKeeps ==
  ASSUME OfficeInv, DoorInv, NEW v \in Visits, Consume(v)
  PROVE  VisitInv' /\ GuardInv'
<1>0. /\ visit[v].at = "consume" /\ VisitInv /\ GuardInv /\ now \in Nat
      /\ UNCHANGED <<tenants, edition, now>>
  BY DEF Consume, DoorInv, OfficeInv, RowsOK, tenantsVars
<1>1. /\ visit[v] \in Carried /\ UnderWay(visit[v]) /\ visit[v].token \in Held
      /\ visit[v].kind = "join" /\ visit[v].token \in Token /\ visit[v].why = ""
      /\ (visit[v].of # Unset /\ visit[v].edition = edition => Stands(visit[v]))
  BY <1>0, VisitShape, TokensAreHeld DEF Carries, UnderWay
<1>2. UNCHANGED <<tokens, minted, tenantsVars>>
  BY DEF Consume
<1> DEFINE k == visit[v].token
<1>3. CASE ~Fresh(k.jti)
  <2>1. Out(v, "already-used") /\ UNCHANGED <<seen, spent>>
    BY <1>3 DEF Consume
  <2>2. "already-used" \in Told
    BY DEF Told
  <2>3. QED
    BY <1>0, <1>2, <2>1, <2>2, OutKeeps
<1>4. CASE Fresh(k.jti)
  <2> DEFINE w == [visit[v] EXCEPT !.at = "in"]
             e == [jti |-> k.jti, alive |-> Alive(k)]
  <2>1. /\ visit' = [visit EXCEPT ![v] = w] /\ spent' = Append(spent, e)
        /\ seen' = With(SweptGuard, k.jti, now + GuardTtl)
    BY <1>4 DEF Consume, Goes, Remember
  <2>2. w \in Carried /\ ~Carries(w)
    BY <1>1 DEF Carried, Carries
  <2>3. UnderWay(w) /\ (w.of # Unset /\ w.edition = edition => Stands(w))
    BY <1>0, <1>1 DEF UnderWay, Stands, Carried
  <2> HIDE DEF w
  <2>4. VisitInv' /\ Held' \subseteq Held
    <3>1. Kept(w)
      BY <2>2, <2>3 DEF Kept
    <3>2. QED
      BY <1>0, <1>2, <2>1, <2>2, <3>1, VisitMoves, HeldMoves, TokensAreHeld
  <2>5. /\ minted \in Nat /\ spent \in Seq([jti : Nat, alive : BOOLEAN]) /\ GuardTtl \in Nat
        /\ DOMAIN seen \subseteq 1 .. minted /\ \A j \in DOMAIN seen : seen[j] \in Nat
        /\ k \in Held /\ k.jti \in 1 .. minted /\ k.exp \in Nat /\ TicksPerSecond \in Nat
    <3>1. Issued(k) /\ GuardShape /\ k \in Held
      BY <1>0, <1>1 DEF GuardInv
    <3>2. TicksPerSecond \in Nat /\ TtlSeconds \in Nat /\ TtlSeconds * TicksPerSecond \in Nat
      BY DoorAssumption
    <3>3. k.jti \in 1 .. minted /\ k.exp \in Nat
      BY <3>1 DEF Issued, Token
    <3>4. QED
      BY <3>1, <3>2, <3>3 DEF GuardShape, GuardTtl
  <2>6. /\ DOMAIN SweptGuard \subseteq DOMAIN seen /\ \A j \in DOMAIN SweptGuard : SweptGuard[j] = seen[j]
        /\ \A j \in DOMAIN seen : j \in DOMAIN SweptGuard \/ seen[j] <= now
    BY <1>0, <2>5 DEF SweptGuard, Only
  <2>7. /\ DOMAIN seen' = DOMAIN SweptGuard \cup {k.jti}
        /\ \A j \in DOMAIN seen' : seen'[j] = IF j = k.jti THEN now + GuardTtl ELSE seen[j]
    BY <2>1, <2>6 DEF With
  <2>8. e \in [jti : Nat, alive : BOOLEAN] /\ e.jti = k.jti
    BY <2>5 DEF Alive
  <2>9. GuardShape'
    <3>1. DOMAIN seen' \subseteq 1 .. minted' /\ \A j \in DOMAIN seen' : seen'[j] \in Nat
      BY <1>0, <1>2, <2>5, <2>6, <2>7
    <3>2. QED
      BY <1>2, <2>1, <2>5, <2>8, <3>1 DEF GuardShape
  <2>10. \A t \in Held' : t \in Held /\ Issued(t) /\ t.exp * TicksPerSecond \in Nat
    <3>1. \A t \in Held' : t \in Held /\ Issued(t) /\ t.exp \in Nat
      BY <1>0, <2>4 DEF GuardInv, Issued, Token
    <3>2. QED
      BY <2>5, <3>1
  <2>11. \A t \in Held' : Issued(t)'
    BY <1>0, <1>2, <2>10 DEF Issued, GuardTtl
  <2>12. ASSUME NEW t \in Held', t.jti = k.jti \/ ShutOut(t) PROVE ShutOut(t)'
    <3>1. CASE t.jti = k.jti
      <4>1. seen'[t.jti] = now + GuardTtl /\ t.jti \in DOMAIN seen'
        BY <2>7, <3>1
      <4>2. t.exp * TicksPerSecond <= now + GuardTtl
        BY <2>10 DEF Issued
      <4>3. QED
        BY <4>1, <4>2 DEF ShutOut
    <3>2. CASE t.jti # k.jti
      <4>1. CASE t.exp * TicksPerSecond <= now
        BY <1>0, <4>1 DEF ShutOut
      <4>2. CASE t.jti \in DOMAIN seen /\ t.exp * TicksPerSecond <= seen[t.jti]
        <5>1. CASE t.jti \in DOMAIN SweptGuard
          BY <2>7, <3>2, <4>2, <5>1 DEF ShutOut
        <5>2. CASE t.jti \notin DOMAIN SweptGuard
          BY <1>0, <2>5, <2>6, <2>10, <4>2, <5>2 DEF ShutOut
        <5>3. QED
          BY <5>1, <5>2
      <4>3. QED
        BY <2>12, <3>2, <4>1, <4>2 DEF ShutOut
    <3>3. QED
      BY <3>1, <3>2
  <2>13. /\ Len(spent) \in Nat /\ DOMAIN spent = 1 .. Len(spent)
         /\ DOMAIN spent' = 1 .. Len(spent) + 1 /\ spent'[Len(spent) + 1] = e
         /\ \A i \in 1 .. Len(spent) : spent'[i] = spent[i]
    BY <2>1, <2>5, <2>8
  <2>14. ASSUME NEW i \in DOMAIN spent'
         PROVE  spent'[i].jti \in 1 .. minted'
                /\ \A t \in Held' : t.jti = spent'[i].jti => ShutOut(t)'
    <3>1. CASE i = Len(spent) + 1
      BY <1>2, <2>5, <2>8, <2>12, <2>13, <3>1
    <3>2. CASE i # Len(spent) + 1
      <4>1. i \in DOMAIN spent /\ spent'[i] = spent[i]
        BY <2>13, <3>2
      <4>2. QED
        BY <1>0, <1>2, <2>4, <2>12, <4>1 DEF GuardInv
    <3>3. QED
      BY <3>1, <3>2
  <2>15. OncePerToken'
    <3>1. ASSUME NEW i \in DOMAIN spent, spent[i].jti = k.jti PROVE ~Alive(k)
      <4>1. ShutOut(k)
        BY <1>0, <2>5, <3>1 DEF GuardInv
      <4>2. k.exp * TicksPerSecond <= now
        <5>1. k.jti \in DOMAIN seen => seen[k.jti] <= now
          BY <1>4 DEF Fresh
        <5>2. k.exp * TicksPerSecond \in Nat
          BY <2>5
        <5>3. CASE k.jti \in DOMAIN seen /\ k.exp * TicksPerSecond <= seen[k.jti]
          <6>1. seen[k.jti] \in Nat /\ seen[k.jti] <= now
            BY <2>5, <5>1, <5>3
          <6>2. QED
            BY <1>0, <5>2, <5>3, <6>1
        <5>4. QED
          BY <4>1, <5>3 DEF ShutOut
      <4>3. QED
        BY <1>0, <2>5, <4>2, DeadInTime DEF Alive
    <3>2. ASSUME NEW i \in DOMAIN spent', NEW j \in DOMAIN spent', spent'[i].jti = spent'[j].jti,
                 spent'[j].alive
          PROVE  i >= j
      <4>1. CASE j \in 1 .. Len(spent) /\ i \in 1 .. Len(spent)
        <5>1. OncePerToken
          BY <1>0 DEF GuardInv
        <5>2. QED
          BY <2>13, <3>2, <4>1, <5>1 DEF OncePerToken
      <4>2. CASE i = Len(spent) + 1
        BY <2>13, <4>2
      <4>3. CASE j = Len(spent) + 1 /\ i \in 1 .. Len(spent)
        <5>1. spent[i].jti = k.jti /\ Alive(k)
          BY <2>8, <2>13, <3>2, <4>3
        <5>2. QED
          BY <2>13, <3>1, <4>3, <5>1
      <4>4. QED
        BY <2>13, <4>1, <4>2, <4>3
    <3>3. QED
      BY <3>2 DEF OncePerToken
  <2>16. QED
    BY <2>4, <2>9, <2>11, <2>14, <2>15 DEF GuardInv
<1>5. QED
  BY <1>3, <1>4

LEMMA DoorWaits ==
  ASSUME OfficeInv, DoorInv, UNCHANGED doorVars, now' \in {now, now + 1},
         UNCHANGED <<tenants, edition>> \/ edition' = edition + 1,
         DOMAIN tenants \subseteq DOMAIN tenants'
  PROVE  DoorInv' /\ redis' = redis
<1>1. /\ UNCHANGED <<redis, buckets, seen, tokens, visit, minted, passed, spent>>
      /\ now \in Nat /\ now' \in Nat /\ now <= now' /\ edition \in Nat
  BY DEF doorVars, OfficeInv, RowsOK
<1>2. VisitInv'
  BY <1>1, VisitsWait DEF DoorInv
<1>3. Held' \subseteq Held
  BY <1>1 DEF Held, Carries
<1>4. GuardInv'
  BY <1>1, <1>3, GuardWaits DEF DoorInv
<1>5. LimiterInv'
  BY <1>1, LimitersWait DEF DoorInv
<1>6. QED
  BY <1>1, <1>2, <1>4, <1>5 DEF DoorInv

LEMMA DoorKeeps ==
  ASSUME OfficeInv, DoorInv, scene \in Scenes, DoorNext(RequestsIn(scene), JoinsIn(scene))
  PROVE  DoorInv' /\ UNCHANGED <<tenants, edition, now, horizon, redis>>
<1>1. RequestsIn(scene) \subseteq Requests /\ JoinsIn(scene) \subseteq Joins
  BY PlatformAssumption
<1>2. PICK v \in Visits :
        \/ \E q \in RequestsIn(scene) : AskToken(v, q.kind, q.ip, q.key, q.origin)
        \/ \E q \in JoinsIn(scene), token \in tokens : Join(v, q.ip, q.origin, token, q.game)
        \/ CheckKey(v) \/ Resolve(v) \/ Answer(v) \/ Verify(v) \/ CheckTenant(v) \/ Consume(v)
  BY DEF DoorNext
<1>3. CASE \E q \in RequestsIn(scene) : AskToken(v, q.kind, q.ip, q.key, q.origin)
  BY <1>1, <1>3, AskTokenKeeps DEF AskToken, tenantsVars
<1>4. CASE \E q \in JoinsIn(scene), token \in tokens : Join(v, q.ip, q.origin, token, q.game)
  BY <1>1, <1>4, JoinKeeps DEF Join, tenantsVars
<1>5. CASE CheckKey(v)
  BY <1>5, CheckKeyKeeps DEF CheckKey, tenantsVars
<1>6. CASE Resolve(v) \/ Answer(v) \/ Verify(v) \/ CheckTenant(v) \/ Consume(v)
  <2>1. UNCHANGED <<buckets, passed, tenants, edition, now, horizon, redis>>
    BY <1>6 DEF Resolve, Answer, Verify, CheckTenant, Consume, tenantsVars
  <2>2. VisitInv' /\ GuardInv'
    BY <1>6, ResolveKeeps, AnswerKeeps, VerifyKeeps, CheckTenantKeeps, ConsumeKeeps
  <2>3. LimiterInv'
    BY <2>1, LimitersWait DEF DoorInv
  <2>4. QED
    BY <2>1, <2>2, <2>3 DEF DoorInv
<1>7. QED
  BY <1>2, <1>3, <1>4, <1>5, <1>6

\* What a step of the panel does to the door: nothing, or a new edition.
LEMMA PanelSaves ==
  ASSUME OfficeInv, OfficeNext(AsksIn(scene))
  PROVE  /\ UNCHANGED <<tenants, edition>> \/ edition' = edition + 1
         /\ DOMAIN tenants \subseteq DOMAIN tenants' /\ UNCHANGED <<now, horizon>>
<1>1. PICK c \in Saves :
        \/ \E q \in AsksIn(scene) : Ask(c, q.kind, q.id, q.value)
        \/ Look(c) \/ Mutate(c) \/ Witness(c) \/ Commit(c) \/ FailSave(c)
  BY DEF OfficeNext
<1>2. CASE Commit(c)
  BY <1>2 DEF Commit, WithRow
<1>3. CASE ~Commit(c)
  <2>1. UNCHANGED tenantsVars
    BY <1>1, <1>3 DEF Ask, Look, Mutate, Witness, FailSave
  <2>2. QED
    BY <2>1 DEF tenantsVars
<1>4. QED
  BY <1>2, <1>3

-----------------------------------------------------------------------------
(* The platform. *)

PlatformInv == scene \in Scenes /\ redis \in BOOLEAN /\ OfficeInv /\ DoorInv /\ SchemaIInv

LEMMA PlatformBegins == PlatformInit => PlatformInv
<1> SUFFICES ASSUME PlatformInit PROVE PlatformInv
  OBVIOUS
<1>1. /\ scene \in Scenes /\ horizon = Bounds(scene).time /\ redis \in BOOLEAN
      /\ tenants \in TenantsAtFirst(scene) /\ edition = 0 /\ now = 0
      /\ OfficeInit /\ DoorInit /\ MigrationsInit
  BY PlatformAssumption DEF PlatformInit
<1>2. OfficeInv
  <2>1. RowsOK
    <3>1. /\ Bounds(scene).time \in Nat /\ DOMAIN tenants \subseteq TenantIds
          /\ \A t \in DOMAIN tenants : tenants[t] \in Row /\ EndsWithDay(tenants[t])
      BY <1>1, PlatformAssumption
    <3>2. QED
      BY <1>1, <3>1 DEF RowsOK
  <2>2. SaveShape /\ Drafts /\ OneSavePerTenant
    BY <1>1 DEF OfficeInit, SaveShape, Drafts, OneSavePerTenant, Open, NoSave
  <2>3. AuditShape /\ Testimony /\ AuditTellsTheState
    BY <1>1 DEF OfficeInit, AuditShape, Testimony, AuditTellsTheState, NoSave
  <2>4. QED
    BY <2>1, <2>2, <2>3 DEF OfficeInv
<1>3. VisitInv
  BY <1>1 DEF DoorInit, VisitInv, Kept
<1>4. GuardInv
  <2>1. Held = {} /\ minted = 0 /\ seen = <<>> /\ spent = <<>>
    BY <1>1 DEF DoorInit, Held, Carries, NoVisit
  <2>2. QED
    BY <2>1 DEF GuardInv, GuardShape, OncePerToken
<1>5. LimiterInv
  <2>1. /\ buckets = [l \in Limiters |-> <<>>] /\ passed = [l \in Limiters |-> [k \in Keys(l) |-> <<>>]]
    BY <1>1 DEF DoorInit
  <2>2. LimiterShape
    BY <2>1 DEF LimiterShape
  <2>3. ASSUME NEW l \in Limiters, NEW k \in Keys(l)
        PROVE  Tracked(passed[l][k], InWindow(l, k), buckets[l][k], now)
    <3>1. passed[l][k] = <<>> /\ ~InWindow(l, k)
      BY <2>1 DEF InWindow
    <3>2. Rising(<<>>, now) /\ Sparse(<<>>)
      BY DEF Rising, Sparse
    <3>3. QED
      BY <3>1, <3>2 DEF Tracked
  <2>4. QED
    BY <1>1, <2>2, <2>3 DEF LimiterInv
<1>6. QED
  BY <1>1, <1>2, <1>3, <1>4, <1>5, SchemaInitInv DEF PlatformInv, DoorInv

LEMMA PlatformKeeps == PlatformInv /\ [PlatformNext]_platformVars => PlatformInv'
<1> SUFFICES ASSUME PlatformInv, [PlatformNext]_platformVars PROVE PlatformInv'
  OBVIOUS
<1>0. OfficeInv /\ DoorInv /\ SchemaIInv /\ scene \in Scenes /\ redis \in BOOLEAN
      /\ now \in Nat /\ horizon \in Nat /\ now <= horizon
  BY DEF PlatformInv, OfficeInv, RowsOK
<1>1. ASSUME UNCHANGED <<scene, officeVars, doorVars, migrationVars, tenants, edition, horizon>>,
             now' \in {now, now + 1}, now' <= horizon
      PROVE  PlatformInv'
  <2>1. OfficeInv'
    BY <1>0, <1>1, OfficeWaits
  <2>2. DoorInv' /\ redis' = redis
    BY <1>0, <1>1, DoorWaits
  <2>3. SchemaIInv'
    BY <1>0, <1>1, SchemaStepInv
  <2>4. QED
    BY <1>0, <1>1, <2>1, <2>2, <2>3 DEF PlatformInv
<1>2. CASE Clock
  <2>1. /\ now' = now + 1 /\ now < horizon
        /\ UNCHANGED <<scene, officeVars, doorVars, migrationVars, tenants, edition, horizon>>
    BY <1>2 DEF Clock, Tick
  <2>2. now' <= horizon
    BY <1>0, <2>1
  <2>3. QED
    BY <1>1, <2>1, <2>2
<1>3. CASE PanelStep
  <2>1. OfficeNext(AsksIn(scene)) /\ UNCHANGED <<scene, doorVars, migrationVars>>
    BY <1>3 DEF PanelStep
  <2>2. OfficeInv'
    BY <1>0, <2>1, OfficeKeeps
  <2>3. DoorInv' /\ redis' = redis
    BY <1>0, <2>1, PanelSaves, DoorWaits
  <2>4. SchemaIInv'
    BY <1>0, <2>1, SchemaStepInv
  <2>5. QED
    BY <1>0, <2>1, <2>2, <2>3, <2>4 DEF PlatformInv
<1>4. CASE DoorStep
  <2>1. DoorNext(RequestsIn(scene), JoinsIn(scene)) /\ UNCHANGED <<scene, officeVars, migrationVars>>
    BY <1>4 DEF DoorStep
  <2>2. DoorInv' /\ UNCHANGED <<tenants, edition, now, horizon, redis>>
    BY <1>0, <2>1, DoorKeeps
  <2>3. OfficeInv'
    BY <1>0, <2>1, <2>2, OfficeWaits
  <2>4. SchemaIInv'
    BY <1>0, <2>1, SchemaStepInv
  <2>5. QED
    BY <1>0, <2>1, <2>2, <2>3, <2>4 DEF PlatformInv
<1>5. CASE SchemaStep
  <2>1. /\ MigrationsNext /\ UNCHANGED <<scene, officeVars, doorVars, tenants, edition, now, horizon>>
    BY <1>5 DEF SchemaStep, tenantsVars
  <2>2. OfficeInv' /\ DoorInv' /\ redis' = redis
    BY <1>0, <2>1, OfficeWaits, DoorWaits
  <2>3. SchemaIInv'
    BY <1>0, <2>1, SchemaStepInv
  <2>4. QED
    BY <1>0, <2>1, <2>2, <2>3 DEF PlatformInv
<1>6. CASE UNCHANGED platformVars
  BY <1>0, <1>1, <1>6 DEF platformVars, tenantsVars
<1>7. QED
  BY <1>2, <1>3, <1>4, <1>5, <1>6 DEF PlatformNext

\* Saves, visits, tokens, limiters and the schema keep their shape; nobody holds a
\* token that was not given out, and the guard remembers no other.
THEOREM PlatformWellTyped == PlatformSpec => []PlatformTypeOK
<1>1. PlatformInv => PlatformTypeOK
  <2> SUFFICES ASSUME PlatformInv PROVE PlatformTypeOK
    OBVIOUS
  <2>1. TenantsTypeOK
    BY DEF PlatformInv, OfficeInv, RowsOK, TenantsTypeOK
  <2>2. OfficeTypeOK
    BY DEF PlatformInv, OfficeInv, SaveShape, WellFormed, Drafts, Draft, AuditShape, OfficeTypeOK, Open
  <2>3. DoorTypeOK
    <3>1. \A l \in Limiters : /\ DOMAIN buckets[l] \subseteq Keys(l)
                              /\ \A k \in DOMAIN buckets[l] : buckets[l][k] \in Bucket
      BY DEF PlatformInv, DoorInv, LimiterInv, LimiterShape
    <3>2. /\ DOMAIN seen \subseteq 1 .. minted /\ minted \in Nat
          /\ \A t \in tokens : t \in Token /\ t.jti \in 1 .. minted
      BY TokensAreHeld DEF PlatformInv, DoorInv, GuardInv, GuardShape, Issued
    <3>3. \A v \in Visits :
            visit[v].at \in {"idle", "key", "resolve", "sign", "verify", "tenant", "consume", "in", "out"}
      BY DEF PlatformInv, DoorInv, VisitInv, Kept, NoVisit, Carried
    <3>4. QED
      BY <3>1, <3>2, <3>3 DEF PlatformInv, DoorTypeOK
  <2>4. QED
    BY <2>1, <2>2, <2>3 DEF PlatformInv, SchemaIInv, PlatformTypeOK
<1>2. QED
  BY <1>1, PlatformBegins, PlatformKeeps, PTL DEF PlatformSpec

\* Whatever saves of the operators interleave and wherever one fails, the newest entry
\* of the audit log is what the column holds.
THEOREM AuditIsTrue == PlatformSpec => []AuditTellsTheState
<1>1. PlatformInv => AuditTellsTheState
  BY DEF PlatformInv, OfficeInv
<1>2. QED
  BY <1>1, PlatformBegins, PlatformKeeps, PTL DEF PlatformSpec

\* Whoever is let in or turned away at the door is so by the tenant as last saved,
\* on the days that the panel shows as paid for.
THEOREM DoorAndPanelAgree == PlatformSpec => []DoorAgreesWithThePanel
<1>1. PlatformInv => DoorAgreesWithThePanel
  BY DoorAgrees DEF PlatformInv, DoorInv
<1>2. QED
  BY <1>1, PlatformBegins, PlatformKeeps, PTL DEF PlatformSpec

\* No stretch as long as a window lets twice the limit through, whatever the store,
\* the limit, the window and the size of the table.
THEOREM LimitersHold == PlatformSpec => []LessThanTwiceTheLimit
<1>1. PlatformInv => LessThanTwiceTheLimit
  BY LimitersLimit DEF PlatformInv, DoorInv
<1>2. QED
  BY <1>1, PlatformBegins, PlatformKeeps, PTL DEF PlatformSpec

\* A token that lives opens no second seat, however many joins present it and whatever
\* the guard has forgotten.
THEOREM TokensOpenOnce == PlatformSpec => []OncePerToken
<1>1. PlatformInv => OncePerToken
  BY DEF PlatformInv, DoorInv, GuardInv
<1>2. QED
  BY <1>1, PlatformBegins, PlatformKeeps, PTL DEF PlatformSpec

\* The schema goes on growing in order beside all this.
THEOREM SchemaStaysInOrder == PlatformSpec => []SchemaGrowsInOrder
<1>1. PlatformInv => SchemaGrowsInOrder
  BY SchemaInvOrders DEF PlatformInv
<1>2. QED
  BY <1>1, PlatformBegins, PlatformKeeps, PTL DEF PlatformSpec
=============================================================================
