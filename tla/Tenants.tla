-------------------------------- MODULE Tenants --------------------------------
(***************************************************************************)
(* The tenants table, the clock its paid window is compared with, and the  *)
(* calendar the panel shows that window in                                 *)
(* (packages/platform-core/src/tenant-auth.ts, tenant-validity.ts).        *)
(*                                                                         *)
(* Time is counted in ticks; a second and a day are some ticks long.       *)
(***************************************************************************)
EXTENDS Integers

CONSTANTS
  TenantIds, EmbedKeys, PageOrigins, TenantGames,
  Themes,        \* what an operator may send as a theme
  LegibleThemes, \* those validateThemeContrast lets through
  NoTheme, Unset,
  Days,          \* calendar days an operator may type
  TicksPerDay,
  BehindUtc      \* how far the wall clocks of Buenos Aires are behind UTC

ASSUME TenantsAssumption ==
  /\ LegibleThemes \subseteq Themes /\ NoTheme \notin Themes
  /\ Days \subseteq Nat /\ Unset \notin Int
  /\ TicksPerDay \in Nat \ {0} /\ BehindUtc \in 0 .. TicksPerDay

VARIABLES
  tenants,   \* the committed rows, by id
  edition,   \* for the properties: saves committed so far
  now,       \* Date.now()
  horizon    \* bound: where the clock stops

tenantsVars == <<tenants, edition, now, horizon>>

Row == [embedKey : EmbedKeys, allowedOrigins : SUBSET PageOrigins,
        entitledGames : SUBSET TenantGames, theme : LegibleThemes \cup {NoTheme},
        validFrom : Int \cup {Unset}, validUntil : Int \cup {Unset}]

TenantsTypeOK ==
  /\ DOMAIN tenants \subseteq TenantIds
  /\ \A t \in DOMAIN tenants : tenants[t] \in Row
  /\ now \in 0 .. horizon /\ edition \in Nat

\* A write that keeps the other rows.
WithRow(t, row) == [u \in DOMAIN tenants \cup {t} |-> IF u = t THEN row ELSE tenants[u]]

Tick == now < horizon /\ now' = now + 1 /\ UNCHANGED <<tenants, edition, horizon>>

-----------------------------------------------------------------------------
(* The window. *)

Active(row, at) ==
  /\ row.validUntil # Unset /\ at < row.validUntil
  /\ row.validFrom # Unset => row.validFrom <= at

WindowOrdered(from, until) == from = Unset \/ from < until

ReadZoned(at) == at - BehindUtc
\* the offset is the one the zone has at the same reading taken as UTC
ZonedToInstant(wall) == wall - (ReadZoned(wall) - wall)
DayOf(at) == ReadZoned(at) \div TicksPerDay

\* "Paid through" a day runs to the first instant of the next one.
PaidThroughToInstant(day) == ZonedToInstant((day + 1) * TicksPerDay)
InstantToPaidThrough(until) == DayOf(until - 1)

\* What the panel says of a tenant.
Status(row, at) ==
  IF row.validUntil = Unset THEN "no-window"
  ELSE IF at >= row.validUntil THEN "expired"
  ELSE IF row.validFrom # Unset /\ at < row.validFrom THEN "not-yet-active"
  ELSE "active"

SanitizeTheme(theme) == IF theme \in LegibleThemes THEN theme ELSE NoTheme
=============================================================================
