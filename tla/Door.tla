--------------------------------- MODULE Door ---------------------------------
(***************************************************************************)
(* What stands between a visitor and a match: the mint server's limiters   *)
(* and token endpoints (packages/widget-frontdoor), the tokens, and the    *)
(* checks of a join (match-room.ts, onAuth) with its replay guard.         *)
(*                                                                         *)
(* A handler is followed from one await to the next; saves of the admin    *)
(* panel and other visits go on in between.  With Redis configured the     *)
(* limiters and the guard live there, without it in the process.           *)
(***************************************************************************)
EXTENDS Tenants, FiniteSets, Sequences

CONSTANTS
  Visits,          \* requests and joins in flight at once, by number
  Addresses, NoAddress,
  WidgetOrigins,   \* allowedWidgetOrigins
  Limit, Window,   \* of a rate limiter: how many, in how many ticks
  TtlSeconds, TicksPerSecond,
  MaxTrackedKeys   \* of a limiter and of a guard kept in the process

ASSUME DoorAssumption ==
  /\ Limit \in Nat \ {0} /\ Window \in Nat \ {0} /\ MaxTrackedKeys \in Nat \ {0}
  /\ TtlSeconds \in Nat \ {0} /\ TicksPerSecond \in Nat \ {0}
  /\ NoAddress \notin Addresses /\ Visits \subseteq Nat

VARIABLES
  redis,       \* is Redis configured?
  buckets,     \* by limiter: the windows tracked, by key
  seen,        \* the replay guard: until when it refuses a token
  tokens,      \* tokens visitors hold
  visit,       \* where each request stands
  minted,      \* ids of tokens given out so far
  passed,      \* for the properties: what the limiters let through, and when
  spent,       \* for the properties: the tokens accepted, and when
  visitsLeft   \* bound: visits still to be made

doorVars == <<redis, buckets, seen, tokens, visit, minted, passed, spent, visitsLeft>>

Limiters == {"embed-ip", "embed-key", "join-ip"}
Keys(l)  == IF l = "embed-key" THEN EmbedKeys ELSE Addresses
Bucket   == [count : Nat, start : Nat]
Token    == [tenant : TenantIds, jti : Nat, exp : Nat, entitlements : SUBSET TenantGames]
NoToken  == [jti |-> 0]
NoVisit  == [at |-> "idle"]

DoorTypeOK ==
  /\ redis \in BOOLEAN
  /\ \A l \in Limiters : /\ DOMAIN buckets[l] \subseteq Keys(l)
                         /\ \A k \in DOMAIN buckets[l] : buckets[l][k] \in Bucket
  /\ DOMAIN seen \subseteq 1 .. minted
  /\ \A t \in tokens : t \in Token /\ t.jti <= minted
  /\ \A v \in Visits :
       visit[v].at \in {"idle", "key", "resolve", "sign", "verify", "tenant", "consume", "in", "out"}

DoorInit ==
  /\ redis \in BOOLEAN
  /\ buckets = [l \in Limiters |-> <<>>]
  /\ seen = <<>> /\ tokens = {} /\ minted = 0
  /\ visit = [v \in Visits |-> NoVisit]
  /\ passed = [l \in Limiters |-> [k \in Keys(l) |-> <<>>]] /\ spent = <<>>

With(f, k, x) == [j \in DOMAIN f \cup {k} |-> IF j = k THEN x ELSE f[j]]
Only(f, S)    == [j \in S |-> f[j]]

-----------------------------------------------------------------------------
(* Rate limiters: a fixed window that starts with the key's first hit. *)

InWindow(l, k) == k \in DOMAIN buckets[l] /\ now - buckets[l][k].start < Window

\* Seeded fault: one more than the limit.
LaxHasBudget(l, k) == InWindow(l, k) => buckets[l][k].count <= Limit
HasBudget(l, k) == InWindow(l, k) => buckets[l][k].count < Limit

\* sweepExpired, when a new key finds the table full
Swept(l) == IF Cardinality(DOMAIN buckets[l]) < MaxTrackedKeys THEN buckets[l]
            ELSE Only(buckets[l], { k \in DOMAIN buckets[l] : InWindow(l, k) })

FirstHit == [count |-> 1, start |-> now]
OneMore(windows, k) == [windows EXCEPT ![k].count = @ + 1]

CountInProcess(l, k) ==
  buckets' = [buckets EXCEPT ![l] =
    IF ~InWindow(l, k) THEN With(Swept(l), k, FirstHit)
    ELSE IF HasBudget(l, k) THEN OneMore(@, k)
    ELSE @]

\* A key whose time is up is gone, and INCR counts refused hits as well.
CountInRedis(l, k) ==
  buckets' = [buckets EXCEPT ![l] =
    IF InWindow(l, k) THEN OneMore(@, k) ELSE With(@, k, FirstHit)]

TryConsume(l, k) ==
  /\ IF redis THEN CountInRedis(l, k) ELSE CountInProcess(l, k)
  /\ passed' = IF HasBudget(l, k) THEN [passed EXCEPT ![l][k] = Append(@, now)] ELSE passed

-----------------------------------------------------------------------------
(* Tokens. *)

Seconds(at) == at \div TicksPerSecond
Alive(token) == token.exp > Seconds(now)

SignedFor(t) ==
  [tenant |-> t, jti |-> minted + 1, exp |-> Seconds(now) + TtlSeconds,
   entitlements |-> tenants[t].entitledGames]

\* The guard.  It forgets a token when its time is up.
Fresh(jti) == jti \in DOMAIN seen => seen[jti] <= now

\* Seeded fault: the token's lifetime, in the guard's units but not converted to them.
HeldForSeconds == TtlSeconds
GuardTtl == TtlSeconds * TicksPerSecond

SweptGuard == IF redis \/ Cardinality(DOMAIN seen) < MaxTrackedKeys THEN seen
              ELSE Only(seen, { j \in DOMAIN seen : seen[j] > now })
Remember(jti) == seen' = With(SweptGuard, jti, now + GuardTtl)

-----------------------------------------------------------------------------
(* A visit, from one await to the next. *)

\* What a visit is told, and when.  Of one that met no tenant nothing is kept.
Out(v, why) ==
  visit' = [visit EXCEPT ![v] =
    IF visit[v].of = Unset THEN NoVisit
    ELSE [visit[v] EXCEPT !.at = "out", !.why = why, !.decided = now]]
Goes(v, at) == visit' = [visit EXCEPT ![v].at = at]

\* The first free place in the list of visits is as good as any.
Free(v) == visit[v].at \in {"idle", "in", "out"}

Arrives(v, kind, key, origin, token, game, allowed) ==
  /\ Free(v) /\ \A u \in Visits : u < v => ~Free(u)
  /\ visitsLeft > 0 /\ visitsLeft' = visitsLeft - 1
  /\ visit' = [visit EXCEPT ![v] =
       IF ~allowed THEN NoVisit
       ELSE [at |-> IF kind = "join" THEN "verify" ELSE "key",
             kind |-> kind, key |-> key, origin |-> origin, token |-> token, game |-> game,
             of |-> Unset, decided |-> now, edition |-> edition, why |-> ""]]

\* The first limiter counts addresses; a socket that has none any more is not counted.
Consumes(l, ip) == IF ip = NoAddress THEN UNCHANGED <<buckets, passed>> ELSE TryConsume(l, ip)
Allowed(l, ip)  == ip = NoAddress \/ HasBudget(l, ip)

\* handleEmbedRequest, handleSessionRenewRequest
AskToken(v, kind, ip, key, origin) ==
  /\ Consumes("embed-ip", ip)
  /\ Arrives(v, kind, key, origin, NoToken, Unset, Allowed("embed-ip", ip))
  /\ UNCHANGED <<redis, seen, tokens, minted, spent, tenantsVars>>

CheckKey(v) ==
  /\ visit[v].at = "key"
  /\ TryConsume("embed-key", visit[v].key)
  /\ IF HasBudget("embed-key", visit[v].key) THEN Goes(v, "resolve") ELSE Out(v, "limited")
  /\ UNCHANGED <<redis, seen, tokens, minted, spent, visitsLeft, tenantsVars>>

HoldersOf(key) == { t \in DOMAIN tenants : tenants[t].embedKey = key }

\* mintSessionForEmbed, renewSessionForWidget: the tenant is found, or the lookup
\* throws; its window is checked, then the page's origin or the widget's own.
Resolve(v) ==
  /\ visit[v].at = "resolve"
  /\ \/ Out(v, "tenant-lookup-failed") /\ UNCHANGED minted
     \/ HoldersOf(visit[v].key) = {} /\ Out(v, "unknown-tenant") /\ UNCHANGED minted
     \/ \E t \in HoldersOf(visit[v].key) :
          LET row == tenants[t]
              origins == IF visit[v].kind = "embed" THEN row.allowedOrigins ELSE WidgetOrigins
              stands == [visit[v] EXCEPT !.of = t, !.decided = now] IN
          IF ~Active(row, now)
            THEN /\ visit' = [visit EXCEPT ![v] =
                       [stands EXCEPT !.at = "out", !.why = "tenant-not-active"]]
                 /\ UNCHANGED minted
          ELSE IF visit[v].origin \notin origins
            THEN /\ visit' = [visit EXCEPT ![v] =
                       [stands EXCEPT !.at = "out", !.why = "origin-not-allowed"]]
                 /\ UNCHANGED minted
          ELSE /\ visit' = [visit EXCEPT ![v] =
                       [stands EXCEPT !.at = "sign", !.token = SignedFor(t)]]
               /\ minted' = minted + 1
  /\ UNCHANGED <<redis, buckets, seen, tokens, passed, spent, visitsLeft, tenantsVars>>

\* The token is signed and handed over.  An embed looks its tenant up once more, for
\* the catalog; when that throws, the answer is lost.
Answer(v) ==
  /\ visit[v].at = "sign"
  /\ \/ Goes(v, "in") /\ tokens' = tokens \cup {visit[v].token}
     \/ visit[v].kind = "embed" /\ Out(v, "failed") /\ UNCHANGED tokens
  /\ UNCHANGED <<redis, buckets, seen, minted, passed, spent, visitsLeft, tenantsVars>>

\* onAuth: the limiter,
Join(v, ip, origin, token, game) ==
  /\ Consumes("join-ip", ip)
  /\ Arrives(v, "join", Unset, origin, token, game, Allowed("join-ip", ip))
  /\ UNCHANGED <<redis, seen, tokens, minted, spent, tenantsVars>>

\* the token and the origin,
Verify(v) ==
  /\ visit[v].at = "verify"
  /\ IF ~Alive(visit[v].token) THEN Out(v, "token-expired")
     ELSE IF visit[v].origin \notin WidgetOrigins THEN Out(v, "origin-not-allowed")
     ELSE Goes(v, "tenant")
  /\ UNCHANGED <<redis, buckets, seen, tokens, minted, passed, spent, visitsLeft, tenantsVars>>

\* Seeded fault: what the token says its tenant may play.
EntitledByToken(v, t) == visit[v].game \in visit[v].token.entitlements
Entitled(v, t) == visit[v].game \in tenants[t].entitledGames

\* the tenant as it is now,
CheckTenant(v) ==
  /\ visit[v].at = "tenant"
  /\ LET t == visit[v].token.tenant
         why == IF t \notin DOMAIN tenants THEN "unknown-tenant"
                ELSE IF ~Active(tenants[t], now) THEN "tenant-not-active"
                ELSE IF ~Entitled(v, t) THEN "not-entitled" ELSE "" IN
     \/ visit' = [visit EXCEPT ![v].at = IF why = "" THEN "consume" ELSE "out",
                               ![v].of = t, ![v].why = why, ![v].decided = now]
     \/ Out(v, "tenant-lookup-failed")
  /\ UNCHANGED <<redis, buckets, seen, tokens, minted, passed, spent, visitsLeft, tenantsVars>>

\* and the token's one use.
Consume(v) ==
  /\ visit[v].at = "consume"
  /\ LET jti == visit[v].token.jti IN
     IF Fresh(jti)
       THEN /\ Goes(v, "in") /\ Remember(jti)
            /\ spent' = Append(spent, [jti |-> jti, alive |-> Alive(visit[v].token)])
       ELSE Out(v, "already-used") /\ UNCHANGED <<seen, spent>>
  /\ UNCHANGED <<redis, buckets, tokens, minted, passed, visitsLeft, tenantsVars>>

\* What visitors may send: all of it, or what a scene needs.
Sockets == Addresses \cup {NoAddress}
Senders == PageOrigins \cup WidgetOrigins
Requests == [kind : {"embed", "renew"}, ip : Sockets, key : EmbedKeys, origin : Senders]
Joins    == [ip : Sockets, origin : Senders, game : TenantGames]

DoorNext(requests, joins) ==
  \E v \in Visits :
    \/ \E q \in requests : AskToken(v, q.kind, q.ip, q.key, q.origin)
    \/ \E q \in joins, token \in tokens : Join(v, q.ip, q.origin, token, q.game)
    \/ CheckKey(v) \/ Resolve(v) \/ Answer(v) \/ Verify(v) \/ CheckTenant(v) \/ Consume(v)

-----------------------------------------------------------------------------
(* Properties. *)

\* The door and the panel agree.  Whoever comes in after the last save of a tenant is
\* let in by that tenant as saved - its games, its origins - and on a day that the
\* panel shows as paid for; nobody is turned away on such a day.  A token signed
\* before the save does not bring the tenant's old games along.
ShownAsPaid(row, at) ==
  /\ row.validUntil # Unset /\ DayOf(at) <= InstantToPaidThrough(row.validUntil)
  /\ row.validFrom = Unset \/ row.validFrom <= at
DoorAgreesWithThePanel ==
  \A v \in Visits :
    LET w == visit[v] IN
    w.at \in {"in", "out"} /\ w.of # Unset /\ w.edition = edition =>
      LET row == tenants[w.of] IN
      /\ w.at = "in" => ShownAsPaid(row, w.decided)
      /\ w.why = "tenant-not-active" => ~ShownAsPaid(row, w.decided)
      /\ Status(row, w.decided) = "active" <=> ShownAsPaid(row, w.decided)
      /\ w.at = "in" /\ w.kind = "join" => w.game \in row.entitledGames
      /\ w.at = "in" /\ w.kind = "embed" => w.origin \in row.allowedOrigins

\* The window is fixed and not sliding, so a key gets more than its limit around the
\* edge of one; but never more than one short of twice the limit in any stretch as
\* long as a window, wherever the store is and however often it is swept.
LessThanTwiceTheLimit ==
  \A l \in Limiters : \A k \in Keys(l) :
    LET hits == passed[l][k] IN
    \A i \in DOMAIN hits :
      i + 2 * Limit - 1 \in DOMAIN hits => hits[i + 2 * Limit - 1] - hits[i] >= Window

\* As long as it lives a token opens one seat: presented again, to the same join or
\* to a later one, by whoever is slowest at the database, it is refused - although
\* the guard forgets tokens to stay small, and counts their life in other units and
\* from another moment than their signature does.
OncePerToken ==
  \A i, j \in DOMAIN spent : spent[i].jti = spent[j].jti /\ spent[j].alive => i >= j
=============================================================================
