---------------------------------- MODULE Panel ----------------------------------
(***************************************************************************)
(* The admin panel in one operator's browser: AppShell and the screen it   *)
(* renders (apps/admin/src/ui), the requests they make (ui/api.ts) and the *)
(* process that answers them (apps/admin/src/index.ts).                    *)
(*                                                                         *)
(* Requests travel side by side: they are served in any order, answered in *)
(* any order, and may be lost on either way.  A component that is no       *)
(* longer rendered hears no answer; what it handed to its parent, does.    *)
(* Each write is one step here (Office and OperatorAccounts have its       *)
(* statements), and nobody but this operator writes.                       *)
(***************************************************************************)
EXTENDS Naturals, FiniteSets

CONSTANTS
  PanelTenants,  \* ids of tenants, one of them in the table at first
  FirstTenant,
  Fields,        \* the editors of a tenant: "origins", "games", "window", "theme"
  Staff, Self,   \* usernames, and the operator in front of the screen
  Grants,        \* the tenant and audit permissions Self may hold
  NoTenant,
  Wires,         \* requests on their way at once
  MaxClicks      \* bound: what the operator does

ASSUME PanelAssumption ==
  /\ FirstTenant \in PanelTenants /\ NoTenant \notin PanelTenants
  /\ Fields \subseteq {"origins", "games", "window", "theme"}
  /\ Self \in Staff /\ Wires # {} /\ MaxClicks \in Nat

VARIABLES
  shell,   \* AppShell: the probe's state and rows, nav, creating, selected
  body,    \* the state of the component it renders
  asks,    \* requests on their way
  server,  \* live: this browser's session; may: Self's permissions; the rows of
           \* tenants and of operators; entries: rows of audit_entries
  orderly, \* since all was last read anew: one request at a time, and none lost
  clicks

panelVars == <<shell, body, asks, server, orderly, clicks>>

-----------------------------------------------------------------------------
(* What is rendered. *)

\* resolveAppShellView
ViewOf(s) ==
  IF s.kind \in {"loading", "login"} THEN s.kind
  ELSE IF s.nav # "tenants" THEN s.nav
  ELSE IF s.creating THEN "create"
  ELSE IF s.selected # NoTenant THEN "detail"
  ELSE CASE s.kind = "tenants" -> "list" [] OTHER -> "no-list"

\* The views with an AppNav, and so with a way out.
HasNav == ViewOf(shell) \in {"list", "no-list", "operators", "audit", "account"}

NoErrors == [f \in Fields |-> "idle"]
\* What a component holds when it is mounted.
Fresh(view) ==
  CASE view = "detail"    -> [at |-> "loading"]
    [] view = "operators" -> [at |-> "loading", rows |-> {}, rowError |-> FALSE, form |-> "idle"]
    [] view = "audit"     -> [at |-> "loading", filter |-> FALSE]
    [] view \in {"login", "create", "account"} -> [at |-> "idle"]
    [] OTHER              -> [at |-> "none"]

\* The sections of a loaded detail.
LoadedDetail(id, row, sections) ==
  [at |-> "loaded", id |-> id, row |-> row, saves |-> sections.saves,
   rotate |-> sections.rotate, warned |-> sections.warned]
NewSections == [saves |-> NoErrors, rotate |-> "idle", warned |-> FALSE]

-----------------------------------------------------------------------------
(* Requests. *)

NoAsk == [what |-> "none"]
Waiting == [status |-> "none"]
Flying(w) == asks[w] # NoAsk

\* Who hears an answer: the shell, the screen that asked, or a section of it.
Request(what, by, arg) == [what |-> what, by |-> by, arg |-> arg, answer |-> Waiting]

Spare(A) == CHOOSE w \in Wires : A[w] = NoAsk
Room(A)  == \E w \in Wires : A[w] = NoAsk
Sent(A, r) == [A EXCEPT ![Spare(A)] = r]

\* Nothing a mounted component asked for reaches it once it is gone.
NoLongerHeard(A, hearers) ==
  [w \in Wires |-> IF A[w] # NoAsk /\ A[w].by \in hearers THEN [A[w] EXCEPT !.by = "nobody"] ELSE A[w]]

ListRequest == Request("list", "shell", 0)
\* What a component asks for as it is mounted.
MountRequest(view, s) ==
  CASE view = "detail"    -> {Request("detail", "screen", s.selected)}
    [] view = "operators" -> {Request("operators", "screen", 0)}
    [] view = "audit"     -> {Request("audit", "screen", FALSE)}
    [] OTHER              -> {}

\* The sections of a detail are gone: of what they asked for, the screen is handed the
\* row that was saved, and nothing else.
SectionsGone(A) ==
  [w \in Wires |-> IF A[w] # NoAsk /\ A[w].by = "section" THEN [A[w] EXCEPT !.by = "screen"] ELSE A[w]]

\* The tenant under an open detail is another: its fetch is cancelled, its sections
\* are gone, and the screen itself has stayed.
Cancelled(A) ==
  [w \in Wires |-> IF A[w] # NoAsk /\ A[w].what = "detail" /\ A[w].by = "screen"
                     THEN [A[w] EXCEPT !.by = "nobody"] ELSE SectionsGone(A)[w]]

\* One commit of React: what a handler leaves (the shell s, the body b of the component
\* that is there, the requests R it makes), what is mounted, and what that asks for.
Rendered(s, b, A, R) ==
  LET view  == ViewOf(s)
      moved == view # ViewOf(shell)
      other == view = "detail" /\ s.selected # shell.selected
      A2    == IF moved THEN NoLongerHeard(A, {"screen", "section"}) ELSE IF other THEN Cancelled(A) ELSE A
      R2    == R \cup IF moved \/ other THEN MountRequest(view, s) ELSE {}
  IN /\ shell' = s
     /\ body' = IF moved \/ other THEN Fresh(view) ELSE b
     /\ IF R2 = {} THEN asks' = A2 /\ UNCHANGED orderly
        ELSE \E r \in R2 :
               /\ Room(A2)
               /\ asks' = Sent(A2, r)
               /\ orderly' = (A2 = [w \in Wires |-> NoAsk] /\ (orderly \/ r.what = "list"))

Reloading == [shell EXCEPT !.kind = "loading", !.rows = {}]   \* loadTenants

-----------------------------------------------------------------------------
(* What the operator does. *)

Click == clicks > 0 /\ clicks' = clicks - 1 /\ UNCHANGED server

\* A press that asks for something, and what the screen says meanwhile.
AskingWith(b, what, by, arg) == Click /\ Rendered(shell, b, asks, {Request(what, by, arg)})
Asking(what, arg) == AskingWith([body EXCEPT !.at = "busy"], what, "screen", arg)

PressLogin == ViewOf(shell) = "login" /\ body.at # "busy" /\ Asking("login", 0)

PressNav(n) ==
  /\ HasNav /\ n # shell.nav /\ Click
  /\ Rendered([shell EXCEPT !.nav = n], body, asks, {})

PressLogout == HasNav /\ AskingWith(body, "logout", "shell", 0)

PressRetry ==
  /\ ViewOf(shell) = "no-list" /\ Click
  /\ Rendered(Reloading, body, asks, {ListRequest})

OpenForm ==
  /\ ViewOf(shell) \in {"list", "no-list"} /\ Click
  /\ Rendered([shell EXCEPT !.creating = TRUE], body, asks, {})

OpenTenant(t) ==
  /\ ViewOf(shell) = "list" /\ \E row \in shell.rows : row.id = t
  /\ Click
  /\ Rendered([shell EXCEPT !.selected = t], body, asks, {})

\* Seeded fault: the list is shown as it was before the tenant was opened.
BackToTheOldList ==
  /\ ViewOf(shell) = "detail" /\ Click
  /\ Rendered([shell EXCEPT !.selected = NoTenant], body, asks, {})
\* handleBackFromDetail
BackFromDetail ==
  /\ ViewOf(shell) = "detail" /\ Click
  /\ Rendered([Reloading EXCEPT !.selected = NoTenant], body, asks, {ListRequest})

\* The way back is open while the form is being submitted, too.
BackFromForm ==
  /\ ViewOf(shell) = "create" /\ Click
  /\ Rendered([shell EXCEPT !.creating = FALSE], body, asks, {})

PressCreate(t) == ViewOf(shell) = "create" /\ body.at # "busy" /\ Asking("create", t)

OnDetail == ViewOf(shell) = "detail" /\ body.at = "loaded"

\* handleSave of an editor, which is off while it saves; what is written is new.
PressSave(f) ==
  /\ OnDetail /\ body.saves[f] # "saving"
  /\ AskingWith([body EXCEPT !.saves[f] = "saving", !.warned = @ /\ f # "theme"],
                "save", "section", [id |-> shell.selected, field |-> f, value |-> clicks])

\* What is incomplete, or a date that is none, is not sent.
PressIncomplete ==
  /\ Click
  /\ \/ /\ ViewOf(shell) \in {"login", "create", "account"} /\ body.at # "busy"
        /\ Rendered(shell, [body EXCEPT !.at = "error"], asks, {})
     \/ /\ ViewOf(shell) = "operators" /\ body.at = "loaded" /\ body.form # "busy"
        /\ Rendered(shell, [body EXCEPT !.form = "error"], asks, {})
     \/ /\ OnDetail /\ "window" \in Fields /\ body.saves["window"] # "saving"
        /\ Rendered(shell, [body EXCEPT !.saves["window"] = "error"], asks, {})

PressRotate(answer) ==
  /\ OnDetail /\ Click
  /\ body.rotate = IF answer = "confirming" THEN "idle" ELSE "confirming"
  /\ Rendered(shell, [body EXCEPT !.rotate = answer], asks,
              IF answer # "rotating" THEN {}
              ELSE {Request("save", "section", [id |-> shell.selected, field |-> "key", value |-> clicks])})

OnOperators == ViewOf(shell) = "operators" /\ body.at = "loaded"

PressReloadStaff ==
  /\ ViewOf(shell) = "operators" /\ body.at \in {"denied", "failed"}
  /\ AskingWith([body EXCEPT !.at = "loading"], "operators", "screen", 0)

PressHire(o) ==
  /\ OnOperators /\ body.form # "busy"
  /\ AskingWith([body EXCEPT !.form = "busy"], "hire", "screen", o)

\* handleToggleEnabled, handleTogglePermission: the opposite of what the row says; the
\* other rows, and this one, can be pressed again before the answer.
PressToggle(o, column) ==
  /\ OnOperators
  /\ \E row \in body.rows :
       /\ row.who = o
       /\ AskingWith([body EXCEPT !.rowError = FALSE], "toggle", "screen",
                     [who |-> o, column |-> column, to |-> ~row[column]])

\* load of the audit viewer, which any of its buttons starts at any time
PressFilter(x) ==
  /\ ViewOf(shell) = "audit"
  /\ AskingWith([at |-> "loading", filter |-> x], "audit", "screen", x)

PressPassword == ViewOf(shell) = "account" /\ body.at # "busy" /\ Asking("password", 0)

-----------------------------------------------------------------------------
(* The process. *)

Needs(r) ==
  CASE r.what \in {"list", "detail"} -> "tenant.origins.edit"
    [] r.what = "create"             -> "tenant.create"
    [] r.what = "save" -> (CASE r.arg.field = "key"    -> "tenant.embed-key.rotate"
                             [] r.arg.field = "games"  -> "tenant.games.edit"
                             [] r.arg.field = "window" -> "tenant.window.edit"
                             [] OTHER                  -> "tenant.origins.edit")
    [] r.what \in {"operators", "hire", "toggle"} -> "operators.manage"
    [] r.what = "audit"              -> "audit.view"
    [] OTHER                         -> "nothing"

Manages == server.staff[Self].manages
Permitted(r) ==
  CASE Needs(r) = "nothing"          -> TRUE
    [] Needs(r) = "operators.manage" -> Manages
    [] OTHER                         -> Needs(r) \in server.may

Reply(srv, status, data) == [server |-> srv, answer |-> [status |-> status, data |-> data]]
Refusal(status) == {Reply(server, status, 0)}
Done(srv, data) == {Reply([srv EXCEPT !.entries = @ + 1], "200", data)}

NewRow == [f \in Fields \cup {"key"} |-> 0]
Listing(rows) == { [id |-> t, key |-> rows[t].key] : t \in DOMAIN rows }
Directory(staff) ==
  { [who |-> o, enabled |-> staff[o].enabled, manages |-> staff[o].manages] : o \in DOMAIN staff }

\* The password typed may be wrong; a disabled account is told the same.
LogIn ==
  Refusal("401") \cup
    IF server.staff[Self].enabled THEN {Reply([server EXCEPT !.live = TRUE], "200", 0)} ELSE {}

CreateTenant(t) ==
  IF t \in DOMAIN server.rows THEN Refusal("409")
  ELSE Done([server EXCEPT !.rows = [u \in DOMAIN server.rows \cup {t} |->
                                       IF u = t THEN NewRow ELSE server.rows[u]]], 0)

\* The row as it then stands.  A theme is stored without what cannot be read on it, a
\* window only if it is one.
SaveTenant(id, f, value) ==
  (IF f = "window" THEN Refusal("400") ELSE {}) \cup UNION { LET row == [server.rows[id] EXCEPT ![f] = IF kept THEN value ELSE 0] IN
          Done([server EXCEPT !.rows[id] = row], [id |-> id, row |-> row, warned |-> ~kept]) :
          kept \in IF f = "theme" THEN BOOLEAN ELSE {TRUE} }

Hire(o) ==
  IF o \in DOMAIN server.staff THEN Refusal("409")
  ELSE Done([server EXCEPT !.staff = [p \in DOMAIN server.staff \cup {o} |->
               IF p = o THEN [enabled |-> TRUE, manages |-> FALSE] ELSE server.staff[p]]], 0)

\* The last one who can manage accounts stays; disabling ends sessions; there is no
\* grant to take back twice.
SetColumn(o, column, to) ==
  LET staff == [server.staff EXCEPT ![o][column] = to] IN
  IF ~to /\ ~ \E p \in DOMAIN staff : staff[p].enabled /\ staff[p].manages THEN Refusal("409")
  ELSE IF column = "manages" /\ ~to /\ ~server.staff[o].manages THEN Refusal("404")
  ELSE Done([server EXCEPT !.staff = staff,
               !.live = @ /\ ~(o = Self /\ column = "enabled" /\ ~to)], 0)

ChangePassword == Refusal("401") \cup Done(server, 0)

\* listAuditEntries: the entries there are, of those a filter x lets through
AuditPage(x) == [filter |-> x, entries |-> server.entries]

\* What a request that may be made is answered, and leaves behind.
CarriedOut(r) ==
  CASE r.what = "list"   -> {Reply(server, "200", Listing(server.rows))}
    [] r.what = "detail" -> {Reply(server, "200", [id |-> r.arg, row |-> server.rows[r.arg]])}
    [] r.what = "create" -> CreateTenant(r.arg)
    [] r.what = "save"   -> SaveTenant(r.arg.id, r.arg.field, r.arg.value)
    [] r.what = "operators" -> {Reply(server, "200", Directory(server.staff))}
    [] r.what = "hire"   -> Hire(r.arg)
    [] r.what = "toggle" -> SetColumn(r.arg.who, r.arg.column, r.arg.to)
    [] r.what = "audit"  -> {Reply(server, "200", AuditPage(r.arg))}
    [] r.what = "password" -> ChangePassword

Handled(r) ==
  CASE r.what = "login"  -> LogIn
    [] r.what = "logout" -> {Reply([server EXCEPT !.live = FALSE], "200", 0)}
    [] OTHER -> IF ~server.live THEN Refusal("401")
                ELSE IF ~Permitted(r) THEN Refusal("403") ELSE CarriedOut(r)

Serve(w) ==
  /\ Flying(w) /\ asks[w].answer = Waiting
  /\ \E reply \in Handled(asks[w]) :
       server' = reply.server /\ asks' = [asks EXCEPT ![w].answer = reply.answer]
  /\ UNCHANGED <<shell, body, orderly, clicks>>

\* The database cannot be reached, or the network: before the request is handled or,
\* for its answer, after.
Lose(w, status) ==
  /\ Flying(w) /\ (asks[w].answer = Waiting \/ (status = "lost" /\ asks[w].answer.status # "lost"))
  /\ asks' = [asks EXCEPT ![w].answer = [status |-> status, data |-> 0]]
  /\ orderly' = FALSE
  /\ UNCHANGED <<shell, body, server, clicks>>

\* Eight hours are over.
SessionEnds ==
  /\ server.live /\ server' = [server EXCEPT !.live = FALSE]
  /\ UNCHANGED <<shell, body, asks, orderly, clicks>>

-----------------------------------------------------------------------------
(* Answers. *)

\* What loadTenants makes of a status
Probed(status) ==
  CASE status = "200" -> "tenants" [] status = "403" -> "missing-permission"
    [] status = "lost" -> "error"  [] OTHER -> "login"
\* What the other screens make of one
Outcome(status) ==
  CASE status = "200" -> "loaded" [] status = "403" -> "denied" [] OTHER -> "failed"

Sections == IF body.at = "loaded" THEN [saves |-> body.saves, rotate |-> body.rotate, warned |-> body.warned]
            ELSE NewSections

\* The section that saved, if it is still there.
TheSection(r, ok) ==
  IF r.by # "section" THEN Sections ELSE
  CASE r.arg.field = "key"   -> [Sections EXCEPT !.rotate = IF ok THEN "rotated" ELSE "error"]
    [] r.arg.field = "theme" -> [Sections EXCEPT !.saves["theme"] = IF ok THEN "idle" ELSE "error",
                                                 !.warned = IF ok THEN r.answer.data.warned ELSE @]
    [] OTHER                 -> [Sections EXCEPT !.saves[r.arg.field] = IF ok THEN "idle" ELSE "error"]

Arrived(w) == Flying(w) /\ asks[w].answer # Waiting
Without(w) == [asks EXCEPT ![w] = NoAsk]
Ok(r)      == r.answer.status = "200"
Heard(s, b, w, R) == Rendered(s, b, Without(w), R) /\ UNCHANGED <<server, clicks>>

ListAnswered(w) ==
  /\ Arrived(w) /\ asks[w].what = "list"
  /\ Heard([shell EXCEPT !.kind = Probed(asks[w].answer.status),
                         !.rows = IF Ok(asks[w]) THEN asks[w].answer.data ELSE {}], body, w, {})

\* However it went.
LogoutAnswered(w) ==
  /\ Arrived(w) /\ asks[w].what = "logout"
  /\ Heard([shell EXCEPT !.kind = "login", !.rows = {}], body, w, {})

Busy(r, how) == IF r.by = "screen" THEN [body EXCEPT !.at = how] ELSE body

\* onLoginSuccess
LoginAnswered(w) ==
  /\ Arrived(w) /\ asks[w].what = "login"
  /\ IF Ok(asks[w]) THEN Heard(Reloading, body, w, {ListRequest})
     ELSE Heard(shell, Busy(asks[w], "error"), w, {})

\* handleTenantCreated, wherever the operator has gone meanwhile
CreateAnswered(w) ==
  /\ Arrived(w) /\ asks[w].what = "create"
  /\ IF Ok(asks[w]) THEN Heard([shell EXCEPT !.creating = FALSE, !.selected = asks[w].arg], body, w, {})
     ELSE Heard(shell, Busy(asks[w], "error"), w, {})

\* A detail that could not be read again takes its sections with it.
DetailAnswered(w) ==
  /\ Arrived(w) /\ asks[w].what = "detail"
  /\ LET r == asks[w] IN
     CASE r.by # "screen" -> Heard(shell, body, w, {})
       [] r.by = "screen" /\ Ok(r) ->
            Heard(shell, LoadedDetail(r.answer.data.id, r.answer.data.row, Sections), w, {})
       [] OTHER -> /\ Rendered(shell, [at |-> Outcome(r.answer.status)], SectionsGone(Without(w)), {})
                   /\ UNCHANGED <<server, clicks>>

\* onSaved and onRotated paint the row they were answered, whatever is there.
SaveAnswered(w) ==
  /\ Arrived(w) /\ asks[w].what = "save"
  /\ LET r == asks[w] IN
     Heard(shell, CASE r.by = "nobody" -> body
                    [] r.by # "nobody" /\ Ok(r) ->
                         LoadedDetail(r.answer.data.id, r.answer.data.row, TheSection(r, TRUE))
                    [] r.by = "section" /\ ~Ok(r) -> LoadedDetail(body.id, body.row, TheSection(r, FALSE))
                    [] OTHER -> body, w, {})

StaffAnswered(w) ==
  /\ Arrived(w) /\ asks[w].what = "operators"
  /\ LET r == asks[w] IN
     Heard(shell, CASE r.by = "nobody" -> body
                    [] r.by # "nobody" /\ Ok(r) -> [body EXCEPT !.at = "loaded", !.rows = r.answer.data]
                    [] OTHER -> [body EXCEPT !.at = Outcome(r.answer.status)], w, {})

\* A change of the directory is shown by reading it again.
ChangeAnswered(w) ==
  /\ Arrived(w) /\ asks[w].what \in {"hire", "toggle"}
  /\ LET r    == asks[w]
         form == IF r.what = "toggle" THEN body.form ELSE IF Ok(r) THEN "idle" ELSE "error" IN
     CASE r.by = "nobody" -> Heard(shell, body, w, {})
       [] r.by = "screen" /\ Ok(r) ->
            Heard(shell, [body EXCEPT !.form = form, !.at = "loading"], w, {Request("operators", "screen", 0)})
       [] OTHER -> Heard(shell, [body EXCEPT !.form = form, !.rowError = @ \/ r.what = "toggle"], w, {})

AuditAnswered(w) ==
  /\ Arrived(w) /\ asks[w].what = "audit"
  /\ LET r == asks[w] IN
     Heard(shell, CASE r.by = "nobody" -> body
                    [] r.by # "nobody" /\ Ok(r) -> [at |-> "loaded", filter |-> body.filter, shown |-> r.answer.data]
                    [] OTHER -> [at |-> Outcome(r.answer.status), filter |-> body.filter], w, {})

PasswordAnswered(w) ==
  /\ Arrived(w) /\ asks[w].what = "password"
  /\ Heard(shell, Busy(asks[w], IF Ok(asks[w]) THEN "done" ELSE "error"), w, {})

-----------------------------------------------------------------------------

PanelInit ==
  /\ shell = [kind |-> "loading", rows |-> {}, nav |-> "tenants", creating |-> FALSE, selected |-> NoTenant]
  /\ body = Fresh("loading")
  /\ asks = Sent([w \in Wires |-> NoAsk], ListRequest)
  /\ \E may \in Grants, manages, live \in BOOLEAN :
       server = [live |-> live, may |-> may, rows |-> [t \in {FirstTenant} |-> NewRow],
                 staff |-> [o \in {Self} |-> [enabled |-> TRUE, manages |-> manages]], entries |-> 0]
  /\ orderly = TRUE /\ clicks = MaxClicks

Pressed ==
  \/ PressLogin \/ PressLogout \/ PressRetry \/ OpenForm \/ BackFromDetail \/ BackFromForm
  \/ \E n \in {"tenants", "operators", "audit", "account"} : PressNav(n)
  \/ \E t \in PanelTenants : OpenTenant(t) \/ PressCreate(t)
  \/ \E f \in Fields : PressSave(f)
  \/ PressIncomplete \/ \E a \in {"confirming", "idle", "rotating"} : PressRotate(a)
  \/ PressReloadStaff \/ \E o \in Staff : PressHire(o)
  \/ \E o \in Staff, c \in {"enabled", "manages"} : PressToggle(o, c)
  \/ \E x \in BOOLEAN : PressFilter(x)
  \/ PressPassword

AnswerArrives(w) ==
  \/ ListAnswered(w) \/ LogoutAnswered(w) \/ LoginAnswered(w) \/ CreateAnswered(w)
  \/ DetailAnswered(w) \/ SaveAnswered(w) \/ StaffAnswered(w) \/ ChangeAnswered(w)
  \/ AuditAnswered(w) \/ PasswordAnswered(w)

PanelNext ==
  \/ Pressed \/ SessionEnds
  \/ \E w \in Wires : Serve(w) \/ AnswerArrives(w) \/ \E st \in {"500", "lost"} : Lose(w, st)

PanelSpec == PanelInit /\ [][PanelNext]_panelVars

-----------------------------------------------------------------------------
(* Properties. *)

PanelTypeOK ==
  /\ shell.kind \in {"loading", "login", "tenants", "missing-permission", "error"}
  /\ shell.nav \in {"tenants", "operators", "audit", "account"}
  /\ shell.selected \in DOMAIN server.rows \cup {NoTenant}
  /\ DOMAIN server.rows \subseteq PanelTenants /\ Self \in DOMAIN server.staff
  /\ ViewOf(shell) = "detail" /\ body.at = "loaded" =>
       body.id \in DOMAIN server.rows /\ body.row \in [Fields \cup {"key"} -> 0 .. MaxClicks]
  /\ \A w \in Wires : Flying(w) => asks[w].by \in {"shell", "screen", "section", "nobody"}

\* Whatever a screen says it is waiting for has been asked, by what is on the screen
\* and for what is on it: no answer, cancelled fetch or change of tenant leaves it
\* saying so for ever.
EveryWaitIsAsked ==
  LET Asked(what, by) == { w \in Wires : Flying(w) /\ asks[w].what \in what /\ asks[w].by = by } IN
  /\ shell.kind = "loading" => Asked({"list"}, "shell") # {}
  /\ body.at = "loading" =>
       \E w \in Asked({ViewOf(shell)}, "screen") :
         ViewOf(shell) = "detail" => asks[w].arg = shell.selected
  /\ body.at = "busy" => Asked({"login", "create", "password"}, "screen") # {}
  /\ ViewOf(shell) = "operators" /\ body.form = "busy" => Asked({"hire"}, "screen") # {}
  /\ OnDetail =>
       LET Saving(f) == \E w \in Asked({"save"}, "section") : asks[w].arg.field = f IN
       /\ \A f \in Fields : body.saves[f] = "saving" => Saving(f)
       /\ body.rotate = "rotating" => Saving("key")

\* Used at one request at a time, with none lost, the panel tells what the process
\* holds once it is at rest: who is logged in, the tenants there are, the tenant that
\* is open and the one whose saves it makes, the operators, the entries asked for.
QuietPanelIsTrue ==
  (\A w \in Wires : ~Flying(w)) /\ orderly =>
    CASE ViewOf(shell) = "login" -> ~server.live
      [] ViewOf(shell) = "list"  -> shell.rows = Listing(server.rows)
      [] OnDetail -> body.id = shell.selected /\ body.row = server.rows[body.id]
      [] OnOperators -> body.rows = Directory(server.staff)
      [] ViewOf(shell) = "audit" /\ body.at = "loaded" ->
           body.shown = AuditPage(body.filter)
      [] OTHER -> TRUE

\* The panel's word is good: what it waits for is on its way, and what it shows at rest
\* is what the process holds.
PanelTellsTheTruth == EveryWaitIsAsked /\ QuietPanelIsTrue
=============================================================================
