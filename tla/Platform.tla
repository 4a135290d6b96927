-------------------------------- MODULE Platform --------------------------------
(***************************************************************************)
(* The parts of the platform that meet in its database: the panel that     *)
(* saves tenants, the door that reads them for every visit, and the        *)
(* migrations that come before both.                                       *)
(***************************************************************************)
EXTENDS Office, Door, Migrations

CONSTANTS Scenes, Bounds(_), TenantsAtFirst(_), AsksIn(_), RequestsIn(_), JoinsIn(_)

\* The panel is what writes windows, and a window it saves ends with a day.
EndsWithDay(row) ==
  row.validUntil = Unset \/ (row.validUntil - BehindUtc) % TicksPerDay = 0

ASSUME PlatformAssumption ==
  \A s \in Scenes :
    /\ Bounds(s).time \in Nat /\ Bounds(s).stores \subseteq BOOLEAN
    /\ AsksIn(s) \subseteq Asks /\ RequestsIn(s) \subseteq Requests /\ JoinsIn(s) \subseteq Joins
    /\ \A rows \in TenantsAtFirst(s) :
         /\ DOMAIN rows \subseteq TenantIds
         /\ \A t \in DOMAIN rows : rows[t] \in Row /\ EndsWithDay(rows[t])

VARIABLE scene   \* what is followed, and how far: the key of Bounds

platformVars == <<scene, tenantsVars, officeVars, doorVars, migrationVars>>

PlatformInit ==
  /\ scene \in Scenes
  /\ LET b == Bounds(scene) IN
       /\ horizon = b.time /\ savesLeft = b.saves /\ visitsLeft = b.visits
       /\ restartsLeft = b.runs /\ redis \in b.stores
  /\ tenants \in TenantsAtFirst(scene) /\ edition = 0 /\ now = 0
  /\ OfficeInit /\ DoorInit /\ MigrationsInit
  \* of what a scene does not follow, one beginning is enough
  /\ restartsLeft = 0 => \A p \in DOMAIN bundle : bundle[p] = 0

Clock     == Tick /\ UNCHANGED <<scene, officeVars, doorVars, migrationVars>>
PanelStep == OfficeNext(AsksIn(scene)) /\ UNCHANGED <<scene, doorVars, migrationVars>>
DoorStep  == DoorNext(RequestsIn(scene), JoinsIn(scene)) /\ UNCHANGED <<scene, officeVars, migrationVars>>
SchemaStep == MigrationsNext /\ UNCHANGED <<scene, tenantsVars, officeVars, doorVars>>

PlatformNext == Clock \/ PanelStep \/ DoorStep \/ SchemaStep

PlatformSpec == PlatformInit /\ [][PlatformNext]_platformVars

PlatformTypeOK ==
  scene \in Scenes /\ TenantsTypeOK /\ OfficeTypeOK /\ DoorTypeOK /\ MigrationsTypeOK
=============================================================================
