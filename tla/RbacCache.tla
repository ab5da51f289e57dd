----------------------------- MODULE RbacCache -----------------------------
(***************************************************************************)
(* The cache of access-token claims: RbacService.resolve and invalidateUser *)
(* over Redis, against every writer of the tables it reads: AdminService    *)
(* (createRole, deleteRole, setRolePermissions, assignRole, revokeRole,     *)
(* deleteApplication) and the seed of every start of the api.               *)
(*                                                                         *)
(* A slot is the cache key rbac:<application>:<user>.  resolve fills it from *)
(* four reads of the database with an await before each; administrators     *)
(* change the database and only then look for the keys to delete.  One      *)
(* action is the code between two awaits.  A request that finds no such row *)
(* is a stuttering step.                                                    *)
(***************************************************************************)
EXTENDS FiniteSets

CONSTANTS
  User, App, Role, Permission,
  Resolver,  \* handlers in resolve, over all replicas
  Admin,     \* handlers of the administration API
  Nothing,   \* no role, user or application
  AppOf      \* AppOf[x]: the application role or permission x belongs to

ASSUME NothingIsNoRole == Nothing \notin Role
ASSUME EachHasAnApp == AppOf \in [Role \cup Permission -> App]

Slot == User \X App
NoSlot == <<Nothing, Nothing>>

VARIABLES
  role,      \* role[r]: "none" before it is created, "deleted" after
  assigned,  \* assigned[s]: the roles of the user in the application
  granted,   \* granted[r]: the permissions of the role
  deleted,   \* the applications that were deleted
  cache,     \* cache[s]: an entry, or Absent
  fill,      \* fill[f]: where resolver f is and what it has read
  adm        \* adm[m]: where administrator m is and what it has read

db == <<role, assigned, granted, deleted>>
cvars == <<role, assigned, granted, deleted, cache, fill, adm>>

Claims == [roles : SUBSET Role, permissions : SUBSET Permission]
NoClaims == [roles |-> {}, permissions |-> {}]

(* An entry has an expiry (EX).  tainted is history: the entry was written  *)
(* from reads that a change overlapped, its claims were changed by a writer *)
(* that invalidates nothing, or the handler that was to delete it died.     *)
Entry == [claims : Claims, expires : BOOLEAN, tainted : BOOLEAN]
Absent == [claims |-> NoClaims, expires |-> FALSE, tainted |-> FALSE]
Cached(s) == cache[s] # Absent

(* overlapped is history: the claims changed after the first read. *)
Fill == [pc : {"idle", "missed", "roles", "grants", "permissions", "write"},
         slot : Slot \cup {NoSlot}, held : SUBSET Role, claims : Claims,
         overlapped : BOOLEAN]
NoFill == [pc |-> "idle", slot |-> NoSlot, held |-> {}, claims |-> NoClaims,
           overlapped |-> FALSE]
Reading == {"roles", "grants", "permissions", "write"}

Work == [pc : {"idle", "remove", "replace", "holders", "invalidate"},
         slot : Slot \cup {NoSlot}, role : Role \cup {Nothing},
         rows : SUBSET Permission, wanted : SUBSET Permission,
         todo : SUBSET User, doomed : SUBSET Slot]
NoWork == [pc |-> "idle", slot |-> NoSlot, role |-> Nothing,
           rows |-> {}, wanted |-> {}, todo |-> {}, doomed |-> {}]

(* The claims the database gives slot s. *)
ClaimsIn(ass, gra, s) ==
  [roles |-> ass[s], permissions |-> UNION {gra[r] : r \in ass[s]}]
Current(s) == ClaimsIn(assigned, granted, s)

(* Administrator m is still going to delete the entry of slot s. *)
Owes(m, s) ==
  \/ adm[m].pc = "holders" /\ adm[m].role \in assigned[s]
  \/ adm[m].pc = "invalidate" /\ (s[1] \in adm[m].todo \/ s \in adm[m].doomed)

-----------------------------------------------------------------------------
CacheTypeOK ==
  /\ role \in [Role -> {"none", "exists", "deleted"}]
  /\ assigned \in [Slot -> SUBSET Role]
  /\ granted \in [Role -> SUBSET Permission]
  /\ deleted \subseteq App
  /\ cache \in [Slot -> Entry]
  /\ fill \in [Resolver -> Fill]
  /\ adm \in [Admin -> Work]

CInit ==
  /\ role = [r \in Role |-> "none"]
  /\ assigned = [s \in Slot |-> {}]
  /\ granted = [r \in Role |-> {}]
  /\ deleted = {}
  /\ cache = [s \in Slot |-> Absent]
  /\ fill = [f \in Resolver |-> NoFill]
  /\ adm = [m \in Admin |-> NoWork]

(* New assignments and grants; the fills they change claims under are noted. *)
ChangeClaims(ass, gra) ==
  /\ assigned' = ass
  /\ granted' = gra
  /\ fill' = [f \in Resolver |->
       IF fill[f].pc \in Reading
          /\ ClaimsIn(ass, gra, fill[f].slot) # Current(fill[f].slot)
       THEN [fill[f] EXCEPT !.overlapped = TRUE] ELSE fill[f]]

(* The same by a writer that invalidates nothing: the entries it leaves     *)
(* behind are noted too.                                                    *)
ChangeSilently(ass, gra) ==
  /\ ChangeClaims(ass, gra)
  /\ cache' = [s \in Slot |->
       IF Cached(s) /\ ClaimsIn(ass, gra, s) # Current(s)
       THEN [cache[s] EXCEPT !.tainted = TRUE] ELSE cache[s]]

-----------------------------------------------------------------------------
(* resolve: the entry is returned, fresh or stale, and nothing changes. *)
Hit(f, s) ==
  /\ fill[f].pc = "idle"
  /\ Cached(s)
  /\ UNCHANGED cvars

(* resolve: the cache has no entry. *)
Miss(f, s) ==
  /\ fill[f].pc = "idle"
  /\ ~Cached(s)
  /\ fill' = [fill EXCEPT ![f] = [NoFill EXCEPT !.pc = "missed", !.slot = s]]
  /\ UNCHANGED <<db, cache, adm>>

(* resolve: the assignments; with none the claims are empty. *)
ReadAssignments(f) ==
  LET held == assigned[fill[f].slot] IN
  /\ fill[f].pc = "missed"
  /\ fill' = [fill EXCEPT ![f].held = held,
                          ![f].pc = IF held = {} THEN "write" ELSE "roles"]
  /\ UNCHANGED <<db, cache, adm>>

ReadRoles(f) ==
  /\ fill[f].pc = "roles"
  /\ fill' = [fill EXCEPT ![f].pc = "grants",
       ![f].claims.roles = {r \in fill[f].held : role[r] = "exists"}]
  /\ UNCHANGED <<db, cache, adm>>

(* resolve: role_permissions; without any the permissions are not read. *)
ReadGrants(f) ==
  LET named == UNION {granted[r] : r \in fill[f].held} IN
  /\ fill[f].pc = "grants"
  /\ fill' = [fill EXCEPT ![f].claims.permissions = named,
                          ![f].pc = IF named = {} THEN "write" ELSE "permissions"]
  /\ UNCHANGED <<db, cache, adm>>

(* resolve: the permissions, which are deleted only with their application. *)
ReadPermissions(f) ==
  /\ fill[f].pc = "permissions"
  /\ fill' = [fill EXCEPT ![f].pc = "write",
       ![f].claims.permissions = {p \in @ : AppOf[p] \notin deleted}]
  /\ UNCHANGED <<db, cache, adm>>

(* Mutant: SET without EX. *)
WriteForever(f) ==
  /\ fill[f].pc = "write"
  /\ cache' = [cache EXCEPT ![fill[f].slot] =
       [claims |-> fill[f].claims, expires |-> FALSE, tainted |-> fill[f].overlapped]]
  /\ fill' = [fill EXCEPT ![f] = NoFill]
  /\ UNCHANGED <<db, adm>>

(* resolve: SET with EX, whatever the key holds by now. *)
Write(f) ==
  /\ fill[f].pc = "write"
  /\ cache' = [cache EXCEPT ![fill[f].slot] =
       [claims |-> fill[f].claims, expires |-> TRUE, tainted |-> fill[f].overlapped]]
  /\ fill' = [fill EXCEPT ![f] = NoFill]
  /\ UNCHANGED <<db, adm>>

-----------------------------------------------------------------------------
CreateRole(r) ==
  /\ role[r] = "none" /\ AppOf[r] \notin deleted
  /\ role' = [role EXCEPT ![r] = "exists"]
  /\ UNCHANGED <<assigned, granted, deleted, cache, fill, adm>>

(* deleteRole: the foreign keys cascade; no entry is invalidated. *)
DeleteRole(r) ==
  /\ role[r] = "exists"
  /\ role' = [role EXCEPT ![r] = "deleted"]
  /\ ChangeSilently([s \in Slot |-> assigned[s] \ {r}], [granted EXCEPT ![r] = {}])
  /\ UNCHANGED <<deleted, adm>>

(* deleteApplication: the rows of the application, its roles and            *)
(* permissions and what refers to them cascade; no entry is invalidated.    *)
DeleteApp(a) ==
  /\ a \notin deleted
  /\ deleted' = deleted \cup {a}
  /\ role' = [r \in Role |->
       IF AppOf[r] = a /\ role[r] = "exists" THEN "deleted" ELSE role[r]]
  /\ ChangeSilently(
       [s \in Slot |-> IF s[2] = a THEN {} ELSE {r \in assigned[s] : AppOf[r] # a}],
       [r \in Role |-> IF AppOf[r] = a THEN {} ELSE {p \in granted[r] : AppOf[p] # a}])
  /\ UNCHANGED adm

(* ensureAdminUser: the seed gives its user its role in the application of  *)
(* the role, unless the assignment is there; no entry is invalidated.       *)
SeedAssign(s, r) ==
  /\ role[r] = "exists" /\ AppOf[r] = s[2]
  /\ r \notin assigned[s]
  /\ ChangeSilently([assigned EXCEPT ![s] = @ \cup {r}], granted)
  /\ UNCHANGED <<role, deleted, adm>>

(* assignRole: insert unless it is there; the user is then invalidated. *)
AssignRole(m, s, r) ==
  /\ adm[m].pc = "idle"
  /\ role[r] = "exists" /\ s[2] \notin deleted
  /\ r \notin assigned[s]
  /\ ChangeClaims([assigned EXCEPT ![s] = @ \cup {r}], granted)
  /\ adm' = [adm EXCEPT ![m] = [NoWork EXCEPT !.pc = "invalidate", !.todo = {s[1]}]]
  /\ UNCHANGED <<role, deleted, cache>>

(* revokeRole: the assignment is found ... *)
FindAssignment(m, s, r) ==
  /\ adm[m].pc = "idle"
  /\ r \in assigned[s]
  /\ adm' = [adm EXCEPT ![m] =
       [NoWork EXCEPT !.pc = "remove", !.slot = s, !.role = r]]
  /\ UNCHANGED <<db, cache, fill>>

(* ... and removed; the user is then invalidated. *)
RemoveAssignment(m) ==
  /\ adm[m].pc = "remove"
  /\ ChangeClaims([assigned EXCEPT ![adm[m].slot] = @ \ {adm[m].role}], granted)
  /\ adm' = [adm EXCEPT ![m] =
       [NoWork EXCEPT !.pc = "invalidate", !.todo = {adm[m].slot[1]}]]
  /\ UNCHANGED <<role, deleted, cache>>

(* setRolePermissions: the rows to replace are read ... *)
FindGrants(m, r, wanted) ==
  /\ adm[m].pc = "idle"
  /\ role[r] = "exists"
  /\ adm' = [adm EXCEPT ![m] =
       [NoWork EXCEPT !.pc = "replace", !.role = r, !.rows = granted[r], !.wanted = wanted]]
  /\ UNCHANGED <<db, cache, fill>>

(* The insert breaks the primary key or the foreign key of a row. *)
ReplaceConflicts(m) ==
  LET r == adm[m].role IN
  \/ (granted[r] \ adm[m].rows) \cap adm[m].wanted # {}
  \/ role[r] # "exists" /\ adm[m].wanted # {}
  \/ \E p \in adm[m].wanted : AppOf[p] \in deleted

(* ... then those rows are deleted and the wanted ones inserted ... *)
ReplaceGrants(m) ==
  /\ adm[m].pc = "replace"
  /\ ~ReplaceConflicts(m)
  /\ ChangeClaims(assigned,
       [granted EXCEPT ![adm[m].role] = (@ \ adm[m].rows) \cup adm[m].wanted])
  /\ adm' = [adm EXCEPT ![m] = [NoWork EXCEPT !.pc = "holders", !.role = adm[m].role]]
  /\ UNCHANGED <<role, deleted, cache>>

ReplaceFails(m) ==
  /\ adm[m].pc = "replace"
  /\ ReplaceConflicts(m)
  /\ adm' = [adm EXCEPT ![m] = NoWork]
  /\ UNCHANGED <<db, cache, fill>>

(* An administrator with users left to look up or keys left to delete. *)
Remaining(todo, doomed) ==
  IF todo = {} /\ doomed = {} THEN NoWork
  ELSE [NoWork EXCEPT !.pc = "invalidate", !.todo = todo, !.doomed = doomed]

(* ... and invalidateRoleHolders looks up who holds the role. *)
FindHolders(m) ==
  /\ adm[m].pc = "holders"
  /\ adm' = [adm EXCEPT ![m] =
       Remaining({s[1] : s \in {t \in Slot : adm[m].role \in assigned[t]}}, {})]
  /\ UNCHANGED <<db, cache, fill>>

(* Mutant: the key of one application is looked up, not of every one. *)
FindOneKey(m, u) ==
  /\ adm[m].pc = "invalidate" /\ u \in adm[m].todo
  /\ \E a \in App :
       adm' = [adm EXCEPT ![m] =
         Remaining(adm[m].todo \ {u},
                   adm[m].doomed \cup {s \in Slot : s = <<u, a>> /\ Cached(s)})]
  /\ UNCHANGED <<db, cache, fill>>

(* invalidateUser: KEYS rbac:*:<user>; the users are handled in parallel. *)
FindKeys(m, u) ==
  /\ adm[m].pc = "invalidate" /\ u \in adm[m].todo
  /\ adm' = [adm EXCEPT ![m] =
       Remaining(adm[m].todo \ {u},
                 adm[m].doomed \cup {s \in Slot : s[1] = u /\ Cached(s)})]
  /\ UNCHANGED <<db, cache, fill>>

(* invalidateUser: DEL of the keys found, whatever they hold by now. *)
DeleteKeys(m, u) ==
  LET keys == {s \in adm[m].doomed : s[1] = u} IN
  /\ adm[m].pc = "invalidate" /\ keys # {}
  /\ cache' = [s \in Slot |-> IF s \in keys THEN Absent ELSE cache[s]]
  /\ adm' = [adm EXCEPT ![m] = Remaining(adm[m].todo, adm[m].doomed \ keys)]
  /\ UNCHANGED <<db, fill>>

-----------------------------------------------------------------------------
(* Redis drops an entry whose time to live has passed. *)
Lapse(s) ==
  /\ Cached(s) /\ cache[s].expires
  /\ cache' = [cache EXCEPT ![s] = Absent]
  /\ UNCHANGED <<db, fill, adm>>

(* An error or a restart ends a handler between two awaits. *)
AbortFill(f) ==
  /\ fill[f].pc # "idle"
  /\ fill' = [fill EXCEPT ![f] = NoFill]
  /\ UNCHANGED <<db, cache, adm>>

(* The entries the administrator was still going to delete are noted. *)
AbortAdmin(m) ==
  /\ adm[m].pc # "idle"
  /\ adm' = [adm EXCEPT ![m] = NoWork]
  /\ cache' = [s \in Slot |-> IF Cached(s) /\ Owes(m, s)
                              THEN [cache[s] EXCEPT !.tainted = TRUE] ELSE cache[s]]
  /\ UNCHANGED <<db, fill>>

FillStep(f) ==
  \/ ReadAssignments(f)
  \/ ReadRoles(f)
  \/ ReadGrants(f)
  \/ ReadPermissions(f)
  \/ Write(f)

AdminStep(m) ==
  \/ RemoveAssignment(m)
  \/ ReplaceGrants(m)
  \/ ReplaceFails(m)
  \/ FindHolders(m)
  \/ \E u \in User : FindKeys(m, u) \/ DeleteKeys(m, u)

Arrive(m) ==
  \/ \E s \in Slot, r \in Role : AssignRole(m, s, r) \/ FindAssignment(m, s, r)
  \/ \E r \in Role, wanted \in SUBSET Permission : FindGrants(m, r, wanted)

CNext ==
  \/ \E f \in Resolver : FillStep(f) \/ AbortFill(f) \/ \E s \in Slot : Hit(f, s) \/ Miss(f, s)
  \/ \E m \in Admin : Arrive(m) \/ AdminStep(m) \/ AbortAdmin(m)
  \/ \E r \in Role : CreateRole(r) \/ DeleteRole(r) \/ \E s \in Slot : SeedAssign(s, r)
  \/ \E a \in App : DeleteApp(a)
  \/ \E s \in Slot : Lapse(s)

CSpec == CInit /\ [][CNext]_cvars

(* The event loop resumes a handler whose query has answered, and Redis     *)
(* drops an entry once its 60 seconds have passed.                          *)
FairSpec ==
  /\ CSpec
  /\ \A f \in Resolver : WF_cvars(FillStep(f))
  /\ \A m \in Admin : WF_cvars(AdminStep(m))
  /\ \A s \in Slot : WF_cvars(Lapse(s))

-----------------------------------------------------------------------------
(* Properties *)

Stale(s) == Cached(s) /\ cache[s].claims # Current(s)

(* An entry that shows claims the database no longer gives is about to be   *)
(* deleted by whoever changed them, unless the change was the deletion of a *)
(* role or of an application or the seed's assignment, which invalidate     *)
(* nothing, or came between the reads of the fill that wrote the entry, or  *)
(* its handler died before the invalidation.                                *)
FreshUnlessTainted ==
  \A s \in Slot : Stale(s) => cache[s].tainted \/ \E m \in Admin : Owes(m, s)

AllFresh == \A s \in Slot : ~Stale(s)

(* Once roles, permissions and assignments stop changing, every entry is    *)
(* in the end fresh for ever, whatever was filled or aborted meanwhile.     *)
EventuallyFresh == <>[][UNCHANGED db]_cvars => <>[]AllFresh
=============================================================================
