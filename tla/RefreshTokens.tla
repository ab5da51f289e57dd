--------------------------- MODULE RefreshTokens ---------------------------
(***************************************************************************)
(* Refresh-token sessions: TokenService.refresh, revokeFamily and           *)
(* revokeRefreshToken, AdminService.revokeAllSessions and the session       *)
(* revocation of RegistrationService.resetPassword, over the refresh_tokens *)
(* table.                                                                   *)
(*                                                                         *)
(* The api runs as several replicas and every handler is a sequence of      *)
(* awaits; one action is the code between two awaits on the database.  The  *)
(* EntityManager is per request: a handler keeps the rows it has read, and  *)
(* flush writes only the columns it changed, by primary key, with no        *)
(* version check.  A handler may therefore write from a row that is stale.  *)
(*                                                                         *)
(* A family (familyId) is named by the token that opened it.  Requests that *)
(* are denied without touching the database are stuttering steps.           *)
(***************************************************************************)
EXTENDS FiniteSets

CONSTANTS
  Token,     \* refresh-token rows that may ever be created
  Request,   \* handlers in flight at once, over all replicas
  User, App,
  None,      \* no token, user or application
  Expirable, \* tokens whose expiresAt may pass within the behaviour
  Mortal     \* handlers that may die at an await (error, pod restart)

ASSUME NoneIsNew == None \notin Token \cup User \cup App
ASSUME ExpirableTokens == Expirable \subseteq Token
ASSUME MortalHandlers == Mortal \subseteq Request

VARIABLES
  status,      \* status[t]: "none" before the insert, "deleted" after a cascade
  row,         \* row[t]: the columns that never change after the insert
  expired,     \* tokens whose expiresAt has passed
  apps,        \* applications that exist
  req,         \* req[r]: where handler r is and what it remembers
  reported,    \* families with a refresh_token.reuse_detected audit row
  raced,       \* history: families in which two refreshes loaded one token
  interfered   \* history: families in which a refresh overlapped a revocation

vars == <<status, row, expired, apps, req, reported, raced, interfered>>

Status == {"none", "active", "rotated", "revoked", "reused", "deleted"}
Unrevoked == {"active", "rotated"}
Handler == [pc : {"idle", "loaded", "mint", "revoke", "flush", "audit"},
            held : Token \cup {None},
            found : SUBSET Token,
            target : {"revoked", "reused"}]
NoRow == [family |-> None, parent |-> None, user |-> None, app |-> None]
Idle == [pc |-> "idle", held |-> None, found |-> {}, target |-> "revoked"]

Born(t) == status[t] # "none"
Family(t) == row[t].family
IsFamily(f) == Family(f) = f
Members(f) == {t \in Token : Family(t) = f}
Busy(pcs) == {r \in Request : req[r].pc \in pcs}

(* A refresh of family f has read an ACTIVE token and not yet answered. *)
InFlight(f) == \E r \in Busy({"loaded", "mint"}) : Family(req[r].held) = f

(* The families a revocation covers: the family of the token it was given,  *)
(* or the families of the rows its query by user returned.                  *)
Covered(held, found) ==
  IF held = None THEN {Family(t) : t \in found} ELSE {Family(held)}

(* UPDATE ... SET status = v WHERE id IN S: a deleted row is not an error. *)
Update(S, v) ==
  [t \in Token |-> IF t \in S /\ status[t] # "deleted" THEN v ELSE status[t]]

Insert(t, columns) ==
  /\ status[t] = "none"
  /\ status' = [status EXCEPT ![t] = "active"]
  /\ row' = [row EXCEPT ![t] = columns]

Goto(r, state) == req' = [req EXCEPT ![r] = state]

-----------------------------------------------------------------------------
TypeOK ==
  /\ status \in [Token -> Status]
  /\ row \in [Token -> [family : Token \cup {None}, parent : Token \cup {None},
                        user : User \cup {None}, app : App \cup {None}]]
  /\ expired \subseteq Token
  /\ apps \subseteq App
  /\ req \in [Request -> Handler]
  /\ reported \subseteq Token
  /\ raced \subseteq Token
  /\ interfered \subseteq Token

Init ==
  /\ status = [t \in Token |-> "none"]
  /\ row = [t \in Token |-> NoRow]
  /\ expired = {}
  /\ apps = App
  /\ req = [r \in Request |-> Idle]
  /\ reported = {} /\ raced = {} /\ interfered = {}

(* A completed login: issueTokenSet with no familyId opens a new family. *)
OpenSession(t, u, a) ==
  /\ a \in apps
  /\ Insert(t, [family |-> t, parent |-> None, user |-> u, app |-> a])
  /\ UNCHANGED <<expired, apps, req, reported, raced, interfered>>

(* Mutant: refresh accepts a row of any status. *)
RefreshLoadAnyStatus(r, t) ==
  /\ req[r].pc = "idle"
  /\ status[t] \notin {"none", "deleted"} /\ t \notin expired
  /\ Goto(r, [Idle EXCEPT !.pc = "loaded", !.held = t])
  /\ UNCHANGED <<status, row, expired, apps, reported, raced, interfered>>

(* refresh: the row is ACTIVE and unexpired.  The history variables note a  *)
(* second refresh of the same row, and a revocation between its read and    *)
(* its write.                                                               *)
RefreshLoad(r, t) ==
  /\ req[r].pc = "idle"
  /\ status[t] = "active"
  /\ t \notin expired
  /\ Goto(r, [Idle EXCEPT !.pc = "loaded", !.held = t])
  /\ raced' = raced \cup
       {f \in {Family(t)} : \E q \in Busy({"loaded"}) : req[q].held = t}
  /\ interfered' = interfered \cup
       {f \in {Family(t)} : \E q \in Busy({"flush"}) :
                               f \in Covered(req[q].held, req[q].found)}
  /\ UNCHANGED <<status, row, expired, apps, reported>>

(* refresh: the row exists and is not ACTIVE, which counts as reuse. *)
RefreshReuse(r, t) ==
  /\ req[r].pc = "idle"
  /\ status[t] \notin {"none", "active", "deleted"}
  /\ Goto(r, [Idle EXCEPT !.pc = "revoke", !.held = t, !.target = "reused"])
  /\ UNCHANGED <<status, row, expired, apps, reported, raced, interfered>>

(* Mutant: refresh mints the successor without consuming the token. *)
FlushRotatedForgotten(r) ==
  /\ req[r].pc = "loaded"
  /\ Goto(r, [req[r] EXCEPT !.pc = "mint"])
  /\ UNCHANGED <<status, row, expired, apps, reported, raced, interfered>>

(* refresh: status := ROTATED is flushed, whatever the row holds by now. *)
FlushRotated(r) ==
  /\ req[r].pc = "loaded"
  /\ status' = Update({req[r].held}, "rotated")
  /\ Goto(r, [req[r] EXCEPT !.pc = "mint"])
  /\ UNCHANGED <<row, expired, apps, reported, raced, interfered>>

(* Mutant: createRefreshToken returns without flushing the insert. *)
MintForgotten(r, t) ==
  /\ req[r].pc = "mint"
  /\ row[req[r].held].app \in apps
  /\ Goto(r, Idle)
  /\ UNCHANGED <<status, row, expired, apps, reported, raced, interfered>>

(* refresh: issueTokenSet inserts the successor in the same family. *)
Mint(r, t) ==
  /\ req[r].pc = "mint"
  /\ row[req[r].held].app \in apps
  /\ Insert(t, [row[req[r].held] EXCEPT !.parent = req[r].held])
  /\ Goto(r, Idle)
  /\ UNCHANGED <<expired, apps, reported, raced, interfered>>

(* refresh: the application is gone and the insert breaks its foreign key. *)
MintFails(r) ==
  /\ req[r].pc = "mint"
  /\ row[req[r].held].app \notin apps
  /\ Goto(r, Idle)
  /\ UNCHANGED <<status, row, expired, apps, reported, raced, interfered>>

(* revokeRefreshToken, from logout or RFC 7009 revocation: findOne by id. *)
RevokeToken(r, t) ==
  /\ req[r].pc = "idle"
  /\ status[t] \notin {"none", "deleted"}
  /\ Goto(r, [Idle EXCEPT !.pc = "revoke", !.held = t])
  /\ UNCHANGED <<status, row, expired, apps, reported, raced, interfered>>

(* Mutant: revokeFamily revokes the presented token only. *)
FindPresentedOnly(r) ==
  /\ req[r].pc = "revoke"
  /\ Goto(r, [req[r] EXCEPT !.pc = "flush", !.found = {req[r].held}])
  /\ interfered' = interfered \cup {g \in {Family(req[r].held)} : InFlight(g)}
  /\ UNCHANGED <<status, row, expired, apps, reported, raced>>

(* revokeFamily: the rows of the family that are ACTIVE or ROTATED. *)
FindFamily(r) ==
  LET f == Family(req[r].held) IN
  /\ req[r].pc = "revoke"
  /\ Goto(r, [req[r] EXCEPT !.pc = "flush",
                            !.found = {t \in Members(f) : status[t] \in Unrevoked}])
  /\ interfered' = interfered \cup {g \in {f} : InFlight(g)}
  /\ UNCHANGED <<status, row, expired, apps, reported, raced>>

(* revokeAllSessions: the rows of the user that are ACTIVE or ROTATED. *)
FindSessions(r, u) ==
  LET found == {t \in Token : row[t].user = u /\ status[t] \in Unrevoked} IN
  /\ req[r].pc = "idle"
  /\ Goto(r, [Idle EXCEPT !.pc = "flush", !.found = found])
  /\ interfered' = interfered \cup {g \in Covered(None, found) : InFlight(g)}
  /\ UNCHANGED <<status, row, expired, apps, reported, raced>>

(* Mutant: the revocation is never flushed. *)
FlushRevokedForgotten(r) ==
  /\ req[r].pc = "flush"
  /\ Goto(r, IF req[r].target = "reused"
             THEN [req[r] EXCEPT !.pc = "audit", !.found = {}] ELSE Idle)
  /\ UNCHANGED <<status, row, expired, apps, reported, raced, interfered>>

(* revokeFamily, revokeAllSessions: every row found is overwritten. *)
FlushRevoked(r) ==
  /\ req[r].pc = "flush"
  /\ status' = Update(req[r].found, req[r].target)
  /\ Goto(r, IF req[r].target = "reused"
             THEN [req[r] EXCEPT !.pc = "audit", !.found = {}] ELSE Idle)
  /\ UNCHANGED <<row, expired, apps, reported, raced, interfered>>

(* refresh: the audit row, best effort (record swallows its errors). *)
AuditReuse(r) ==
  /\ req[r].pc = "audit"
  /\ \/ reported' = reported \cup {Family(req[r].held)}
     \/ UNCHANGED reported
  /\ Goto(r, Idle)
  /\ UNCHANGED <<status, row, expired, apps, raced, interfered>>

(* expiresAt passes; refresh asks only of an ACTIVE row whether it has. *)
Expire(t) ==
  /\ status[t] = "active"
  /\ t \in Expirable \ expired
  /\ expired' = expired \cup {t}
  /\ UNCHANGED <<status, row, apps, req, reported, raced, interfered>>

(* deleteApplication: the foreign key cascades to the refresh tokens. *)
DeleteApp(a) ==
  /\ a \in apps
  /\ apps' = apps \ {a}
  /\ status' = Update({t \in Token : row[t].app = a}, "deleted")
  /\ UNCHANGED <<row, expired, req, reported, raced, interfered>>

(* An error or a restart ends the handler between two awaits. *)
Abort(r) ==
  /\ r \in Mortal
  /\ req[r].pc # "idle"
  /\ Goto(r, Idle)
  /\ UNCHANGED <<status, row, expired, apps, reported, raced, interfered>>

Step(r) ==
  \/ FlushRotated(r)
  \/ \E t \in Token : Mint(r, t)
  \/ MintFails(r)
  \/ FindFamily(r)
  \/ FlushRevoked(r)
  \/ AuditReuse(r)

Arrive(r) ==
  \/ \E t \in Token : RefreshLoad(r, t) \/ RefreshReuse(r, t) \/ RevokeToken(r, t)
  \/ \E u \in User : FindSessions(r, u)

Next ==
  \/ \E t \in Token, u \in User, a \in App : OpenSession(t, u, a)
  \/ \E r \in Request : Arrive(r) \/ Step(r) \/ Abort(r)
  \/ \E t \in Token : Expire(t)
  \/ \E a \in App : DeleteApp(a)

Spec == Init /\ [][Next]_vars

(* The event loop resumes a handler whose query has answered. *)
FairSpec == Spec /\ \A r \in Request : WF_vars(Step(r))

-----------------------------------------------------------------------------
(* Properties *)

Dead(f) ==
  /\ IsFamily(f)
  /\ \A t \in Members(f) : status[t] # "active"
  /\ ~InFlight(f)

(* Refresh tokens are single use: a token has at most one successor, except *)
(* in a family where two refreshes read one ACTIVE row before either wrote. *)
SingleUseUnlessRaced ==
  \A t1, t2 \in Token :
    t1 # t2 /\ row[t1].parent = row[t2].parent /\ row[t1].parent # None
      => Family(t1) \in raced

(* Rotation keeps one usable token per session: two ACTIVE rows of a family *)
(* exist only where two refreshes read one ACTIVE row before either wrote.  *)
OneActiveUnlessRaced ==
  \A t1, t2 \in Token :
    t1 # t2 /\ status[t1] = "active" /\ status[t2] = "active" /\ Family(t1) = Family(t2)
      => Family(t1) \in raced

(* A revocation (logout, reuse response, administrator, password reset)     *)
(* leaves every session it covers dead, unless a refresh overlapped it.     *)
RevocationEndsSessions ==
  [][\A r \in Request : FlushRevoked(r) =>
       \A f \in Covered(req[r].held, req[r].found) \ interfered : Dead(f)']_vars

(* A family the audit log reports as reused has no usable token and gets    *)
(* none later, unless a refresh overlapped the revocation.                  *)
ReportedSessionsAreDead == \A f \in reported \ interfered : Dead(f)

(* Rotation never ends a session by itself: a family with no ACTIVE row and *)
(* no successor about to be inserted holds a row that was revoked, found    *)
(* reused or deleted, where no handler dies between its two writes.         *)
SessionsEndForAReason ==
  Mortal = {} =>
    \A f \in Token :
      /\ IsFamily(f)
      /\ \A t \in Members(f) : status[t] # "active"
      /\ \A r \in Busy({"mint"}) : Family(req[r].held) # f
      => \E t \in Members(f) : status[t] \in {"revoked", "reused", "deleted"}

(* A replayed token ends its session: once a handler that lives to answer   *)
(* has seen a row that is not ACTIVE the family dies, unless a refresh      *)
(* overlaps; other handlers may die.                                        *)
ReplayEndsSession ==
  \A f \in Token :
    (\E r \in Busy({"revoke"}) \ Mortal :
        Family(req[r].held) = f /\ req[r].target = "reused")
      ~> (Dead(f) \/ f \in interfered)

(* Tokens and sessions keep the promise of Sessions: no token is usable     *)
(* again once it was consumed or revoked, and no dead session gets one.     *)
LifeOf(t) ==
  CASE status[t] = "none" -> "unborn"
    [] status[t] = "active" -> "usable"
    [] OTHER -> "spent"

PhaseOf(f) ==
  IF ~IsFamily(f) THEN "unborn" ELSE IF Dead(f) THEN "dead" ELSE "live"

Promise == INSTANCE Sessions WITH
  life <- [t \in Token |-> LifeOf(t)],
  session <- [f \in Token |-> PhaseOf(f)],
  member <- [t \in Token |-> {Family(t)} \ {None}]

PromiseKept == Promise!SSpec
=============================================================================
