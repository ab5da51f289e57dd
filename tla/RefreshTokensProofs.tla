------------------------ MODULE RefreshTokensProofs ------------------------
(***************************************************************************)
(* Theorems about RefreshTokens, for any number of tokens, requests, users  *)
(* and applications, with or without aborts.                                *)
(***************************************************************************)
EXTENDS RefreshTokens, TLAPS

-----------------------------------------------------------------------------
(* What the rows of the table say of each other. *)
RowFacts(t) ==
  /\ ~Born(t) => row[t] = NoRow
  /\ Born(t) =>
       /\ Family(t) \in Token
       /\ Born(Family(t))
       /\ IsFamily(Family(t))
       /\ row[t].user = row[Family(t)].user
       /\ row[t].app = row[Family(t)].app
       /\ row[t].app \in App
       /\ row[t].app \notin apps => status[t] = "deleted"
       /\ row[t].parent # None =>
            /\ Born(row[t].parent)
            /\ Family(row[t].parent) = Family(t)
            /\ status[row[t].parent] # "active"

RowOK == \A t \in Token : RowFacts(t)

(* What a handler remembers of the rows it has read. *)
ReqFacts(r) ==
  /\ req[r].pc \in {"loaded", "mint", "revoke", "audit"} => req[r].held \in Token
  /\ req[r].held \in Token => Born(req[r].held)
  /\ req[r].pc = "flush" /\ req[r].target = "reused" => req[r].held \in Token
  /\ req[r].pc = "mint" => status[req[r].held] # "active"
  /\ \A t \in req[r].found : Born(t)

ReqOK == \A r \in Request : ReqFacts(r)

Base == TypeOK /\ RowOK /\ ReqOK

LEMMA BaseInit == Init => Base
  BY NoneIsNew
  DEF Init, Base, TypeOK, RowOK, RowFacts, ReqOK, ReqFacts, Status, NoRow, Idle,
      Handler, Born, Family, IsFamily

LEMMA GotoType ==
  ASSUME TypeOK, NEW r \in Request, NEW h \in Handler, Goto(r, h)
  PROVE  /\ req' \in [Request -> Handler]
         /\ req'[r] = h
         /\ \A q \in Request \ {r} : req'[q] = req[q]
  BY DEF TypeOK, Goto

LEMMA IdleType == Idle \in Handler
  BY DEF Idle, Handler

(* Every handler step keeps the variables well typed. *)
LEMMA TypeStep == Base /\ [Next]_vars => TypeOK'
<1> SUFFICES ASSUME TypeOK, RowOK, ReqOK, [Next]_vars PROVE TypeOK'
  BY DEF Base
<1>0. Idle \in Handler
  BY IdleType
<1>h. \A r \in Request : /\ req[r] \in Handler
                         /\ req[r].held \in Token \cup {None}
                         /\ req[r].found \in SUBSET Token
                         /\ req[r].target \in {"revoked", "reused"}
  BY DEF TypeOK, Handler
<1>1. ASSUME NEW t \in Token, NEW u \in User, NEW a \in App, OpenSession(t, u, a)
      PROVE  TypeOK'
  BY <1>1 DEF OpenSession, Insert, TypeOK, Status
<1>2. ASSUME NEW r \in Request, NEW t \in Token, RefreshLoad(r, t) PROVE TypeOK'
  <2>1. Family(t) \in Token
    BY <1>2 DEF RefreshLoad, RowOK, RowFacts, Born
  <2>2. [Idle EXCEPT !.pc = "loaded", !.held = t] \in Handler
    BY DEF Idle, Handler
  <2>3. req' \in [Request -> Handler]
    BY <1>2, <2>2, GotoType DEF RefreshLoad
  <2> QED
    BY <1>2, <2>1, <2>3 DEF RefreshLoad, TypeOK
<1>3. ASSUME NEW r \in Request, NEW t \in Token, RefreshReuse(r, t) PROVE TypeOK'
  <2>1. [Idle EXCEPT !.pc = "revoke", !.held = t, !.target = "reused"] \in Handler
    BY DEF Idle, Handler
  <2> QED
    BY <1>3, <2>1, GotoType DEF RefreshReuse, TypeOK
<1>4. ASSUME NEW r \in Request, NEW t \in Token, RevokeToken(r, t) PROVE TypeOK'
  <2>1. [Idle EXCEPT !.pc = "revoke", !.held = t] \in Handler
    BY DEF Idle, Handler
  <2> QED
    BY <1>4, <2>1, GotoType DEF RevokeToken, TypeOK
<1>5. ASSUME NEW r \in Request, NEW u \in User, FindSessions(r, u) PROVE TypeOK'
  <2> DEFINE found == {t \in Token : row[t].user = u /\ status[t] \in Unrevoked}
  <2>1. [Idle EXCEPT !.pc = "flush", !.found = found] \in Handler
    BY DEF Idle, Handler
  <2>2. req' \in [Request -> Handler]
    BY <1>5, <2>1, GotoType DEF FindSessions
  <2>3. Covered(None, found) \subseteq Token
    BY DEF Covered, RowOK, RowFacts, Born, Unrevoked
  <2> QED
    BY <1>5, <2>2, <2>3 DEF FindSessions, TypeOK
<1>6. ASSUME NEW r \in Request, FlushRotated(r) PROVE TypeOK'
  <2>1. [req[r] EXCEPT !.pc = "mint"] \in Handler
    BY <1>h DEF Handler
  <2>2. req' \in [Request -> Handler]
    BY <1>6, <2>1, GotoType DEF FlushRotated
  <2> QED
    BY <1>6, <2>2 DEF FlushRotated, Update, TypeOK, Status
<1>7. ASSUME NEW r \in Request, NEW t \in Token, Mint(r, t) PROVE TypeOK'
  <2>1. req' \in [Request -> Handler]
    BY <1>7, <1>0, GotoType DEF Mint
  <2>2. req[r].held \in Token
    BY <1>7 DEF Mint, ReqOK, ReqFacts
  <2>3. [row[req[r].held] EXCEPT !.parent = req[r].held]
          \in [family : Token \cup {None}, parent : Token \cup {None},
               user : User \cup {None}, app : App \cup {None}]
    BY <2>2 DEF TypeOK
  <2> QED
    BY <1>7, <2>1, <2>3 DEF Mint, Insert, TypeOK, Status
<1>8. ASSUME NEW r \in Request, MintFails(r) PROVE TypeOK'
  BY <1>8, <1>0, GotoType DEF MintFails, TypeOK
<1>9. ASSUME NEW r \in Request, FindFamily(r) PROVE TypeOK'
  <2> DEFINE f == Family(req[r].held)
             found == {t \in Members(f) : status[t] \in Unrevoked}
  <2>1. [req[r] EXCEPT !.pc = "flush", !.found = found] \in Handler
    BY <1>h DEF Handler, Members
  <2>2. req' \in [Request -> Handler]
    BY <1>9, <2>1, GotoType DEF FindFamily
  <2>3. f \in Token
    BY <1>9 DEF FindFamily, ReqOK, ReqFacts, RowOK, RowFacts
  <2> QED
    BY <1>9, <2>2, <2>3 DEF FindFamily, TypeOK
<1>10. ASSUME NEW r \in Request, FlushRevoked(r) PROVE TypeOK'
  <2>1. [req[r] EXCEPT !.pc = "audit", !.found = {}] \in Handler
    BY <1>h DEF Handler
  <2>2. req' \in [Request -> Handler]
    BY <1>10, <1>0, <2>1, GotoType DEF FlushRevoked
  <2> QED
    BY <1>10, <1>h, <2>2 DEF FlushRevoked, Update, TypeOK, Status
<1>11. ASSUME NEW r \in Request, AuditReuse(r) PROVE TypeOK'
  <2>1. Family(req[r].held) \in Token
    BY <1>11 DEF AuditReuse, ReqOK, ReqFacts, RowOK, RowFacts
  <2> QED
    BY <1>11, <1>0, <2>1, GotoType DEF AuditReuse, TypeOK
<1>12. ASSUME NEW r \in Request, Abort(r) PROVE TypeOK'
  BY <1>12, <1>0, GotoType DEF Abort, TypeOK
<1>13. ASSUME NEW t \in Token, Expire(t) PROVE TypeOK'
  BY <1>13 DEF Expire, TypeOK
<1>14. ASSUME NEW a \in App, DeleteApp(a) PROVE TypeOK'
  BY <1>14 DEF DeleteApp, Update, TypeOK, Status
<1>15. CASE UNCHANGED vars
  BY <1>15 DEF vars, TypeOK
<1> QED
  BY <1>1, <1>2, <1>3, <1>4, <1>5, <1>6, <1>7, <1>8, <1>9, <1>10, <1>11, <1>12,
     <1>13, <1>14, <1>15 DEF Next, Arrive, Step

-----------------------------------------------------------------------------
(* What an INSERT of row x leaves of the other rows. *)
LEMMA InsertFacts ==
  ASSUME TypeOK, NEW x \in Token, NEW c, Insert(x, c)
  PROVE  /\ status'[x] = "active" /\ row'[x] = c
         /\ ~Born(x) /\ Born(x)'
         /\ \A t \in Token \ {x} : status'[t] = status[t] /\ row'[t] = row[t]
  BY DEF TypeOK, Insert, Born

LEMMA RowStep == Base /\ [Next]_vars => RowOK'
<1> SUFFICES ASSUME TypeOK, RowOK, ReqOK, [Next]_vars PROVE RowOK'
  BY DEF Base
<1>k. ASSUME UNCHANGED <<row, apps>>,
             \A t \in Token : /\ Born(t) <=> Born(t)'
                              /\ status'[t] = "active" => status[t] = "active"
                              /\ status[t] = "deleted" => status'[t] = "deleted"
      PROVE  RowOK'
  BY <1>k DEF RowOK, RowFacts, Family, IsFamily, TypeOK
<1>s. ASSUME UNCHANGED <<status, row, apps>> PROVE RowOK'
  BY <1>s, <1>k DEF Born
<1>1. ASSUME NEW t \in Token, NEW u \in User, NEW a \in App, OpenSession(t, u, a)
      PROVE  RowOK'
  <2>1. /\ status'[t] = "active"
        /\ row'[t] = [family |-> t, parent |-> None, user |-> u, app |-> a]
        /\ ~Born(t) /\ Born(t)'
        /\ \A x \in Token \ {t} : status'[x] = status[x] /\ row'[x] = row[x]
        /\ apps' = apps /\ a \in apps
    BY <1>1, InsertFacts DEF OpenSession
  <2>2. RowFacts(t)'
    BY <2>1, NoneIsNew DEF RowFacts, Family, IsFamily, Born
  <2>3. ASSUME NEW x \in Token \ {t} PROVE RowFacts(x)'
    <3>1. RowFacts(x) /\ x \in Token
      BY DEF RowOK
    <3>2. Born(x) => Family(x) # t
      BY <2>1, <3>1 DEF RowFacts
    <3>3. Born(x) /\ row[x].parent # None => row[x].parent # t /\ row[x].parent \in Token
      BY <2>1, <3>1 DEF RowFacts, TypeOK
    <3> QED
      BY <2>1, <3>1, <3>2, <3>3 DEF RowFacts, Family, IsFamily, Born
  <2> QED
    BY <2>2, <2>3 DEF RowOK
<1>2. ASSUME NEW r \in Request, FlushRotated(r) PROVE RowOK'
  <2>1. req[r].held \in Token /\ Born(req[r].held)
    BY <1>2 DEF FlushRotated, ReqOK, ReqFacts
  <2> QED
    BY <1>2, <1>k, <2>1 DEF FlushRotated, Update, Born, TypeOK
<1>3. ASSUME NEW r \in Request, NEW t \in Token, Mint(r, t) PROVE RowOK'
  <2> DEFINE p == req[r].held
  <2>1. p \in Token /\ Born(p) /\ status[p] # "active"
    BY <1>3 DEF Mint, ReqOK, ReqFacts
  <2>2. /\ status'[t] = "active"
        /\ row'[t] = [row[p] EXCEPT !.parent = p]
        /\ ~Born(t) /\ Born(t)'
        /\ \A x \in Token \ {t} : status'[x] = status[x] /\ row'[x] = row[x]
        /\ apps' = apps /\ row[p].app \in apps
    BY <1>3, InsertFacts DEF Mint
  <2>3. /\ row'[t].family = Family(p) /\ row'[t].parent = p
        /\ row'[t].user = row[p].user /\ row'[t].app = row[p].app
    BY <2>1, <2>2 DEF TypeOK, Family
  <2>f. RowFacts(p) /\ Family(p) \in Token /\ Family(p) # t /\ p # t
    BY <2>1, <2>2 DEF RowOK, RowFacts
  <2>4. RowFacts(t)'
    BY <2>1, <2>2, <2>3, <2>f DEF RowFacts, Family, IsFamily, Born
  <2>5. ASSUME NEW x \in Token \ {t} PROVE RowFacts(x)'
    <3>1. RowFacts(x) /\ x \in Token
      BY DEF RowOK
    <3>2. Born(x) => Family(x) # t
      BY <2>2, <3>1 DEF RowFacts
    <3>3. Born(x) /\ row[x].parent # None => row[x].parent # t /\ row[x].parent \in Token
      BY <2>2, <3>1 DEF RowFacts, TypeOK
    <3> QED
      BY <2>2, <3>1, <3>2, <3>3 DEF RowFacts, Family, IsFamily, Born
  <2> QED
    BY <2>4, <2>5 DEF RowOK
<1>4. ASSUME NEW r \in Request, FlushRevoked(r) PROVE RowOK'
  <2>1. \A t \in req[r].found : Born(t)
    BY DEF ReqOK, ReqFacts
  <2>2. req[r].target \in {"revoked", "reused"}
    BY DEF TypeOK, Handler
  <2> QED
    BY <1>4, <1>k, <2>1, <2>2 DEF FlushRevoked, Update, Born, TypeOK
<1>5. ASSUME NEW a \in App, DeleteApp(a) PROVE RowOK'
  <2>1. \A t \in Token : row[t].app = a => Born(t)
    BY NoneIsNew DEF RowOK, RowFacts, NoRow
  <2>2. /\ \A t \in Token : status'[t] = IF row[t].app = a THEN "deleted" ELSE status[t]
        /\ row' = row /\ apps' = apps \ {a}
    BY <1>5 DEF DeleteApp, Update, TypeOK
  <2>3. ASSUME NEW x \in Token PROVE RowFacts(x)'
    <3>1. RowFacts(x)
      BY DEF RowOK
    <3>2. Born(x) /\ row[x].parent # None => row[x].parent \in Token
      BY DEF TypeOK
    <3> QED
      BY <2>1, <2>2, <3>1, <3>2 DEF RowFacts, Family, IsFamily, Born
  <2> QED
    BY <2>3 DEF RowOK
<1>6. CASE UNCHANGED vars
  BY <1>6, <1>s DEF vars
<1> QED
  BY <1>s, <1>1, <1>2, <1>3, <1>4, <1>5, <1>6
  DEF Next, Arrive, Step, RefreshLoad, RefreshReuse, RevokeToken, FindSessions,
      MintFails, FindFamily, AuditReuse, Abort, Expire

LEMMA ReqStep == Base /\ [Next]_vars => ReqOK'
<1> SUFFICES ASSUME TypeOK, RowOK, ReqOK, [Next]_vars PROVE ReqOK'
  BY DEF Base
<1>k. ASSUME UNCHANGED req,
             \A t \in Token : /\ Born(t) => Born(t)'
                              /\ Born(t) /\ status'[t] = "active" => status[t] = "active"
      PROVE  ReqOK'
  BY <1>k DEF ReqOK, ReqFacts, TypeOK, Handler
<1>g. ASSUME NEW r \in Request, NEW h \in Handler, Goto(r, h), UNCHANGED status,
             h.pc \in {"loaded", "mint", "revoke", "audit"} => h.held \in Token,
             h.held \in Token => Born(h.held),
             h.pc = "flush" /\ h.target = "reused" => h.held \in Token,
             h.pc # "mint",
             \A t \in h.found : Born(t)
      PROVE  ReqOK'
  BY <1>g, GotoType DEF ReqOK, ReqFacts, TypeOK, Handler, Born
<1>0. Idle \in Handler
  BY IdleType
<1>h. \A r \in Request : req[r] \in Handler
  BY DEF TypeOK
<1>i. ASSUME NEW r \in Request, Goto(r, Idle), UNCHANGED status PROVE ReqOK'
  BY <1>i, <1>g, <1>0, NoneIsNew DEF Idle
<1>1. ASSUME NEW t \in Token, NEW u \in User, NEW a \in App, OpenSession(t, u, a)
      PROVE  ReqOK'
  BY <1>1, <1>k, InsertFacts DEF OpenSession, Born
<1>2. ASSUME NEW r \in Request, NEW t \in Token, RefreshLoad(r, t) PROVE ReqOK'
  <2>1. [Idle EXCEPT !.pc = "loaded", !.held = t] \in Handler
    BY DEF Idle, Handler
  <2> QED
    BY <1>2, <1>g, <2>1 DEF RefreshLoad, Idle, Born
<1>3. ASSUME NEW r \in Request, NEW t \in Token, RefreshReuse(r, t) PROVE ReqOK'
  <2>1. [Idle EXCEPT !.pc = "revoke", !.held = t, !.target = "reused"] \in Handler
    BY DEF Idle, Handler
  <2> QED
    BY <1>3, <1>g, <2>1 DEF RefreshReuse, Idle, Born
<1>4. ASSUME NEW r \in Request, NEW t \in Token, RevokeToken(r, t) PROVE ReqOK'
  <2>1. [Idle EXCEPT !.pc = "revoke", !.held = t] \in Handler
    BY DEF Idle, Handler
  <2> QED
    BY <1>4, <1>g, <2>1 DEF RevokeToken, Idle, Born
<1>5. ASSUME NEW r \in Request, NEW u \in User, FindSessions(r, u) PROVE ReqOK'
  <2> DEFINE found == {t \in Token : row[t].user = u /\ status[t] \in Unrevoked}
  <2>1. [Idle EXCEPT !.pc = "flush", !.found = found] \in Handler
    BY DEF Idle, Handler
  <2> QED
    BY <1>5, <1>g, <2>1, NoneIsNew DEF FindSessions, Idle, Born, Unrevoked
<1>6. ASSUME NEW r \in Request, FlushRotated(r) PROVE ReqOK'
  <2>1. req[r].held \in Token /\ Born(req[r].held)
    BY <1>6 DEF FlushRotated, ReqOK, ReqFacts
  <2>2. [req[r] EXCEPT !.pc = "mint"] \in Handler
    BY <1>h DEF Handler
  <2>3. /\ \A q \in Request \ {r} : req'[q] = req[q]
        /\ req'[r] = [req[r] EXCEPT !.pc = "mint"]
    BY <1>6, <2>2, GotoType DEF FlushRotated
  <2>4. /\ status'[req[r].held] # "active"
        /\ \A t \in Token : /\ Born(t) => Born(t)'
                            /\ status'[t] = "active" => status[t] = "active"
    BY <1>6, <2>1 DEF FlushRotated, Update, TypeOK, Born
  <2>5. ReqFacts(r)'
    <3>1. /\ req'[r].pc = "mint" /\ req'[r].held = req[r].held
          /\ req'[r].found = req[r].found
      BY <2>3, <1>h DEF Handler
    <3>2. ReqFacts(r)
      BY DEF ReqOK
    <3> QED
      BY <2>1, <2>4, <3>1, <3>2, <1>h DEF ReqFacts, Handler
  <2>6. ASSUME NEW q \in Request \ {r} PROVE ReqFacts(q)'
    <3>1. ReqFacts(q) /\ req'[q] = req[q] /\ req[q] \in Handler
      BY <2>3, <1>h DEF ReqOK
    <3> QED
      BY <2>4, <3>1 DEF ReqFacts, Handler
  <2> QED
    BY <2>5, <2>6 DEF ReqOK
<1>7. ASSUME NEW r \in Request, NEW t \in Token, Mint(r, t) PROVE ReqOK'
  <2>1. \A x \in Token : /\ Born(x) => Born(x)' /\ status'[x] = status[x]
    BY <1>7, InsertFacts DEF Mint, Born
  <2>2. req'[r] = Idle /\ \A q \in Request \ {r} : req'[q] = req[q]
    BY <1>7, <1>0, GotoType DEF Mint
  <2> QED
    BY <2>1, <2>2, <1>h, NoneIsNew DEF ReqOK, ReqFacts, Handler, Idle
<1>8. ASSUME NEW r \in Request, FindFamily(r) PROVE ReqOK'
  <2> DEFINE found == {t \in Members(Family(req[r].held)) : status[t] \in Unrevoked}
             h == [req[r] EXCEPT !.pc = "flush", !.found = found]
  <2>1. h \in Handler
    BY <1>h DEF Handler, Members
  <2>2. /\ h.pc = "flush" /\ h.found = found /\ h.held = req[r].held
    BY <1>h DEF Handler
  <2>3. h.held \in Token /\ Born(h.held)
    BY <1>8, <2>2 DEF FindFamily, ReqOK, ReqFacts
  <2>4. \A t \in found : Born(t)
    BY DEF Born, Unrevoked
  <2> HIDE DEF found, h
  <2> QED
    BY <1>8, <1>g, <2>1, <2>2, <2>3, <2>4 DEF FindFamily, found, h
<1>9. ASSUME NEW r \in Request, FlushRevoked(r) PROVE ReqOK'
  <2>1. req[r].target \in {"revoked", "reused"} /\ \A t \in req[r].found : Born(t)
    BY <1>h DEF Handler, ReqOK, ReqFacts
  <2>2. [req[r] EXCEPT !.pc = "audit", !.found = {}] \in Handler
    BY <1>h DEF Handler
  <2>3. \A t \in Token : /\ Born(t) => Born(t)'
                         /\ status'[t] = "active" => status[t] = "active"
    BY <1>9, <2>1 DEF FlushRevoked, Update, TypeOK, Born
  <2>4. /\ \A q \in Request \ {r} : req'[q] = req[q]
        /\ req'[r] = IF req[r].target = "reused"
                     THEN [req[r] EXCEPT !.pc = "audit", !.found = {}] ELSE Idle
    BY <1>9, <1>0, <2>2, GotoType DEF FlushRevoked
  <2>5. /\ req[r].target = "reused" => req[r].held \in Token
        /\ req[r].held \in Token => Born(req[r].held)
    BY <1>9 DEF FlushRevoked, ReqOK, ReqFacts
  <2>6. ReqFacts(r)'
    <3>1. CASE req[r].target = "reused"
      <4>1. /\ req'[r].pc = "audit" /\ req'[r].held = req[r].held
            /\ req'[r].found = {}
        BY <2>4, <3>1, <1>h DEF Handler
      <4> QED
        BY <2>3, <2>5, <3>1, <4>1 DEF ReqFacts
    <3>2. CASE req[r].target # "reused"
      BY <2>4, <3>2, NoneIsNew DEF ReqFacts, Idle
    <3> QED
      BY <3>1, <3>2
  <2>7. ASSUME NEW q \in Request \ {r} PROVE ReqFacts(q)'
    <3>1. ReqFacts(q) /\ req'[q] = req[q] /\ req[q] \in Handler
      BY <2>4, <1>h DEF ReqOK
    <3> QED
      BY <2>3, <3>1 DEF ReqFacts, Handler
  <2> QED
    BY <2>6, <2>7 DEF ReqOK
<1>10. ASSUME NEW a \in App, DeleteApp(a) PROVE ReqOK'
  BY <1>10, <1>k DEF DeleteApp, Update, TypeOK, Born
<1>11. ASSUME NEW t \in Token, Expire(t) PROVE ReqOK'
  BY <1>11, <1>k DEF Expire, Born
<1>12. CASE UNCHANGED vars
  BY <1>12, <1>k DEF vars, Born
<1> QED
  BY <1>i, <1>1, <1>2, <1>3, <1>4, <1>5, <1>6, <1>7, <1>8, <1>9, <1>10, <1>11, <1>12
  DEF Next, Arrive, Step, MintFails, AuditReuse, Abort

(* Every reachable state is well typed. *)
THEOREM TypeCorrect == Spec => []TypeOK
<1>1. Base /\ [Next]_vars => Base'
  BY TypeStep, RowStep, ReqStep DEF Base
<1>2. Base => TypeOK
  BY DEF Base
<1> QED
  BY BaseInit, <1>1, <1>2, PTL DEF Spec

LEMMA BaseInvariant == Spec => []Base
<1>1. Base /\ [Next]_vars => Base'
  BY TypeStep, RowStep, ReqStep DEF Base
<1> QED
  BY BaseInit, <1>1, PTL DEF Spec

-----------------------------------------------------------------------------
(* A step that inserts nothing, writes no row but to end it, and starts or  *)
(* advances no refresh: revocations, denials, expiry, deletion, aborts.     *)
Refreshing == {"loaded", "mint"}
Ended == {"revoked", "reused", "deleted"}

Quiet ==
  /\ row' = row
  /\ raced' = raced
  /\ \A t \in Token : /\ status'[t] = status[t] \/ status'[t] \in Ended
                      /\ status'[t] = "active" => status[t] = "active"
                      /\ Born(t)' <=> Born(t)
  /\ \A r \in Request :
       /\ req'[r].pc \in Refreshing => req'[r] = req[r]
       /\ req[r].pc = "mint" =>
            req'[r] = req[r] \/ r \in Mortal \/ row[req[r].held].app \notin apps

LEMMA StepKinds ==
  ASSUME Base, [Next]_vars
  PROVE  \/ \E t \in Token, u \in User, a \in App : OpenSession(t, u, a)
         \/ \E r \in Request, t \in Token : RefreshLoad(r, t)
         \/ \E r \in Request : FlushRotated(r)
         \/ \E r \in Request, t \in Token : Mint(r, t)
         \/ Quiet
<1> USE DEF Base, Refreshing, Ended
<1>0. Idle \in Handler /\ \A r \in Request : req[r] \in Handler
  BY IdleType DEF TypeOK
<1>g. ASSUME NEW r \in Request, NEW h \in Handler, Goto(r, h), h.pc \notin Refreshing,
             row' = row, raced' = raced, UNCHANGED status,
             req[r].pc = "mint" => r \in Mortal \/ row[req[r].held].app \notin apps
      PROVE  Quiet
  BY <1>g, GotoType DEF Quiet, Born
<1>i. ASSUME NEW r \in Request, Goto(r, Idle), row' = row, raced' = raced,
             UNCHANGED status,
             req[r].pc = "mint" => r \in Mortal \/ row[req[r].held].app \notin apps
      PROVE  Quiet
  BY <1>i, <1>g, <1>0 DEF Idle
<1>1. ASSUME NEW r \in Request, NEW t \in Token, RefreshReuse(r, t) PROVE Quiet
  <2>1. [Idle EXCEPT !.pc = "revoke", !.held = t, !.target = "reused"] \in Handler
    BY DEF Idle, Handler
  <2> QED
    BY <1>1, <1>g, <2>1 DEF RefreshReuse, Idle
<1>2. ASSUME NEW r \in Request, NEW t \in Token, RevokeToken(r, t) PROVE Quiet
  <2>1. [Idle EXCEPT !.pc = "revoke", !.held = t] \in Handler
    BY DEF Idle, Handler
  <2> QED
    BY <1>2, <1>g, <2>1 DEF RevokeToken, Idle
<1>3. ASSUME NEW r \in Request, NEW u \in User, FindSessions(r, u) PROVE Quiet
  <2> DEFINE found == {t \in Token : row[t].user = u /\ status[t] \in Unrevoked}
  <2>1. [Idle EXCEPT !.pc = "flush", !.found = found] \in Handler
    BY DEF Idle, Handler
  <2> QED
    BY <1>3, <1>g, <2>1 DEF FindSessions, Idle
<1>4. ASSUME NEW r \in Request, FindFamily(r) PROVE Quiet
  <2> DEFINE found == {t \in Members(Family(req[r].held)) : status[t] \in Unrevoked}
             h == [req[r] EXCEPT !.pc = "flush", !.found = found]
  <2>1. h \in Handler
    BY <1>0 DEF Handler, Members
  <2>2. h.pc = "flush"
    BY <1>0 DEF Handler
  <2> HIDE DEF found, h
  <2> QED
    BY <1>4, <1>g, <2>1, <2>2 DEF FindFamily, found, h
<1>5. ASSUME NEW r \in Request, FlushRevoked(r) PROVE Quiet
  <2>1. req[r].target \in {"revoked", "reused"} /\ \A t \in req[r].found : Born(t)
    BY <1>0 DEF Handler, ReqOK, ReqFacts
  <2>2. /\ [req[r] EXCEPT !.pc = "audit", !.found = {}] \in Handler
        /\ [req[r] EXCEPT !.pc = "audit", !.found = {}].pc = "audit"
    BY <1>0 DEF Handler
  <2>3. \A t \in Token : /\ status'[t] = status[t] \/ status'[t] \in Ended
                         /\ status'[t] = "active" => status[t] = "active"
                         /\ Born(t)' <=> Born(t)
    BY <1>5, <2>1 DEF FlushRevoked, Update, TypeOK, Born
  <2>4. /\ \A q \in Request \ {r} : req'[q] = req[q]
        /\ req'[r].pc \notin Refreshing
    <3> DEFINE h == IF req[r].target = "reused"
                    THEN [req[r] EXCEPT !.pc = "audit", !.found = {}] ELSE Idle
    <3>1. h \in Handler /\ h.pc \notin Refreshing
      BY <1>0, <2>2 DEF Idle
    <3>2. Goto(r, h)
      BY <1>5 DEF FlushRevoked
    <3> HIDE DEF h
    <3> QED
      BY <3>1, <3>2, GotoType
  <2> QED
    BY <1>5, <2>3, <2>4 DEF Quiet, FlushRevoked
<1>6. ASSUME NEW a \in App, DeleteApp(a) PROVE Quiet
  <2>1. \A t \in Token : row[t].app = a => Born(t)
    BY NoneIsNew DEF RowOK, RowFacts, NoRow
  <2> QED
    BY <1>6, <2>1 DEF DeleteApp, Update, TypeOK, Born, Quiet
<1>7. ASSUME NEW t \in Token, Expire(t) PROVE Quiet
  BY <1>7 DEF Expire, Quiet, Born
<1>8. CASE UNCHANGED vars
  BY <1>8 DEF vars, Quiet, Born
<1> QED
  BY <1>i, <1>1, <1>2, <1>3, <1>4, <1>5, <1>6, <1>7, <1>8
  DEF Next, Arrive, Step, MintFails, AuditReuse, Abort

-----------------------------------------------------------------------------
(* In a family where no two refreshes loaded one token, at most one of these *)
(* exists: an ACTIVE row, or a refresh about to insert one; a refresh that   *)
(* has loaded a row is alone and no other row is ACTIVE; and a consumed      *)
(* token has one successor or one refresh still holding it, never both.      *)
UnracedRow(t1, t2) ==
  Family(t1) = Family(t2) /\ Family(t1) \notin raced =>
    /\ t1 # t2 => ~(status[t1] = "active" /\ status[t2] = "active")
    /\ t1 # t2 /\ row[t1].parent = row[t2].parent => row[t1].parent = None

UnracedReqRow(r, t) ==
  req[r].pc \in Refreshing /\ Family(req[r].held) = Family(t) /\ Family(t) \notin raced =>
    /\ status[t] = "active" => req[r].pc = "loaded" /\ req[r].held = t
    /\ row[t].parent # req[r].held

UnracedReq(r1, r2) ==
  /\ r1 # r2
  /\ req[r1].pc \in Refreshing /\ req[r2].pc \in Refreshing
  /\ Family(req[r1].held) = Family(req[r2].held)
  => Family(req[r1].held) \in raced

Unraced ==
  /\ \A t1, t2 \in Token : UnracedRow(t1, t2)
  /\ \A r \in Request, t \in Token : UnracedReqRow(r, t)
  /\ \A r1, r2 \in Request : UnracedReq(r1, r2)

LEMMA UnracedInit == Init => Unraced
  BY DEF Init, Unraced, UnracedRow, UnracedReqRow, UnracedReq, NoRow, Idle, Refreshing

LEMMA UnracedQuiet == Base /\ Unraced /\ Quiet => Unraced'
<1> SUFFICES ASSUME Base, Unraced, Quiet PROVE Unraced'
  OBVIOUS
<1>1. ASSUME NEW t1 \in Token, NEW t2 \in Token PROVE UnracedRow(t1, t2)'
  BY DEF Quiet, Unraced, UnracedRow, Family
<1>2. ASSUME NEW r \in Request, NEW t \in Token PROVE UnracedReqRow(r, t)'
  BY DEF Quiet, Unraced, UnracedReqRow, Family
<1>3. ASSUME NEW r1 \in Request, NEW r2 \in Request PROVE UnracedReq(r1, r2)'
  BY DEF Quiet, Unraced, UnracedReq, Family
<1> QED
  BY <1>1, <1>2, <1>3 DEF Unraced

LEMMA UnracedOpen ==
  ASSUME Base, Unraced, NEW t \in Token, NEW u \in User, NEW a \in App,
         OpenSession(t, u, a)
  PROVE  Unraced'
<1>1. /\ status'[t] = "active"
      /\ row'[t].family = t /\ row'[t].parent = None
      /\ ~Born(t)
      /\ \A x \in Token \ {t} : status'[x] = status[x] /\ row'[x] = row[x]
      /\ req' = req /\ raced' = raced
  BY InsertFacts DEF OpenSession, Base
<1>2. \A x \in Token : Family(x) # t
  BY <1>1, NoneIsNew DEF Base, RowOK, RowFacts, NoRow, Family
<1>3. \A r \in Request : req[r].pc \in Refreshing => req[r].held \in Token \ {t}
  BY <1>1 DEF Base, ReqOK, ReqFacts, Refreshing
<1>4. ASSUME NEW x \in Token, NEW y \in Token PROVE UnracedRow(x, y)'
  BY <1>1, <1>2, UnracedRow(x, y), UnracedRow(y, x) DEF Unraced, UnracedRow, Family
<1>5. ASSUME NEW r \in Request, NEW x \in Token PROVE UnracedReqRow(r, x)'
  BY <1>1, <1>2, <1>3 DEF Unraced, UnracedReqRow, Family
<1>6. ASSUME NEW r1 \in Request, NEW r2 \in Request PROVE UnracedReq(r1, r2)'
  BY <1>1, <1>3 DEF Unraced, UnracedReq, Family
<1> QED
  BY <1>4, <1>5, <1>6 DEF Unraced

LEMMA UnracedLoad ==
  ASSUME Base, Unraced, NEW r \in Request, NEW t \in Token, RefreshLoad(r, t)
  PROVE  Unraced'
<1> DEFINE h == [Idle EXCEPT !.pc = "loaded", !.held = t]
<1>1. h \in Handler /\ h.pc = "loaded" /\ h.held = t
  BY DEF Idle, Handler
<1>2. /\ req'[r] = h
      /\ \A q \in Request \ {r} : req'[q] = req[q]
      /\ status' = status /\ row' = row
      /\ status[t] = "active"
      /\ raced \subseteq raced'
      /\ \A q \in Request : req[q].pc = "loaded" /\ req[q].held = t => Family(t) \in raced'
  BY <1>1, GotoType DEF RefreshLoad, Base, Busy
<1> HIDE DEF h
<1>3. ASSUME NEW x \in Token, NEW y \in Token PROVE UnracedRow(x, y)'
  BY <1>2 DEF Unraced, UnracedRow, Family
<1>4. ASSUME NEW q \in Request, NEW x \in Token PROVE UnracedReqRow(q, x)'
  <2>1. row[x].parent = t => Born(x)
    BY NoneIsNew DEF Base, RowOK, RowFacts, NoRow
  <2>2. row[x].parent # t
    BY <1>2, <2>1, NoneIsNew DEF Base, RowOK, RowFacts
  <2>3. Family(x) = Family(t) /\ status[x] = "active" /\ Family(t) \notin raced => x = t
    BY <1>2 DEF Unraced, UnracedRow
  <2>4. CASE q = r
    BY <1>1, <1>2, <2>2, <2>3, <2>4 DEF UnracedReqRow, Family
  <2>5. CASE q # r
    BY <1>2, <2>5 DEF Unraced, UnracedReqRow, Family
  <2> QED
    BY <2>4, <2>5
<1>5. ASSUME NEW q \in Request \ {r}, req[q].pc \in Refreshing,
             Family(req[q].held) = Family(t)
      PROVE  Family(t) \in raced'
  <2>1. Family(t) \notin raced => req[q].pc = "loaded" /\ req[q].held = t
    BY <1>2, <1>5 DEF Unraced, UnracedReqRow
  <2> QED
    BY <1>2, <2>1
<1>6. ASSUME NEW r1 \in Request, NEW r2 \in Request PROVE UnracedReq(r1, r2)'
  BY <1>1, <1>2, <1>5 DEF Unraced, UnracedReq, Family
<1> QED
  BY <1>3, <1>4, <1>6 DEF Unraced

LEMMA UnracedRotate ==
  ASSUME Base, Unraced, NEW r \in Request, FlushRotated(r)
  PROVE  Unraced'
<1> DEFINE p == req[r].held
<1>0. req[r] \in Handler /\ p \in Token
  BY DEF FlushRotated, Base, TypeOK, ReqOK, ReqFacts
<1>1. /\ [req[r] EXCEPT !.pc = "mint"] \in Handler
      /\ [req[r] EXCEPT !.pc = "mint"].pc = "mint"
      /\ [req[r] EXCEPT !.pc = "mint"].held = p
  BY <1>0 DEF Handler
<1>2. /\ req[r].pc = "loaded"
      /\ req'[r].pc = "mint" /\ req'[r].held = p
      /\ \A q \in Request \ {r} : req'[q] = req[q]
      /\ row' = row /\ raced' = raced
  BY <1>1, GotoType DEF FlushRotated, Base
<1>3. /\ status'[p] # "active"
      /\ \A t \in Token : status'[t] = "active" => status[t] = "active"
  BY <1>0 DEF FlushRotated, Update, Base, TypeOK
<1>4. ASSUME NEW x \in Token, NEW y \in Token PROVE UnracedRow(x, y)'
  BY <1>2, <1>3 DEF Unraced, UnracedRow, Family
<1>5. ASSUME NEW q \in Request, NEW x \in Token PROVE UnracedReqRow(q, x)'
  <2>1. UnracedReqRow(q, x) /\ UnracedReqRow(r, x)
    BY DEF Unraced
  <2> QED
    BY <1>2, <1>3, <2>1 DEF UnracedReqRow, Family, Refreshing
<1>6. ASSUME NEW r1 \in Request, NEW r2 \in Request PROVE UnracedReq(r1, r2)'
  <2>1. UnracedReq(r1, r2)
    BY DEF Unraced
  <2> QED
    BY <1>2, <2>1 DEF UnracedReq, Family, Refreshing
<1> QED
  BY <1>4, <1>5, <1>6 DEF Unraced

LEMMA UnracedMint ==
  ASSUME Base, Unraced, NEW r \in Request, NEW t \in Token, Mint(r, t)
  PROVE  Unraced'
<1> DEFINE p == req[r].held
<1>0. /\ req[r].pc = "mint" /\ p \in Token /\ Born(p) /\ p # t
      /\ row[p] \in [family : Token \cup {None}, parent : Token \cup {None},
                     user : User \cup {None}, app : App \cup {None}]
  BY InsertFacts DEF Mint, Base, TypeOK, ReqOK, ReqFacts
<1>1. /\ status'[t] = "active"
      /\ row'[t].family = Family(p) /\ row'[t].parent = p
      /\ ~Born(t)
      /\ \A x \in Token \ {t} : status'[x] = status[x] /\ row'[x] = row[x]
      /\ raced' = raced
  BY <1>0, InsertFacts DEF Mint, Base, Family
<1>2. /\ req'[r] = Idle
      /\ \A q \in Request \ {r} : req'[q] = req[q]
  BY IdleType, GotoType DEF Mint, Base
<1>3. \A q \in Request : req[q].pc \in Refreshing => req[q].held \in Token \ {t}
  BY <1>1 DEF Base, ReqOK, ReqFacts, Refreshing
<1>4. ASSUME NEW x \in Token \ {t}, Family(x) = Family(p), Family(p) \notin raced
      PROVE  status[x] # "active" /\ row[x].parent # p
  BY <1>0, <1>4 DEF Unraced, UnracedReqRow, Refreshing
<1>5. ASSUME NEW x \in Token, NEW y \in Token PROVE UnracedRow(x, y)'
  <2>1. UnracedRow(x, y)
    BY DEF Unraced
  <2> QED
    BY <1>0, <1>1, <1>4, <2>1 DEF UnracedRow, Family
<1>6. ASSUME NEW q \in Request, NEW x \in Token PROVE UnracedReqRow(q, x)'
  <2>1. CASE q = r
    BY <1>2, <2>1 DEF UnracedReqRow, Idle, Refreshing
  <2>2. CASE q # r
    <3>1. UnracedReqRow(q, x) /\ UnracedReq(q, r)
      BY DEF Unraced
    <3> QED
      BY <1>0, <1>1, <1>2, <1>3, <2>2, <3>1
      DEF UnracedReqRow, UnracedReq, Family, Refreshing
  <2> QED
    BY <2>1, <2>2
<1>7. ASSUME NEW r1 \in Request, NEW r2 \in Request PROVE UnracedReq(r1, r2)'
  <2>1. UnracedReq(r1, r2)
    BY DEF Unraced
  <2> QED
    BY <1>1, <1>2, <1>3, <2>1 DEF UnracedReq, Family, Refreshing, Idle
<1> QED
  BY <1>5, <1>6, <1>7 DEF Unraced

LEMMA UnracedInvariant == Spec => []Unraced
<1>1. Base /\ Unraced /\ [Next]_vars => Unraced'
  BY StepKinds, UnracedQuiet, UnracedOpen, UnracedLoad, UnracedRotate, UnracedMint
<1> QED
  BY BaseInvariant, UnracedInit, <1>1, PTL DEF Spec

(* A token has at most one successor, and a session at most one usable      *)
(* token, in every family where no two refreshes loaded one ACTIVE row.     *)
THEOREM SingleUse == Spec => []SingleUseUnlessRaced
<1>1. Base /\ Unraced => SingleUseUnlessRaced
  <2> SUFFICES ASSUME Base, Unraced, NEW t1 \in Token, NEW t2 \in Token,
                      t1 # t2, row[t1].parent = row[t2].parent, row[t1].parent # None
               PROVE  Family(t1) \in raced
    BY DEF SingleUseUnlessRaced
  <2>1. Born(t1) /\ Born(t2)
    BY DEF Base, RowOK, RowFacts, NoRow
  <2>2. Family(t1) = Family(t2)
    BY <2>1 DEF Base, RowOK, RowFacts
  <2> QED
    BY <2>2 DEF Unraced, UnracedRow
<1> QED
  BY BaseInvariant, UnracedInvariant, <1>1, PTL

THEOREM OneActive == Spec => []OneActiveUnlessRaced
<1>1. Unraced => OneActiveUnlessRaced
  BY DEF Unraced, UnracedRow, OneActiveUnlessRaced
<1> QED
  BY UnracedInvariant, <1>1, PTL

-----------------------------------------------------------------------------
(* The usable rows of family f are all in S, and no refresh is about to     *)
(* insert another: this lasts until one of those rows is loaded.            *)
Confined(f, S) ==
  /\ IsFamily(f)
  /\ \A t \in Token : Family(t) = f /\ status[t] = "active" => t \in S
  /\ ~InFlight(f)

LEMMA StaysConfined ==
  ASSUME Base, [Next]_vars, NEW f \in Token, NEW S, Confined(f, S),
         \A r \in Request, t \in Token : RefreshLoad(r, t) => Family(t) # f
  PROVE  Confined(f, S)'
<1>0. /\ Family(f) = f
      /\ \A t \in Token : Family(t) = f /\ status[t] = "active" => t \in S
      /\ \A r \in Request : req[r].pc \in Refreshing => Family(req[r].held) # f
  BY DEF Confined, IsFamily, InFlight, Busy, Refreshing
<1>b. Born(f)
  BY <1>0, NoneIsNew DEF Base, RowOK, RowFacts, NoRow, Family
<1>d. ASSUME row'[f].family = f,
             \A t \in Token : row'[t].family = f /\ status'[t] = "active" => t \in S,
             \A r \in Request : req'[r].pc \in Refreshing => row'[req'[r].held].family # f
      PROVE  Confined(f, S)'
  BY <1>d DEF Confined, IsFamily, InFlight, Busy, Refreshing, Family
<1>h. \A r \in Request : req[r].pc \in Refreshing => req[r].held \in Token /\ Born(req[r].held)
  BY DEF Base, ReqOK, ReqFacts, Refreshing
<1>1. ASSUME NEW t \in Token, NEW u \in User, NEW a \in App, OpenSession(t, u, a)
      PROVE  Confined(f, S)'
  <2>1. /\ row'[t].family = t /\ ~Born(t)
        /\ \A x \in Token \ {t} : status'[x] = status[x] /\ row'[x] = row[x]
        /\ req' = req
    BY <1>1, InsertFacts DEF OpenSession, Base
  <2> QED
    BY <1>0, <1>b, <1>d, <1>h, <2>1 DEF Family
<1>2. ASSUME NEW r \in Request, NEW t \in Token, RefreshLoad(r, t) PROVE Confined(f, S)'
  <2>1. [Idle EXCEPT !.pc = "loaded", !.held = t] \in Handler
    BY DEF Idle, Handler
  <2>2. /\ req'[r] = [Idle EXCEPT !.pc = "loaded", !.held = t]
        /\ \A x \in Request \ {r} : req'[x] = req[x]
        /\ status' = status /\ row' = row
    BY <1>2, <2>1, GotoType DEF RefreshLoad, Base
  <2>3. req'[r].held = t
    BY <2>2 DEF Idle
  <2>4. Family(t) # f
    BY <1>2
  <2> QED
    BY <1>0, <1>d, <2>2, <2>3, <2>4 DEF Family
<1>3. ASSUME NEW r \in Request, FlushRotated(r) PROVE Confined(f, S)'
  <2>1. req[r] \in Handler /\ req[r].pc = "loaded"
    BY <1>3 DEF FlushRotated, Base, TypeOK
  <2>2. /\ [req[r] EXCEPT !.pc = "mint"] \in Handler
        /\ [req[r] EXCEPT !.pc = "mint"].held = req[r].held
    BY <2>1 DEF Handler
  <2>3. /\ req'[r].held = req[r].held
        /\ \A x \in Request \ {r} : req'[x] = req[x]
        /\ row' = row
    BY <1>3, <2>2, GotoType DEF FlushRotated, Base
  <2>4. \A t \in Token : status'[t] = "active" => status[t] = "active"
    BY <1>3 DEF FlushRotated, Update, Base, TypeOK
  <2> QED
    BY <1>0, <1>d, <2>1, <2>3, <2>4 DEF Family, Refreshing
<1>4. ASSUME NEW r \in Request, NEW t \in Token, Mint(r, t) PROVE Confined(f, S)'
  <2> DEFINE p == req[r].held
  <2>1. /\ req[r].pc = "mint" /\ p \in Token
        /\ row[p] \in [family : Token \cup {None}, parent : Token \cup {None},
                       user : User \cup {None}, app : App \cup {None}]
    BY <1>4 DEF Mint, Base, TypeOK, ReqOK, ReqFacts
  <2>2. /\ row'[t].family = Family(p) /\ ~Born(t)
        /\ \A x \in Token \ {t} : status'[x] = status[x] /\ row'[x] = row[x]
    BY <1>4, <2>1, InsertFacts DEF Mint, Base, Family
  <2>3. /\ req'[r] = Idle
        /\ \A x \in Request \ {r} : req'[x] = req[x]
    BY <1>4, IdleType, GotoType DEF Mint, Base
  <2> QED
    BY <1>0, <1>b, <1>d, <1>h, <2>1, <2>2, <2>3 DEF Family, Idle, Refreshing
<1>5. CASE Quiet
  BY <1>0, <1>5, <1>d DEF Quiet, Family
<1> QED
  BY StepKinds, <1>1, <1>2, <1>3, <1>4, <1>5

(* A dead session stays dead: only a refresh in flight could insert a row,  *)
(* and only an ACTIVE row can be loaded.                                    *)
LEMMA DeadStays ==
  ASSUME Base, [Next]_vars, NEW f \in Token, Dead(f)
  PROVE  Dead(f)'
<1>1. Confined(f, {})
  BY DEF Dead, Confined, Members
<1>2. ASSUME NEW r \in Request, NEW t \in Token, RefreshLoad(r, t) PROVE Family(t) # f
  BY <1>1, <1>2 DEF RefreshLoad, Confined
<1>3. Confined(f, {})'
  BY <1>1, <1>2, StaysConfined
<1> QED
  BY <1>3 DEF Dead, Confined, Members

-----------------------------------------------------------------------------
(* A revocation that has read its rows, in a family no refresh overlapped:  *)
(* every usable row is among those it is about to overwrite, and no refresh *)
(* is about to insert another.                                              *)
Caught(r, f) == Confined(f, req[r].found)

Covers(r) == Covered(req[r].held, req[r].found)

RevokeFacts(r) ==
  /\ req[r].pc = "flush" => \A f \in Covers(r) \ interfered : f \in Token /\ Caught(r, f)
  /\ req[r].pc = "audit" => \A f \in {Family(req[r].held)} \ interfered : Dead(f)

Revocations ==
  /\ \A r \in Request : RevokeFacts(r)
  /\ ReportedSessionsAreDead

LEMMA RevocationsInit == Init => Revocations
  BY DEF Init, Revocations, RevokeFacts, ReportedSessionsAreDead, Idle

LEMMA InterferedGrows == [Next]_vars => interfered \subseteq interfered'
  BY DEF Next, Arrive, Step, OpenSession, RefreshLoad, RefreshReuse, FlushRotated, Mint,
         MintFails, RevokeToken, FindFamily, FindSessions, FlushRevoked, AuditReuse,
         Expire, DeleteApp, Abort, vars

(* Rows that exist keep their columns. *)
LEMMA RowsKept ==
  ASSUME Base, [Next]_vars, NEW t \in Token, Born(t)
  PROVE  row'[t] = row[t]
  BY StepKinds, InsertFacts
  DEF Base, OpenSession, RefreshLoad, FlushRotated, Mint, Quiet

(* A handler comes to flush or to audit only by its own find or flush. *)
LEMMA HandlerMoves ==
  ASSUME Base, [Next]_vars, NEW q \in Request, req'[q] # req[q]
  PROVE  \/ req'[q].pc \notin {"flush", "audit"}
         \/ FindFamily(q)
         \/ \E u \in User : FindSessions(q, u)
         \/ FlushRevoked(q)
<1>0. Idle \in Handler /\ \A r \in Request : req[r] \in Handler
  BY IdleType DEF Base, TypeOK
<1>g. ASSUME NEW r \in Request, NEW h \in Handler, Goto(r, h), h.pc \notin {"flush", "audit"}
      PROVE  req'[q].pc \notin {"flush", "audit"}
  BY <1>g, GotoType DEF Base
<1>i. ASSUME NEW r \in Request, Goto(r, Idle) PROVE req'[q].pc \notin {"flush", "audit"}
  BY <1>i, <1>g, <1>0 DEF Idle
<1>1. ASSUME NEW r \in Request, NEW t \in Token,
             RefreshLoad(r, t) \/ RefreshReuse(r, t) \/ RevokeToken(r, t)
      PROVE  req'[q].pc \notin {"flush", "audit"}
  <2>1. /\ [Idle EXCEPT !.pc = "loaded", !.held = t] \in Handler
        /\ [Idle EXCEPT !.pc = "revoke", !.held = t, !.target = "reused"] \in Handler
        /\ [Idle EXCEPT !.pc = "revoke", !.held = t] \in Handler
    BY DEF Idle, Handler
  <2> QED
    BY <1>1, <1>g, <2>1 DEF RefreshLoad, RefreshReuse, RevokeToken, Idle
<1>2. ASSUME NEW r \in Request, FlushRotated(r) PROVE req'[q].pc \notin {"flush", "audit"}
  <2>1. /\ [req[r] EXCEPT !.pc = "mint"] \in Handler
        /\ [req[r] EXCEPT !.pc = "mint"].pc = "mint"
    BY <1>0 DEF Handler
  <2> QED
    BY <1>2, <1>g, <2>1 DEF FlushRotated
<1>3. ASSUME NEW r \in Request,
             FindFamily(r) \/ (\E u \in User : FindSessions(r, u)) \/ FlushRevoked(r)
      PROVE  r = q
  <2> SUFFICES ASSUME r # q PROVE FALSE
    OBVIOUS
  <2> QED
    BY <1>3 DEF FindFamily, FindSessions, FlushRevoked, Goto, Base, TypeOK
<1>4. req' # req
  OBVIOUS
<1> QED
  BY <1>i, <1>1, <1>2, <1>3, <1>4
  DEF Next, Arrive, Step, OpenSession, Mint, MintFails, AuditReuse, Expire, DeleteApp,
      Abort, vars

(* The rows a revocation has caught stay caught while others take steps. *)
LEMMA StayCaught ==
  ASSUME Base, [Next]_vars, NEW q \in Request, req'[q] = req[q], req[q].pc = "flush",
         NEW f \in Token, f \in Covers(q), f \notin interfered', Caught(q, f)
  PROVE  Caught(q, f)'
<1>1. ASSUME NEW r \in Request, NEW t \in Token, RefreshLoad(r, t) PROVE Family(t) # f
  BY <1>1 DEF RefreshLoad, Covers, Busy
<1> PICK S : S = req[q].found
  OBVIOUS
<1>2. Confined(f, S)'
  BY <1>1, StaysConfined DEF Caught
<1> QED
  BY <1>2 DEF Caught

(* A find catches every usable row of the families it covers, unless a      *)
(* refresh is in flight in one of them.                                     *)
LEMMA FamilyCaught ==
  ASSUME Base, NEW q \in Request, FindFamily(q), Base'
  PROVE  RevokeFacts(q)'
<1> DEFINE p == req[q].held
           found == {t \in Members(Family(p)) : status[t] \in Unrevoked}
           h == [req[q] EXCEPT !.pc = "flush", !.found = found]
<1>1. req[q] \in Handler /\ p \in Token /\ Born(p) /\ Family(p) \in Token /\ IsFamily(Family(p))
  BY DEF FindFamily, Base, TypeOK, ReqOK, ReqFacts, RowOK, RowFacts
<1>2. h \in Handler /\ h.pc = "flush" /\ h.held = p /\ h.found = found
  BY <1>1 DEF Handler, Members
<1>3. req'[q] = h /\ \A r \in Request \ {q} : req'[r] = req[r]
  BY <1>2, GotoType DEF FindFamily, Base
<1>4. /\ status' = status /\ row' = row
      /\ InFlight(Family(p)) => Family(p) \in interfered'
  BY DEF FindFamily
<1> PICK f \in Token : f = Family(p)
  BY <1>1
<1>5. Covers(q)' = {f}
  BY <1>1, <1>2, <1>3, <1>4, NoneIsNew DEF Covers, Covered, Family
<1>6. InFlight(f)' => InFlight(f)
  BY <1>2, <1>3, <1>4 DEF InFlight, Busy, Family
<1>7. \A t \in Token : Family(t) = f /\ status[t] = "active" => t \in found
  BY DEF Members, Unrevoked
<1> HIDE DEF h, found
<1>8. f \notin interfered' => Caught(q, f)'
  BY <1>1, <1>2, <1>3, <1>4, <1>6, <1>7 DEF Caught, Confined, IsFamily, Family
<1> QED
  BY <1>1, <1>2, <1>3, <1>4, <1>5, <1>8 DEF RevokeFacts

LEMMA SessionsCaught ==
  ASSUME Base, NEW q \in Request, NEW u \in User, FindSessions(q, u), Base'
  PROVE  RevokeFacts(q)'
<1> DEFINE found == {t \in Token : row[t].user = u /\ status[t] \in Unrevoked}
           h == [Idle EXCEPT !.pc = "flush", !.found = found]
<1>2. h \in Handler /\ h.pc = "flush" /\ h.held = None /\ h.found = found
  BY DEF Handler, Idle
<1>3. req'[q] = h /\ \A r \in Request \ {q} : req'[r] = req[r]
  BY <1>2, GotoType DEF FindSessions, Base
<1>4. /\ status' = status /\ row' = row
      /\ \A f \in Covered(None, found) : InFlight(f) => f \in interfered'
  BY DEF FindSessions
<1>5. Covers(q)' = Covered(None, found)
  BY <1>2, <1>3, <1>4 DEF Covers, Covered, Family
<1>6. ASSUME NEW f \in Covered(None, found) \ interfered'
      PROVE  f \in Token /\ Caught(q, f)'
  <2>1. PICK t \in found : f = Family(t)
    BY DEF Covered
  <2>2. Born(t) /\ t \in Token /\ row[t].user = u
    BY DEF Born, Unrevoked
  <2>3. f \in Token /\ IsFamily(f) /\ row[f].user = u
    BY <2>1, <2>2 DEF Base, RowOK, RowFacts
  <2>4. ASSUME NEW x \in Token, Family(x) = f, status[x] = "active" PROVE x \in found
    <3>1. row[x].user = u
      BY <2>3, <2>4 DEF Base, RowOK, RowFacts, Born
    <3> QED
      BY <2>4, <3>1 DEF Unrevoked
  <2>5. ~InFlight(f)'
    BY <1>2, <1>3, <1>4, <1>6 DEF InFlight, Busy, Family
  <2> HIDE DEF h, found
  <2> QED
    BY <1>2, <1>3, <1>4, <2>3, <2>4, <2>5 DEF Caught, Confined, IsFamily, Family
<1> HIDE DEF h, found
<1> QED
  BY <1>2, <1>3, <1>5, <1>6 DEF RevokeFacts

(* The write of a revocation leaves every family it caught dead. *)
LEMMA FlushKills ==
  ASSUME Base, Revocations, NEW q \in Request, FlushRevoked(q),
         NEW f \in Covers(q) \ interfered
  PROVE  f \in Token /\ Dead(f)'
<1>0. /\ req[q] \in Handler /\ req[q].pc = "flush"
      /\ req[q].target \in {"revoked", "reused"}
      /\ f \in Token /\ Caught(q, f)
  BY DEF FlushRevoked, Base, TypeOK, Handler, Revocations, RevokeFacts
<1>1. /\ row' = row
      /\ \A t \in Token : status'[t] = "active" => status[t] = "active" /\ t \notin req[q].found
  BY <1>0 DEF FlushRevoked, Update, Base, TypeOK
<1>2. \A r \in Request \ {q} : req'[r] = req[r]
  BY DEF FlushRevoked, Goto, Base, TypeOK
<1>3. req'[q].pc \notin Refreshing
  <2> DEFINE h == IF req[q].target = "reused"
                  THEN [req[q] EXCEPT !.pc = "audit", !.found = {}] ELSE Idle
  <2>1. h \in Handler /\ h.pc \notin Refreshing
    BY <1>0, IdleType DEF Idle, Handler, Refreshing
  <2>2. Goto(q, h)
    BY DEF FlushRevoked
  <2> HIDE DEF h
  <2> QED
    BY <2>1, <2>2, GotoType DEF Base
<1>4. ~InFlight(f)'
  BY <1>0, <1>1, <1>2, <1>3 DEF Caught, Confined, InFlight, Busy, Family, Refreshing
<1> QED
  BY <1>0, <1>1, <1>4 DEF Caught, Confined, Dead, IsFamily, Members, Family

LEMMA AuditAfterFlush ==
  ASSUME Base, Revocations, NEW q \in Request, FlushRevoked(q)
  PROVE  RevokeFacts(q)'
<1>0. req[q] \in Handler /\ row' = row /\ interfered' = interfered /\ req[q].pc = "flush"
  BY DEF FlushRevoked, Base, TypeOK
<1>1. CASE req[q].target = "reused"
  <2>1. req[q].held \in Token /\ Covers(q) = {Family(req[q].held)}
    BY <1>0, <1>1, NoneIsNew DEF Covers, Covered, Base, ReqOK, ReqFacts
  <2>2. /\ [req[q] EXCEPT !.pc = "audit", !.found = {}] \in Handler
        /\ [req[q] EXCEPT !.pc = "audit", !.found = {}].pc = "audit"
        /\ [req[q] EXCEPT !.pc = "audit", !.found = {}].held = req[q].held
    BY <1>0 DEF Handler
  <2>3. req'[q].pc = "audit" /\ req'[q].held = req[q].held
    BY <1>1, <2>2, GotoType DEF FlushRevoked, Base
  <2> PICK f : f = Family(req[q].held)
    OBVIOUS
  <2>4. f \notin interfered => Dead(f)'
    BY <2>1, FlushKills
  <2>5. Family(req[q].held)' = f
    BY <1>0, <2>3 DEF Family
  <2> QED
    BY <1>0, <2>3, <2>4, <2>5 DEF RevokeFacts
<1>2. CASE req[q].target # "reused"
  <2>1. req'[q] = Idle
    BY <1>2, IdleType, GotoType DEF FlushRevoked, Base
  <2> QED
    BY <2>1 DEF RevokeFacts, Idle
<1> QED
  BY <1>1, <1>2

LEMMA RevocationsStep == Base /\ Base' /\ Revocations /\ [Next]_vars => Revocations'
<1> SUFFICES ASSUME Base, Base', Revocations, [Next]_vars PROVE Revocations'
  OBVIOUS
<1>0. interfered \subseteq interfered'
  BY InterferedGrows
<1>1. ASSUME NEW q \in Request, req'[q] = req[q] PROVE RevokeFacts(q)'
  <2>0. RevokeFacts(q) /\ ReqFacts(q) /\ req[q] \in Handler
    BY DEF Revocations, Base, ReqOK, TypeOK
  <2>1. CASE req[q].pc = "flush"
    <3>1. Covers(q)' = Covers(q)
      <4>1. \A t \in req[q].found : Born(t) /\ row'[t] = row[t]
        BY <2>0, RowsKept DEF ReqFacts, Handler
      <4>2. req[q].held # None => row'[req[q].held] = row[req[q].held]
        BY <2>0, RowsKept DEF ReqFacts, Handler
      <4> QED
        BY <1>1, <4>1, <4>2 DEF Covers, Covered, Family
    <3>2. ASSUME NEW f \in Covers(q) \ interfered' PROVE f \in Token /\ Caught(q, f)'
      BY <1>0, <1>1, <2>0, <2>1, <3>2, StayCaught DEF RevokeFacts
    <3> QED
      BY <1>1, <2>1, <3>1, <3>2 DEF RevokeFacts
  <2>2. CASE req[q].pc = "audit"
    <3> PICK f : f = Family(req[q].held)
      OBVIOUS
    <3>1. f \in Token /\ Family(req[q].held)' = f
      BY <1>1, <2>0, <2>2, RowsKept DEF ReqFacts, Base, RowOK, RowFacts, Family
    <3>2. f \notin interfered' => Dead(f)
      BY <1>0, <2>0, <2>2 DEF RevokeFacts
    <3>3. f \notin interfered' => Dead(f)'
      BY <3>1, <3>2, DeadStays
    <3> QED
      BY <1>1, <2>2, <3>1, <3>3 DEF RevokeFacts
  <2>3. CASE req[q].pc \notin {"flush", "audit"}
    BY <1>1, <2>3 DEF RevokeFacts
  <2> QED
    BY <2>1, <2>2, <2>3
<1>2. ASSUME NEW q \in Request, req'[q] # req[q] PROVE RevokeFacts(q)'
  <2>1. CASE req'[q].pc \notin {"flush", "audit"}
    BY <2>1 DEF RevokeFacts
  <2> QED
    BY <1>2, <2>1, HandlerMoves, FamilyCaught, SessionsCaught, AuditAfterFlush
<1>3. ReportedSessionsAreDead'
  <2> SUFFICES ASSUME NEW f \in reported', f \notin interfered' PROVE Dead(f)'
    BY DEF ReportedSessionsAreDead
  <2>1. CASE f \in reported
    BY <1>0, <2>1, DeadStays DEF Revocations, ReportedSessionsAreDead, Base, TypeOK
  <2>2. CASE f \notin reported
    <3>1. PICK r \in Request : AuditReuse(r) /\ f = Family(req[r].held)
      BY <2>2
      DEF Next, Arrive, Step, OpenSession, RefreshLoad, RefreshReuse, FlushRotated, Mint,
          MintFails, RevokeToken, FindFamily, FindSessions, FlushRevoked, AuditReuse,
          Expire, DeleteApp, Abort, vars
    <3>2. f \in Token /\ Dead(f)
      BY <1>0, <3>1
      DEF AuditReuse, Revocations, RevokeFacts, Base, ReqOK, ReqFacts, RowOK, RowFacts
    <3> QED
      BY <3>2, DeadStays
  <2> QED
    BY <2>1, <2>2
<1> QED
  BY <1>1, <1>2, <1>3 DEF Revocations

LEMMA RevocationsInvariant == Spec => []Revocations
  BY BaseInvariant, RevocationsInit, RevocationsStep, PTL DEF Spec

(* A family the audit log reports as reused is dead, unless a refresh       *)
(* overlapped its revocation.                                               *)
THEOREM ReportedDead == Spec => []ReportedSessionsAreDead
<1>1. Revocations => ReportedSessionsAreDead
  BY DEF Revocations
<1> QED
  BY RevocationsInvariant, <1>1, PTL

(* The write of a logout, reuse response or revocation by user leaves every *)
(* session it covers dead, unless a refresh overlapped it.                  *)
THEOREM RevocationEnds == Spec => RevocationEndsSessions
<1>1. ASSUME Base, Revocations, [Next]_vars
      PROVE  [\A r \in Request : FlushRevoked(r) =>
                \A f \in Covered(req[r].held, req[r].found) \ interfered : Dead(f)']_vars
  BY <1>1, FlushKills DEF Covers
<1> QED
  BY BaseInvariant, RevocationsInvariant, <1>1, PTL DEF Spec, RevocationEndsSessions

-----------------------------------------------------------------------------
(* Without aborts, a session with no usable row and no successor about to   *)
(* be inserted holds a row that was ended.                                  *)
Continues(f) ==
  \/ \E t \in Token : Family(t) = f /\ status[t] \in Ended \cup {"active"}
  \/ \E r \in Request : req[r].pc = "mint" /\ Family(req[r].held) = f

Continuing == \A f \in Token : IsFamily(f) => Continues(f)

LEMMA ContinuingStep ==
  ASSUME Base, Continuing, [Next]_vars, Mortal = {}
  PROVE  Continuing'
<1> SUFFICES ASSUME NEW f \in Token, IsFamily(f)' PROVE Continues(f)'
  BY DEF Continuing
<1>h. \A r \in Request : req[r].pc \in Refreshing => req[r].held \in Token /\ Born(req[r].held)
  BY DEF Base, ReqOK, ReqFacts, Refreshing
<1>d. ASSUME \/ \E t \in Token : row'[t].family = f /\ status'[t] \in Ended \cup {"active"}
             \/ \E r \in Request : req'[r].pc = "mint" /\ row'[req'[r].held].family = f
      PROVE  Continues(f)'
  BY <1>d DEF Continues, Family
<1>1. ASSUME NEW t \in Token, NEW u \in User, NEW a \in App, OpenSession(t, u, a)
      PROVE  Continues(f)'
  <2>1. /\ status'[t] = "active" /\ row'[t].family = t /\ ~Born(t)
        /\ \A x \in Token \ {t} : status'[x] = status[x] /\ row'[x] = row[x]
        /\ req' = req
    BY <1>1, InsertFacts DEF OpenSession, Base
  <2>2. CASE f = t
    BY <1>d, <2>1, <2>2
  <2>3. CASE f # t
    <3>1. Continues(f)
      BY <2>1, <2>3 DEF Continuing, IsFamily, Family
    <3>2. CASE \E x \in Token : Family(x) = f /\ status[x] \in Ended \cup {"active"}
      <4>1. PICK x \in Token : Family(x) = f /\ status[x] \in Ended \cup {"active"}
        BY <3>2
      <4>2. x # t
        BY <2>1, <4>1 DEF Born, Ended
      <4> QED
        BY <1>d, <2>1, <4>1, <4>2 DEF Family
    <3>3. CASE \E r \in Request : req[r].pc = "mint" /\ Family(req[r].held) = f
      BY <1>d, <1>h, <2>1, <3>3 DEF Family, Refreshing
    <3> QED
      BY <3>1, <3>2, <3>3 DEF Continues
  <2> QED
    BY <2>2, <2>3
<1>2. ASSUME NEW r \in Request, NEW t \in Token, RefreshLoad(r, t) PROVE Continues(f)'
  <2>1. [Idle EXCEPT !.pc = "loaded", !.held = t] \in Handler
    BY DEF Idle, Handler
  <2>2. /\ req[r].pc = "idle"
        /\ \A x \in Request \ {r} : req'[x] = req[x]
        /\ status' = status /\ row' = row
    BY <1>2, <2>1, GotoType DEF RefreshLoad, Base
  <2>3. Continues(f)
    BY <2>2 DEF Continuing, IsFamily, Family
  <2> QED
    BY <1>d, <2>2, <2>3 DEF Continues, Family
<1>3. ASSUME NEW r \in Request, FlushRotated(r) PROVE Continues(f)'
  <2> DEFINE p == req[r].held
  <2>1. req[r] \in Handler /\ req[r].pc = "loaded"
    BY <1>3 DEF FlushRotated, Base, TypeOK
  <2>2. /\ [req[r] EXCEPT !.pc = "mint"] \in Handler
        /\ [req[r] EXCEPT !.pc = "mint"].pc = "mint"
        /\ [req[r] EXCEPT !.pc = "mint"].held = p
    BY <2>1 DEF Handler
  <2>3. /\ req'[r].held = p /\ req'[r].pc = "mint"
        /\ \A x \in Request \ {r} : req'[x] = req[x]
        /\ row' = row
    BY <1>3, <2>2, GotoType DEF FlushRotated, Base
  <2>4. \A t \in Token \ {p} : status'[t] = status[t]
    BY <1>3 DEF FlushRotated, Update, Base, TypeOK
  <2>5. Continues(f)
    BY <2>3 DEF Continuing, IsFamily, Family
  <2>6. CASE Family(p) = f
    BY <1>d, <2>3, <2>6 DEF Family
  <2>7. CASE Family(p) # f
    BY <1>d, <2>1, <2>3, <2>4, <2>5, <2>7 DEF Continues, Family
  <2> QED
    BY <2>6, <2>7
<1>4. ASSUME NEW r \in Request, NEW t \in Token, Mint(r, t) PROVE Continues(f)'
  <2> DEFINE p == req[r].held
  <2>1. /\ req[r].pc = "mint" /\ p \in Token
        /\ row[p] \in [family : Token \cup {None}, parent : Token \cup {None},
                       user : User \cup {None}, app : App \cup {None}]
        /\ Family(p) \in Token /\ Born(p)
    BY <1>4 DEF Mint, Base, TypeOK, ReqOK, ReqFacts, RowOK, RowFacts
  <2>2. /\ status'[t] = "active" /\ row'[t].family = Family(p) /\ ~Born(t)
        /\ \A x \in Token \ {t} : status'[x] = status[x] /\ row'[x] = row[x]
    BY <1>4, <2>1, InsertFacts DEF Mint, Base, Family
  <2>3. \A x \in Request \ {r} : req'[x] = req[x]
    BY <1>4, IdleType, GotoType DEF Mint, Base
  <2>4. CASE Family(p) = f
    BY <1>d, <2>2, <2>4
  <2>5. CASE Family(p) # f
    <3>1. f # t
      <4>1. SUFFICES ASSUME f = t PROVE FALSE
        OBVIOUS
      <4> QED
        BY <2>2, <2>5, <4>1 DEF IsFamily, Family
    <3>2. Continues(f)
      BY <2>2, <3>1 DEF Continuing, IsFamily, Family
    <3>3. CASE \E x \in Token : Family(x) = f /\ status[x] \in Ended \cup {"active"}
      <4>1. PICK x \in Token : Family(x) = f /\ status[x] \in Ended \cup {"active"}
        BY <3>3
      <4>2. x # t
        BY <2>2, <4>1 DEF Born, Ended
      <4> QED
        BY <1>d, <2>2, <4>1, <4>2 DEF Family
    <3>4. CASE \E x \in Request : req[x].pc = "mint" /\ Family(req[x].held) = f
      <4>1. PICK x \in Request : req[x].pc = "mint" /\ Family(req[x].held) = f
        BY <3>4
      <4>2. x # r /\ req[x].held \in Token \ {t}
        BY <1>h, <2>2, <2>5, <4>1 DEF Refreshing
      <4> QED
        BY <1>d, <2>2, <2>3, <4>1, <4>2 DEF Family
    <3> QED
      BY <3>2, <3>3, <3>4 DEF Continues
  <2> QED
    BY <2>4, <2>5
<1>5. CASE Quiet
  <2>1. Continues(f)
    BY <1>5 DEF Quiet, Continuing, IsFamily, Family
  <2>2. CASE \E x \in Token : Family(x) = f /\ status[x] \in Ended \cup {"active"}
    BY <1>5, <1>d, <2>2 DEF Quiet, Family, Ended
  <2>3. CASE \E r \in Request : req[r].pc = "mint" /\ Family(req[r].held) = f
    <3>1. PICK r \in Request : req[r].pc = "mint" /\ Family(req[r].held) = f
      BY <2>3
    <3>2. CASE req'[r] = req[r]
      BY <1>5, <1>d, <3>1, <3>2 DEF Quiet, Family
    <3>3. CASE req'[r] # req[r]
      <4> DEFINE p == req[r].held
      <4>1. p \in Token /\ Born(p) /\ row[p].app \notin apps
        BY <1>5, <1>h, <3>1, <3>3 DEF Quiet, Refreshing
      <4>2. status[p] = "deleted"
        BY <4>1 DEF Base, RowOK, RowFacts
      <4> QED
        BY <1>5, <1>d, <3>1, <4>1, <4>2 DEF Quiet, Family, Ended
    <3> QED
      BY <3>2, <3>3
  <2> QED
    BY <2>1, <2>2, <2>3 DEF Continues
<1> QED
  BY StepKinds, <1>1, <1>2, <1>3, <1>4, <1>5

(* Where no handler dies between its writes, a session loses its last       *)
(* usable token only to a revocation, a reuse response or a deletion.       *)
THEOREM EndForAReason == Spec => []SessionsEndForAReason
<1>1. Init => Continuing
  BY NoneIsNew DEF Init, Continuing, IsFamily, Family, NoRow
<1>2. Base /\ Continuing => SessionsEndForAReason
  BY DEF Continuing, Continues, SessionsEndForAReason, Members, Busy, Ended
<1>3. Mortal # {} => SessionsEndForAReason
  BY DEF SessionsEndForAReason
<1>4. CASE Mortal # {}
  <2>1. Spec => [](Mortal # {})
    BY <1>4, PTL
  <2> QED
    BY <1>3, <2>1, PTL
<1>5. CASE Mortal = {}
  <2>1. Base /\ Continuing /\ [Next]_vars => Continuing'
    BY <1>5, ContinuingStep
  <2> QED
    BY BaseInvariant, <1>1, <1>2, <2>1, PTL DEF Spec
<1> QED
  BY <1>4, <1>5

-----------------------------------------------------------------------------
(* The refinement: every step maps to a step of Sessions or to a stutter. *)
LEMMA PromiseInit == Init => Promise!SInit
<1> SUFFICES ASSUME Init PROVE Promise!SInit
  OBVIOUS
<1>1. \A t \in Token : LifeOf(t) = "unborn"
  BY DEF Init, LifeOf
<1>2. \A t \in Token : Family(t) = None /\ ~IsFamily(t)
  BY NoneIsNew DEF Init, NoRow, Family, IsFamily
<1>3. ASSUME NEW t \in Token PROVE PhaseOf(t) = "unborn"
  <2>1. ~IsFamily(t)
    BY <1>2
  <2> QED
    BY <2>1 DEF PhaseOf
<1>4. \A t \in Token : {Family(t)} \ {None} = {}
  BY <1>2
<1> QED
  BY <1>1, <1>3, <1>4 DEF Promise!SInit

(* A family with a refresh in flight or an ACTIVE row is live. *)
LEMMA LiveFamily ==
  ASSUME NEW f \in Token, IsFamily(f),
         \/ \E r \in Request : req[r].pc \in Refreshing /\ Family(req[r].held) = f
         \/ \E t \in Token : Family(t) = f /\ status[t] = "active"
  PROVE  PhaseOf(f) = "live"
  BY DEF PhaseOf, Dead, InFlight, Busy, Refreshing, Members

(* A family whose rows, ACTIVE rows and refreshes in flight stay the same   *)
(* keeps its phase.                                                         *)
LEMMA PhaseKept ==
  ASSUME NEW f \in Token,
         \A t \in Token : Family(t)' = f <=> Family(t) = f,
         \A t \in Token : Family(t) = f => (status'[t] = "active" <=> status[t] = "active"),
         InFlight(f)' <=> InFlight(f)
  PROVE  PhaseOf(f)' = PhaseOf(f)
<1>1. IsFamily(f)' <=> IsFamily(f)
  BY DEF IsFamily
<1>2. Dead(f)' <=> Dead(f)
  BY <1>1 DEF Dead, Members
<1> QED
  BY <1>1, <1>2 DEF PhaseOf

LEMMA OpenRefines ==
  ASSUME Base, NEW t \in Token, NEW u \in User, NEW a \in App, OpenSession(t, u, a)
  PROVE  Promise!Open(t)
<1>1. /\ status'[t] = "active" /\ row'[t].family = t /\ ~Born(t)
      /\ \A x \in Token \ {t} : status'[x] = status[x] /\ row'[x] = row[x]
      /\ req' = req
  BY InsertFacts DEF OpenSession, Base
<1>2. \A x \in Token : Family(x) # t
  BY <1>1, NoneIsNew DEF Base, RowOK, RowFacts, NoRow, Family
<1>3. \A r \in Request : req[r].pc \in Refreshing => req[r].held \in Token \ {t}
  BY <1>1 DEF Base, ReqOK, ReqFacts, Refreshing
<1>4. LifeOf(t) = "unborn" /\ LifeOf(t)' = "usable"
  BY <1>1 DEF LifeOf, Born
<1>5. ASSUME NEW x \in Token \ {t}
      PROVE  LifeOf(x)' = LifeOf(x) /\ PhaseOf(x)' = PhaseOf(x) /\ Family(x)' = Family(x)
  <2>1. InFlight(x)' <=> InFlight(x)
    BY <1>1, <1>3 DEF InFlight, Busy, Family, Refreshing
  <2>2. \A y \in Token : Family(y)' = x <=> Family(y) = x
    BY <1>1, <1>2, NoneIsNew DEF Family, Base, RowOK, RowFacts, NoRow
  <2>3. \A y \in Token : Family(y) = x => (status'[y] = "active" <=> status[y] = "active")
    <3>1. Family(t) = None
      BY <1>1 DEF Family, Base, RowOK, RowFacts, NoRow
    <3> QED
      BY <1>1, <3>1, NoneIsNew
  <2> QED
    BY <1>1, <2>1, <2>2, <2>3, PhaseKept DEF LifeOf, Family
<1>6. PhaseOf(t)' = "live"
  <2>1. IsFamily(t)' /\ Family(t)' = t
    BY <1>1 DEF IsFamily, Family
  <2> QED
    BY <1>1, <2>1 DEF PhaseOf, Dead, Members
<1>7. {Family(t)'} \ {None} = {t}
  BY <1>1, NoneIsNew DEF Family
<1> QED
  BY <1>4, <1>5, <1>6, <1>7 DEF Promise!Open

LEMMA MintRefines ==
  ASSUME Base, NEW r \in Request, NEW t \in Token, Mint(r, t)
  PROVE  \E f \in Token : Promise!Renew(f, t)
<1> DEFINE p == req[r].held
<1> PICK f : f = Family(p)
  OBVIOUS
<1>0. /\ req[r].pc = "mint" /\ p \in Token
      /\ row[p] \in [family : Token \cup {None}, parent : Token \cup {None},
                     user : User \cup {None}, app : App \cup {None}]
      /\ f \in Token /\ Born(p) /\ IsFamily(f) /\ Born(f)
  BY DEF Mint, Base, TypeOK, ReqOK, ReqFacts, RowOK, RowFacts
<1>1. /\ status'[t] = "active" /\ row'[t].family = f /\ ~Born(t)
      /\ \A x \in Token \ {t} : status'[x] = status[x] /\ row'[x] = row[x]
  BY <1>0, InsertFacts DEF Mint, Base, Family
<1>2. /\ req'[r] = Idle
      /\ \A x \in Request \ {r} : req'[x] = req[x]
  BY IdleType, GotoType DEF Mint, Base
<1>3. \A q \in Request : req[q].pc \in Refreshing => req[q].held \in Token \ {t}
  BY <1>1 DEF Base, ReqOK, ReqFacts, Refreshing
<1>4. LifeOf(t) = "unborn" /\ LifeOf(t)' = "usable"
  BY <1>1 DEF LifeOf, Born
<1>5. PhaseOf(f) = "live"
  BY <1>0, LiveFamily DEF Refreshing
<1>6. Family(t) = None
  BY <1>1 DEF Family, Base, RowOK, RowFacts, NoRow
<1>7. \A x \in Token \ {t} : LifeOf(x)' = LifeOf(x) /\ Family(x)' = Family(x)
  BY <1>1 DEF LifeOf, Family
<1>8. ASSUME NEW x \in Token PROVE PhaseOf(x)' = PhaseOf(x)
  <2>1. CASE x = f
    <3>1. Family(f)' = f
      BY <1>0, <1>1 DEF Family, IsFamily
    <3>2. IsFamily(f)' /\ (\E y \in Token : Family(y)' = f /\ status'[y] = "active")
      BY <1>1, <3>1 DEF IsFamily, Family
    <3>3. PhaseOf(f)' = "live"
      BY <3>2 DEF PhaseOf, Dead, Members
    <3> QED
      BY <1>5, <2>1, <3>3
  <2>2. CASE x # f
    <3>1. InFlight(x)' <=> InFlight(x)
      BY <1>0, <1>1, <1>2, <1>3, <2>2 DEF InFlight, Busy, Family, Refreshing, Idle
    <3>2. \A y \in Token : Family(y)' = x <=> Family(y) = x
      BY <1>1, <1>6, <1>7, <2>2, NoneIsNew DEF Family
    <3>3. \A y \in Token : Family(y) = x => (status'[y] = "active" <=> status[y] = "active")
      BY <1>1, <1>6, NoneIsNew
    <3> QED
      BY <3>1, <3>2, <3>3, PhaseKept
  <2> QED
    BY <2>1, <2>2
<1>9. {Family(t)'} \ {None} = {f}
  BY <1>0, <1>1, NoneIsNew DEF Family
<1> QED
  BY <1>0, <1>4, <1>5, <1>7, <1>8, <1>9 DEF Promise!Renew

LEMMA LoadRefines ==
  ASSUME Base, NEW r \in Request, NEW t \in Token, RefreshLoad(r, t)
  PROVE  UNCHANGED Promise!svars
<1>0. /\ status[t] = "active" /\ status' = status /\ row' = row /\ req[r].pc = "idle"
      /\ Family(t) \in Token /\ IsFamily(Family(t))
  BY DEF RefreshLoad, Base, RowOK, RowFacts, Born
<1>1. [Idle EXCEPT !.pc = "loaded", !.held = t] \in Handler
  BY DEF Idle, Handler
<1>2. /\ req'[r] = [Idle EXCEPT !.pc = "loaded", !.held = t]
      /\ \A q \in Request \ {r} : req'[q] = req[q]
  BY <1>1, GotoType DEF RefreshLoad, Base
<1>3. req'[r].held = t /\ req'[r].pc = "loaded"
  BY <1>2 DEF Idle
<1>4. ASSUME NEW f \in Token PROVE PhaseOf(f)' = PhaseOf(f)
  <2>1. CASE Family(t) = f
    <3>1. PhaseOf(f) = "live"
      BY <1>0, <2>1, LiveFamily
    <3>2. IsFamily(f)' /\ ~Dead(f)'
      BY <1>0, <2>1 DEF IsFamily, Family, Dead, Members
    <3> QED
      BY <3>1, <3>2 DEF PhaseOf
  <2>2. CASE Family(t) # f
    <3>1. \A q \in Request :
             /\ req'[q].pc \in Refreshing /\ row'[req'[q].held].family = f => q # r
             /\ req[q].pc \in Refreshing => q # r
      BY <1>0, <1>3, <2>2 DEF Family, Refreshing
    <3>2. InFlight(f)' <=> InFlight(f)
      BY <1>0, <1>2, <3>1 DEF InFlight, Busy, Family, Refreshing
    <3> QED
      BY <1>0, <3>2, PhaseKept DEF Family
  <2> QED
    BY <2>1, <2>2
<1>5. \A x \in Token : LifeOf(x)' = LifeOf(x) /\ Family(x)' = Family(x)
  BY <1>0 DEF LifeOf, Family
<1> QED
  BY <1>4, <1>5 DEF Promise!svars

LEMMA RotateRefines ==
  ASSUME Base, NEW r \in Request, FlushRotated(r)
  PROVE  \E S, D \in SUBSET Token : Promise!Spend(S, D)
<1> DEFINE p == req[r].held
           S == {x \in {p} : status[x] = "active"}
<1> PICK f : f = Family(p)
  OBVIOUS
<1>0. /\ req[r] \in Handler /\ req[r].pc = "loaded" /\ p \in Token /\ Born(p)
      /\ f \in Token /\ IsFamily(f)
  BY DEF FlushRotated, Base, TypeOK, ReqOK, ReqFacts, RowOK, RowFacts
<1>1. /\ [req[r] EXCEPT !.pc = "mint"] \in Handler
      /\ [req[r] EXCEPT !.pc = "mint"].pc = "mint"
      /\ [req[r] EXCEPT !.pc = "mint"].held = p
  BY <1>0 DEF Handler
<1>2. /\ req'[r].pc = "mint" /\ req'[r].held = p
      /\ \A q \in Request \ {r} : req'[q] = req[q]
      /\ row' = row
  BY <1>1, GotoType DEF FlushRotated, Base
<1>3. /\ status[p] # "none" /\ status'[p] \notin {"none", "active"}
      /\ \A x \in Token \ {p} : status'[x] = status[x]
  BY <1>0 DEF FlushRotated, Update, Base, TypeOK, Born
<1>4. ASSUME NEW x \in Token PROVE PhaseOf(x)' = PhaseOf(x)
  <2>1. CASE x = f
    <3>1. PhaseOf(f) = "live"
      BY <1>0, LiveFamily DEF Refreshing
    <3>2. IsFamily(f)' /\ InFlight(f)'
      BY <1>0, <1>2 DEF IsFamily, Family, InFlight, Busy
    <3> QED
      BY <2>1, <3>1, <3>2 DEF PhaseOf, Dead
  <2>2. CASE x # f
    <3>1. InFlight(x)' <=> InFlight(x)
      BY <1>0, <1>2 DEF InFlight, Busy, Family
    <3> QED
      BY <1>2, <1>3, <2>2, <3>1, PhaseKept DEF Family
  <2> QED
    BY <2>1, <2>2
<1>5. \A x \in Token : LifeOf(x)' = IF x \in S THEN "spent" ELSE LifeOf(x)
  BY <1>0, <1>3 DEF LifeOf
<1>6. \A x \in S : LifeOf(x) = "usable" /\ x \in Token
  BY <1>0 DEF LifeOf
<1>7. \A x \in Token : Family(x)' = Family(x)
  BY <1>2 DEF Family
<1> HIDE DEF S
<1>8. Promise!Spend(S, {})
  BY <1>4, <1>5, <1>6, <1>7 DEF Promise!Spend
<1> QED
  BY <1>6, <1>8

LEMMA QuietRefines ==
  ASSUME Base, [Next]_vars, Quiet
  PROVE  \E S, D \in SUBSET Token : Promise!Spend(S, D)
<1> DEFINE S == {t \in Token : status[t] = "active" /\ status'[t] # "active"}
           D == {f \in Token : IsFamily(f) /\ ~Dead(f) /\ Dead(f)'}
<1>1. row' = row /\ \A x \in Token : Family(x)' = Family(x) /\ (IsFamily(x)' <=> IsFamily(x))
  BY DEF Quiet, Family, IsFamily
<1>2. \A t \in Token : LifeOf(t)' = IF t \in S THEN "spent" ELSE LifeOf(t)
  BY DEF Quiet, LifeOf, Born
<1>3. \A t \in S : LifeOf(t) = "usable"
  BY DEF LifeOf
<1>4. \A f \in Token : PhaseOf(f)' = IF f \in D THEN "dead" ELSE PhaseOf(f)
  BY <1>1, DeadStays DEF PhaseOf, Dead
<1>5. \A f \in D : PhaseOf(f) = "live"
  BY DEF PhaseOf
<1>6. ASSUME NEW f \in D, NEW t \in Token \ S, f \in {Family(t)} \ {None}
      PROVE  LifeOf(t) # "usable"
  <2>1. status'[t] # "active"
    BY <1>1, <1>6 DEF Dead, Members
  <2>2. status[t] # "active"
    BY <2>1
  <2> QED
    BY <2>2 DEF LifeOf
<1>7. S \in SUBSET Token /\ D \in SUBSET Token
  OBVIOUS
<1> HIDE DEF S, D
<1>8. Promise!Spend(S, D)
  BY <1>1, <1>2, <1>3, <1>4, <1>5, <1>6, <1>7 DEF Promise!Spend
<1> QED
  BY <1>7, <1>8

(* The handlers implement the promise: no token is usable again once it was *)
(* consumed or revoked, and no dead session gets a usable token.            *)
THEOREM Refinement == Spec => PromiseKept
<1>1. Base /\ [Next]_vars => [Promise!SNext]_(Promise!svars)
  BY StepKinds, OpenRefines, MintRefines, LoadRefines, RotateRefines, QuietRefines
  DEF Promise!SNext
<1> QED
  BY BaseInvariant, PromiseInit, <1>1, PTL DEF Spec, PromiseKept, Promise!SSpec
=============================================================================
