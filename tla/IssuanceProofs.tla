---------------------------- MODULE IssuanceProofs ----------------------------
(***************************************************************************)
(* Theorems about what issueTokenSet makes an access token of: the claims   *)
(* that RbacCache resolves, and the key that SigningKeys gives to sign it.  *)
(*                                                                         *)
(* The first part holds for any users, applications, roles, permissions,    *)
(* fills and administrators.  The second holds for any keys, replicas,      *)
(* rotators, signers, period, lifetime and lateness: with two rotators that *)
(* overlap, with any number of them one at a time, and, for the tokens a    *)
(* key verifies, with any number at once.                                   *)
(***************************************************************************)
EXTENDS RbacCache, SigningKeys, TLAPS

-----------------------------------------------------------------------------
(* The claims of a token *)

(* A role that is assigned exists: its deletion takes the assignments along. *)
Existing == \A s \in Slot : \A r \in assigned[s] : role[r] = "exists"

(* A permission that is granted exists: it goes with its application.       *)
Granted == \A r \in Role : \A p \in granted[r] : AppOf[p] \notin deleted

(* What a fill has read gives the claims of its slot, unless they changed.  *)
Filling(f) ==
  /\ fill[f].pc # "idle" => fill[f].slot \in Slot
  /\ fill[f].pc = "missed" => fill[f].claims = NoClaims
  /\ fill[f].pc \in Reading /\ ~fill[f].overlapped =>
       /\ fill[f].held = assigned[fill[f].slot]
       /\ fill[f].pc = "grants" => fill[f].claims.roles = fill[f].held
       /\ fill[f].pc \in {"permissions", "write"} => fill[f].claims = Current(fill[f].slot)

(* An administrator past the find knows the role, and the slot. *)
Working(m) ==
  /\ adm[m].pc = "remove" => adm[m].slot \in Slot /\ adm[m].role \in Role
  /\ adm[m].pc \in {"replace", "holders"} => adm[m].role \in Role

FreshSlot(s) == Stale(s) => cache[s].tainted \/ \E m \in Admin : Owes(m, s)

CInv ==
  /\ CacheTypeOK /\ Existing /\ Granted
  /\ \A f \in Resolver : Filling(f)
  /\ \A m \in Admin : Working(m)
  /\ \A s \in Slot : FreshSlot(s)

-----------------------------------------------------------------------------
LEMMA Constants ==
  /\ NoFill \in Fill /\ NoFill.pc = "idle" /\ NoFill.slot = NoSlot /\ NoFill.claims = NoClaims
  /\ ~NoFill.overlapped
  /\ NoWork \in Work /\ NoWork.pc = "idle"
  /\ Absent \in Entry /\ NoClaims \in Claims
  BY DEF NoFill, Fill, NoWork, Work, Absent, Entry, NoClaims, Claims

LEMMA InitInv == CInit => CInv
<1> SUFFICES ASSUME CInit PROVE CInv
  OBVIOUS
<1>1. CacheTypeOK
  BY Constants DEF CInit, CacheTypeOK
<1>2. Existing /\ Granted
  BY DEF CInit, Existing, Granted
<1>3. \A f \in Resolver : Filling(f)
  BY Constants DEF CInit, Filling, Reading
<1>4. \A m \in Admin : Working(m)
  BY Constants DEF CInit, Working
<1>5. \A s \in Slot : FreshSlot(s)
  BY DEF CInit, FreshSlot, Stale, Cached
<1> QED
  BY <1>1, <1>2, <1>3, <1>4, <1>5 DEF CInv

-----------------------------------------------------------------------------
(* Changes of the claims *)

(* The claims of a slot are well typed and determine its roles. *)
LEMMA ClaimsTyped ==
  ASSUME NEW ass \in [Slot -> SUBSET Role], NEW gra \in [Role -> SUBSET Permission], NEW s \in Slot
  PROVE  ClaimsIn(ass, gra, s) \in Claims /\ ClaimsIn(ass, gra, s).roles = ass[s]
<1>1. UNION {gra[r] : r \in ass[s]} \in SUBSET Permission
  OBVIOUS
<1> QED
  BY <1>1 DEF ClaimsIn, Claims

(* A change notes every fill under which claims changed, and leaves no      *)
(* other with claims it did not read.                                       *)
LEMMA ChangeKept ==
  ASSUME CInv,
         NEW ass \in [Slot -> SUBSET Role], NEW gra \in [Role -> SUBSET Permission],
         ChangeClaims(ass, gra)
  PROVE  /\ assigned' = ass /\ granted' = gra /\ fill' \in [Resolver -> Fill]
         /\ \A f \in Resolver : Filling(f)'
<1>1. assigned' = ass /\ granted' = gra
  BY DEF ChangeClaims
<1>2. ASSUME NEW f \in Resolver
      PROVE  \/ fill'[f] = fill[f] /\ ~(fill[f].pc \in Reading /\ ClaimsIn(ass, gra, fill[f].slot) # Current(fill[f].slot))
             \/ fill'[f] = [fill[f] EXCEPT !.overlapped = TRUE] /\ fill[f].pc \in Reading
  BY DEF ChangeClaims
<1>3. \A f \in Resolver : fill[f] \in Fill
  BY DEF CInv, CacheTypeOK
<1>4. \A h \in Fill : [h EXCEPT !.overlapped = TRUE] \in Fill
  BY DEF Fill
<1>5. fill' \in [Resolver -> Fill]
  <2>1. fill' = [f \in Resolver |-> fill'[f]]
    BY DEF ChangeClaims
  <2>2. \A f \in Resolver : fill'[f] \in Fill
    BY <1>2, <1>3, <1>4
  <2> QED
    BY <2>1, <2>2
<1>6. ASSUME NEW f \in Resolver PROVE Filling(f)'
  <2>1. CASE fill'[f] = [fill[f] EXCEPT !.overlapped = TRUE] /\ fill[f].pc \in Reading
    <3>1. fill'[f].overlapped /\ fill'[f].pc = fill[f].pc /\ fill'[f].slot = fill[f].slot
      BY <1>3, <2>1 DEF Fill
    <3> QED
      BY <2>1, <3>1 DEF CInv, Filling, Reading
  <2>2. CASE fill'[f] = fill[f] /\ ~(fill[f].pc \in Reading /\ ClaimsIn(ass, gra, fill[f].slot) # Current(fill[f].slot))
    <3>1. CASE fill[f].pc \notin Reading
      BY <2>2, <3>1 DEF CInv, Filling, Reading
    <3>2. CASE fill[f].pc \in Reading
      <4>1. fill[f].slot \in Slot /\ Filling(f)
        BY <3>2 DEF CInv, Filling, Reading
      <4>2. ClaimsIn(ass, gra, fill[f].slot) = Current(fill[f].slot)
        BY <2>2, <3>2
      <4>3. ass[fill[f].slot] = assigned[fill[f].slot]
        <5>1. assigned \in [Slot -> SUBSET Role] /\ granted \in [Role -> SUBSET Permission]
          BY DEF CInv, CacheTypeOK
        <5>2. Current(fill[f].slot).roles = assigned[fill[f].slot]
          BY <4>1, <5>1, ClaimsTyped DEF Current
        <5>3. ClaimsIn(ass, gra, fill[f].slot).roles = ass[fill[f].slot]
          BY <4>1, ClaimsTyped
        <5> QED
          BY <4>2, <5>2, <5>3
      <4>4. Current(fill[f].slot)' = Current(fill[f].slot)
        BY <1>1, <2>2, <4>2 DEF Current
      <4> QED
        BY <1>1, <2>2, <4>1, <4>3, <4>4 DEF Filling
    <3> QED
      BY <3>1, <3>2
  <2> QED
    BY <1>2, <2>1, <2>2
<1> QED
  BY <1>1, <1>5, <1>6

(* An administrator goes on; the others stay where they are. *)
LEMMA AdminMoves ==
  ASSUME CInv, NEW m \in Admin, NEW w \in Work, adm' = [adm EXCEPT ![m] = w]
  PROVE  /\ adm' \in [Admin -> Work] /\ adm'[m] = w
         /\ \A n \in Admin : n # m => adm'[n] = adm[n]
  BY DEF CInv, CacheTypeOK

LEMMA WorkKept ==
  ASSUME CInv, NEW m \in Admin, NEW w \in Work, adm' = [adm EXCEPT ![m] = w],
         w.pc = "remove" => w.slot \in Slot /\ w.role \in Role,
         w.pc \in {"replace", "holders"} => w.role \in Role
  PROVE  adm' \in [Admin -> Work] /\ \A n \in Admin : Working(n)'
<1>1. ASSUME NEW n \in Admin PROVE Working(n)'
  <2>1. CASE n = m
    BY <2>1, AdminMoves DEF Working
  <2>2. CASE n # m
    BY <2>2, AdminMoves DEF CInv, Working
  <2> QED
    BY <2>1, <2>2
<1> QED
  BY <1>1, AdminMoves

(* A fill goes on; the others stay where they are. *)
LEMMA FillKept ==
  ASSUME CInv, NEW f \in Resolver, NEW h \in Fill, fill' = [fill EXCEPT ![f] = h], UNCHANGED db,
         h.pc # "idle" => h.slot \in Slot,
         h.pc = "missed" => h.claims = NoClaims,
         h.pc \in Reading /\ ~h.overlapped =>
           /\ h.held = assigned[h.slot]
           /\ h.pc = "grants" => h.claims.roles = h.held
           /\ h.pc \in {"permissions", "write"} => h.claims = Current(h.slot)
  PROVE  fill' \in [Resolver -> Fill] /\ \A g \in Resolver : Filling(g)'
<1>1. fill \in [Resolver -> Fill] /\ assigned' = assigned /\ granted' = granted
  BY DEF CInv, CacheTypeOK, db
<1>2. \A g \in Resolver : fill'[g] = IF g = f THEN h ELSE fill[g]
  BY <1>1
<1>3. ASSUME NEW g \in Resolver PROVE Filling(g)'
  <2>1. CASE g = f
    BY <1>1, <1>2, <2>1 DEF Filling, Current, Reading
  <2>2. CASE g # f
    BY <1>1, <1>2, <2>2 DEF CInv, Filling, Current, Reading
  <2> QED
    BY <2>1, <2>2
<1> QED
  BY <1>1, <1>3

(* Nothing the fills have read changes. *)
LEMMA FillsStay ==
  ASSUME CInv, UNCHANGED <<assigned, granted, fill>>
  PROVE  fill' \in [Resolver -> Fill] /\ \A f \in Resolver : Filling(f)'
  BY DEF CInv, CacheTypeOK, Filling, Current, Reading

LEMMA WorkStays ==
  ASSUME CInv, UNCHANGED adm
  PROVE  adm' \in [Admin -> Work] /\ \A m \in Admin : Working(m)'
  BY DEF CInv, CacheTypeOK, Working

(* An entry is as fresh as before where the claims, the entry and who owes  *)
(* its deletion are.                                                        *)
LEMMA FreshKept ==
  ASSUME CInv, NEW s \in Slot, cache'[s] = cache[s], Current(s)' = Current(s),
         \A m \in Admin : Owes(m, s) => \E n \in Admin : Owes(n, s)'
  PROVE  FreshSlot(s)'
  BY DEF CInv, FreshSlot, Stale, Cached

LEMMA OweKept ==
  ASSUME NEW m \in Admin, NEW s \in Slot, adm'[m] = adm[m], assigned'[s] = assigned[s], Owes(m, s)
  PROVE  Owes(m, s)'
  BY DEF Owes

-----------------------------------------------------------------------------
(* resolve *)

(* A fill that does not write leaves the entries as fresh as they were. *)
LEMMA ReadsKept ==
  ASSUME CInv, UNCHANGED <<db, cache, adm>>, fill' \in [Resolver -> Fill],
         \A g \in Resolver : Filling(g)'
  PROVE  CInv'
<1>1. CacheTypeOK' /\ Existing' /\ Granted'
  BY DEF CInv, CacheTypeOK, Existing, Granted, db
<1>2. \A m \in Admin : Working(m)'
  BY WorkStays
<1>3. \A s \in Slot : FreshSlot(s)'
  <2> TAKE s \in Slot
  <2>1. cache'[s] = cache[s] /\ Current(s)' = Current(s) /\ \A m \in Admin : Owes(m, s) => Owes(m, s)'
    BY DEF db, Current, Owes
  <2> QED
    BY <2>1, FreshKept
<1> QED
  BY <1>1, <1>2, <1>3 DEF CInv

LEMMA MissKept ==
  ASSUME CInv, NEW f \in Resolver, NEW s \in Slot, Miss(f, s)
  PROVE  CInv'
<1> DEFINE h == [NoFill EXCEPT !.pc = "missed", !.slot = s]
<1>1. h \in Fill /\ h.pc = "missed" /\ h.slot = s /\ h.claims = NoClaims
  BY DEF NoFill, Fill, NoClaims, Claims
<1>2. fill' = [fill EXCEPT ![f] = h] /\ UNCHANGED <<db, cache, adm>>
  BY DEF Miss
<1> HIDE DEF h
<1>3. fill' \in [Resolver -> Fill] /\ \A g \in Resolver : Filling(g)'
  BY <1>1, <1>2, FillKept DEF Reading
<1> QED
  BY <1>2, <1>3, ReadsKept

LEMMA AbortFillKept ==
  ASSUME CInv, NEW f \in Resolver, AbortFill(f)
  PROVE  CInv'
<1>1. fill' = [fill EXCEPT ![f] = NoFill] /\ UNCHANGED <<db, cache, adm>>
  BY DEF AbortFill
<1>2. fill' \in [Resolver -> Fill] /\ \A g \in Resolver : Filling(g)'
  BY <1>1, Constants, FillKept DEF Reading
<1> QED
  BY <1>1, <1>2, ReadsKept

LEMMA ReadAssignmentsKept ==
  ASSUME CInv, NEW f \in Resolver, ReadAssignments(f)
  PROVE  CInv'
<1> DEFINE s == fill[f].slot
           h == [fill[f] EXCEPT !.held = assigned[s], !.pc = IF assigned[s] = {} THEN "write" ELSE "roles"]
<1>1. fill \in [Resolver -> Fill] /\ fill[f] \in Fill /\ fill[f].pc = "missed" /\ Filling(f)
  BY DEF ReadAssignments, CInv, CacheTypeOK
<1>2. s \in Slot /\ fill[f].claims = NoClaims /\ assigned[s] \in SUBSET Role
  BY <1>1 DEF Filling, CInv, CacheTypeOK
<1>3. /\ h \in Fill /\ h.slot = s /\ h.held = assigned[s] /\ h.claims = NoClaims
      /\ h.pc = IF assigned[s] = {} THEN "write" ELSE "roles"
  BY <1>1, <1>2 DEF Fill
<1>4. fill' = [fill EXCEPT ![f] = h] /\ UNCHANGED <<db, cache, adm>>
  BY <1>1 DEF ReadAssignments
<1>5. assigned[s] = {} => Current(s) = NoClaims
  BY DEF Current, ClaimsIn, NoClaims
<1> HIDE DEF h, s
<1>6. fill' \in [Resolver -> Fill] /\ \A g \in Resolver : Filling(g)'
  BY <1>2, <1>3, <1>4, <1>5, FillKept
<1> QED
  BY <1>4, <1>6, ReadsKept

LEMMA ReadRolesKept ==
  ASSUME CInv, NEW f \in Resolver, ReadRoles(f)
  PROVE  CInv'
<1> DEFINE s == fill[f].slot
           found == {r \in fill[f].held : role[r] = "exists"}
           h == [fill[f] EXCEPT !.pc = "grants", !.claims.roles = found]
<1>1. fill \in [Resolver -> Fill] /\ fill[f] \in Fill /\ fill[f].pc = "roles" /\ Filling(f) /\ s \in Slot
  BY DEF ReadRoles, CInv, CacheTypeOK, Filling
<1>2. found \subseteq Role
  BY <1>1 DEF Fill
<1>3. /\ h \in Fill /\ h.slot = s /\ h.held = fill[f].held /\ h.claims.roles = found
      /\ h.pc = "grants" /\ h.overlapped = fill[f].overlapped
  BY <1>1, <1>2 DEF Fill, Claims
<1>4. fill' = [fill EXCEPT ![f] = h] /\ UNCHANGED <<db, cache, adm>>
  BY <1>1 DEF ReadRoles
<1>5. ~fill[f].overlapped => fill[f].held = assigned[s] /\ found = fill[f].held
  BY <1>1 DEF Filling, CInv, Existing, Reading
<1> HIDE DEF h, s, found
<1>6. fill' \in [Resolver -> Fill] /\ \A g \in Resolver : Filling(g)'
  BY <1>1, <1>3, <1>4, <1>5, FillKept
<1> QED
  BY <1>4, <1>6, ReadsKept

LEMMA ReadGrantsKept ==
  ASSUME CInv, NEW f \in Resolver, ReadGrants(f)
  PROVE  CInv'
<1> DEFINE s == fill[f].slot
           perms == UNION {granted[r] : r \in fill[f].held}
           next == IF perms = {} THEN "write" ELSE "permissions"
           h == [fill[f] EXCEPT !.claims.permissions = perms, !.pc = next]
<1>1. fill \in [Resolver -> Fill] /\ fill[f] \in Fill /\ fill[f].pc = "grants" /\ Filling(f) /\ s \in Slot
  BY DEF ReadGrants, CInv, CacheTypeOK, Filling
<1>2. perms \subseteq Permission /\ next \in {"write", "permissions"}
  BY <1>1 DEF Fill, CInv, CacheTypeOK
<1>3. fill' = [fill EXCEPT ![f] = h] /\ UNCHANGED <<db, cache, adm>>
  BY <1>1 DEF ReadGrants
<1>4. ~fill[f].overlapped => fill[f].held = assigned[s] /\ fill[f].claims.roles = fill[f].held
  BY <1>1 DEF Filling, Reading
<1>5. fill[f].held = assigned[s] => Current(s) = [roles |-> assigned[s], permissions |-> perms]
  BY DEF Current, ClaimsIn
<1> HIDE DEF perms, next
<1>6. /\ h \in Fill /\ h.slot = s /\ h.held = fill[f].held
      /\ h.claims = [roles |-> fill[f].claims.roles, permissions |-> perms]
      /\ h.pc \in {"write", "permissions"} /\ h.overlapped = fill[f].overlapped
  BY <1>1, <1>2 DEF Fill, Claims
<1> HIDE DEF h, s
<1>7. fill' \in [Resolver -> Fill] /\ \A g \in Resolver : Filling(g)'
  BY <1>1, <1>3, <1>4, <1>5, <1>6, FillKept
<1> QED
  BY <1>3, <1>7, ReadsKept

(* A fill that no change overlapped finds every permission it looks for. *)
LEMMA ReadPermissionsKept ==
  ASSUME CInv, NEW f \in Resolver, ReadPermissions(f)
  PROVE  CInv'
<1> DEFINE s == fill[f].slot
           perms == {p \in fill[f].claims.permissions : AppOf[p] \notin deleted}
           h == [fill[f] EXCEPT !.pc = "write", !.claims.permissions = perms]
<1>1. fill \in [Resolver -> Fill] /\ fill[f] \in Fill /\ fill[f].pc = "permissions" /\ Filling(f) /\ s \in Slot
  BY DEF ReadPermissions, CInv, CacheTypeOK, Filling
<1>2. perms \subseteq Permission
  BY <1>1 DEF Fill, Claims
<1>3. fill' = [fill EXCEPT ![f] = h] /\ UNCHANGED <<db, cache, adm>>
  BY <1>1 DEF ReadPermissions
<1>4. /\ h \in Fill /\ h.slot = s /\ h.held = fill[f].held
      /\ h.claims = [roles |-> fill[f].claims.roles, permissions |-> perms]
      /\ h.pc = "write" /\ h.overlapped = fill[f].overlapped
  BY <1>1, <1>2 DEF Fill, Claims
<1>5. ~fill[f].overlapped => fill[f].held = assigned[s] /\ fill[f].claims = Current(s)
  BY <1>1 DEF Filling, Reading
<1>6. \A p \in Current(s).permissions : AppOf[p] \notin deleted
  BY <1>1 DEF CInv, CacheTypeOK, Granted, Current, ClaimsIn
<1>7. ~fill[f].overlapped => perms = fill[f].claims.permissions
  BY <1>5, <1>6
<1>8. fill[f].claims = [roles |-> fill[f].claims.roles, permissions |-> fill[f].claims.permissions]
  BY <1>1 DEF Fill, Claims
<1>9. ~fill[f].overlapped => h.held = assigned[s] /\ h.claims = Current(s)
  BY <1>4, <1>5, <1>7, <1>8
<1> HIDE DEF h, s, perms
<1>10. fill' \in [Resolver -> Fill] /\ \A g \in Resolver : Filling(g)'
  BY <1>1, <1>3, <1>4, <1>9, FillKept
<1> QED
  BY <1>3, <1>10, ReadsKept

(* The entry is written: what the fill read, or tainted. *)
LEMMA WriteKept ==
  ASSUME CInv, NEW f \in Resolver, Write(f)
  PROVE  CInv'
<1> DEFINE s == fill[f].slot
           e == [claims |-> fill[f].claims, expires |-> TRUE, tainted |-> fill[f].overlapped]
<1>1. fill[f] \in Fill /\ s \in Slot /\ Filling(f) /\ fill[f].pc = "write"
  BY DEF Write, CInv, CacheTypeOK, Filling
<1>2. e \in Entry /\ e.claims = fill[f].claims /\ e.tainted = fill[f].overlapped
  BY <1>1 DEF Fill, Entry
<1>3. cache' = [cache EXCEPT ![s] = e] /\ fill' = [fill EXCEPT ![f] = NoFill] /\ UNCHANGED <<db, adm>>
  BY DEF Write
<1>4. ~fill[f].overlapped => fill[f].claims = Current(s)
  BY <1>1 DEF Filling, Reading
<1> HIDE DEF e, s
<1>5. fill' \in [Resolver -> Fill] /\ \A g \in Resolver : Filling(g)'
  BY <1>3, Constants, FillKept DEF Reading
<1>6. CacheTypeOK' /\ Existing' /\ Granted'
  BY <1>1, <1>2, <1>3, <1>5 DEF CInv, CacheTypeOK, Existing, Granted, db
<1>7. \A m \in Admin : Working(m)'
  BY <1>3, WorkStays
<1>8. ASSUME NEW t \in Slot PROVE FreshSlot(t)'
  <2>1. Current(t)' = Current(t) /\ \A m \in Admin : Owes(m, t) => Owes(m, t)'
    BY <1>3 DEF db, Current, Owes
  <2>2. CASE t = s
    <3>1. cache'[t] = e
      BY <1>1, <1>3, <2>2 DEF CInv, CacheTypeOK
    <3> QED
      BY <1>2, <1>4, <2>1, <2>2, <3>1 DEF FreshSlot, Stale
  <2>3. CASE t # s
    <3>1. cache'[t] = cache[t]
      BY <1>3, <2>3 DEF CInv, CacheTypeOK
    <3> QED
      BY <2>1, <3>1, FreshKept
  <2> QED
    BY <2>2, <2>3
<1> QED
  BY <1>5, <1>6, <1>7, <1>8 DEF CInv

-----------------------------------------------------------------------------
(* Roles, permissions and assignments *)

LEMMA CreateRoleKept ==
  ASSUME CInv, NEW r \in Role, CreateRole(r)
  PROVE  CInv'
<1>1. UNCHANGED <<assigned, granted, deleted, cache, fill, adm>> /\ role' = [role EXCEPT ![r] = "exists"]
  BY DEF CreateRole
<1>2. CacheTypeOK' /\ Existing' /\ Granted'
  BY <1>1 DEF CInv, CacheTypeOK, Existing, Granted
<1>3. (\A f \in Resolver : Filling(f)') /\ \A m \in Admin : Working(m)'
  BY <1>1, FillsStay, WorkStays
<1>4. \A s \in Slot : FreshSlot(s)'
  <2> TAKE s \in Slot
  <2>1. cache'[s] = cache[s] /\ Current(s)' = Current(s) /\ \A m \in Admin : Owes(m, s) => Owes(m, s)'
    BY <1>1 DEF Current, Owes
  <2> QED
    BY <2>1, FreshKept
<1> QED
  BY <1>2, <1>3, <1>4 DEF CInv

(* A writer that invalidates nothing taints the entries whose claims it     *)
(* changes, and leaves the others with whoever owes their deletion.         *)
LEMMA SilentKept ==
  ASSUME CInv,
         NEW ass \in [Slot -> SUBSET Role], NEW gra \in [Role -> SUBSET Permission],
         ChangeSilently(ass, gra), UNCHANGED adm,
         role' \in [Role -> {"none", "exists", "deleted"}], deleted' \subseteq App,
         Existing', Granted'
  PROVE  CInv'
<1>1. /\ ChangeClaims(ass, gra)
      /\ cache' = [s \in Slot |->
           IF Cached(s) /\ ClaimsIn(ass, gra, s) # Current(s)
           THEN [cache[s] EXCEPT !.tainted = TRUE] ELSE cache[s]]
  BY DEF ChangeSilently
<1>2. /\ assigned' = ass /\ granted' = gra /\ fill' \in [Resolver -> Fill]
      /\ \A f \in Resolver : Filling(f)'
  BY <1>1, ChangeKept
<1>3. \A s \in Slot : /\ cache[s] \in Entry /\ [cache[s] EXCEPT !.tainted = TRUE] \in Entry
                      /\ [cache[s] EXCEPT !.tainted = TRUE].tainted
  BY DEF CInv, CacheTypeOK, Entry
<1>4. cache' \in [Slot -> Entry]
  BY <1>1, <1>3
<1>5. adm' \in [Admin -> Work] /\ \A m \in Admin : Working(m)'
  BY WorkStays
<1>6. CacheTypeOK'
  BY <1>2, <1>4, <1>5 DEF CacheTypeOK
<1>7. ASSUME NEW s \in Slot PROVE FreshSlot(s)'
  <2>1. CASE Cached(s) /\ ClaimsIn(ass, gra, s) # Current(s)
    <3>1. cache'[s].tainted
      BY <1>1, <1>3, <2>1
    <3> QED
      BY <3>1 DEF FreshSlot
  <2>2. CASE ~Cached(s)
    <3>1. cache'[s] = Absent
      BY <1>1, <2>2 DEF Cached
    <3> QED
      BY <3>1 DEF FreshSlot, Stale, Cached
  <2>3. CASE ClaimsIn(ass, gra, s) = Current(s)
    <3>1. cache'[s] = cache[s] /\ Current(s)' = Current(s)
      BY <1>1, <1>2, <2>3 DEF Current
    <3>2. assigned'[s] = assigned[s]
      <4>1. assigned \in [Slot -> SUBSET Role] /\ granted \in [Role -> SUBSET Permission]
        BY DEF CInv, CacheTypeOK
      <4>2. Current(s).roles = assigned[s]
        BY <4>1, ClaimsTyped DEF Current
      <4>3. ClaimsIn(ass, gra, s).roles = ass[s]
        BY ClaimsTyped
      <4> QED
        BY <1>2, <2>3, <4>2, <4>3
    <3>3. \A m \in Admin : Owes(m, s) => Owes(m, s)'
      BY <3>2 DEF Owes
    <3> QED
      BY <3>1, <3>3, FreshKept
  <2> QED
    BY <2>1, <2>2, <2>3
<1> QED
  BY <1>2, <1>5, <1>6, <1>7 DEF CInv

LEMMA DeleteRoleKept ==
  ASSUME CInv, NEW r \in Role, DeleteRole(r)
  PROVE  CInv'
<1> DEFINE ass == [s \in Slot |-> assigned[s] \ {r}]
           gra == [granted EXCEPT ![r] = {}]
<1>1. ass \in [Slot -> SUBSET Role] /\ gra \in [Role -> SUBSET Permission]
  BY DEF CInv, CacheTypeOK
<1>2. /\ ChangeSilently(ass, gra) /\ role' = [role EXCEPT ![r] = "deleted"]
      /\ UNCHANGED <<deleted, adm>>
  BY DEF DeleteRole
<1>3. (\A s \in Slot : ass[s] = assigned[s] \ {r}) /\ \A q \in Role : gra[q] \subseteq granted[q]
  BY DEF CInv, CacheTypeOK
<1> HIDE DEF ass, gra
<1>4. assigned' = ass /\ granted' = gra
  BY <1>2 DEF ChangeSilently, ChangeClaims
<1>5. role' \in [Role -> {"none", "exists", "deleted"}] /\ deleted' \subseteq App
  BY <1>2 DEF CInv, CacheTypeOK
<1>6. Existing'
  <2> SUFFICES ASSUME NEW s \in Slot, NEW q \in assigned'[s] PROVE role'[q] = "exists"
    BY DEF Existing
  <2>1. q \in assigned[s] /\ q # r /\ q \in Role
    BY <1>3, <1>4 DEF CInv, CacheTypeOK
  <2> QED
    BY <1>2, <2>1 DEF CInv, CacheTypeOK, Existing
<1>7. Granted'
  BY <1>2, <1>3, <1>4 DEF CInv, Granted
<1> QED
  BY <1>1, <1>2, <1>5, <1>6, <1>7, SilentKept

LEMMA DeleteAppKept ==
  ASSUME CInv, NEW a \in App, DeleteApp(a)
  PROVE  CInv'
<1> DEFINE ass == [s \in Slot |-> IF s[2] = a THEN {} ELSE {r \in assigned[s] : AppOf[r] # a}]
           gra == [r \in Role |-> IF AppOf[r] = a THEN {} ELSE {p \in granted[r] : AppOf[p] # a}]
<1>1. ass \in [Slot -> SUBSET Role] /\ gra \in [Role -> SUBSET Permission]
  BY DEF CInv, CacheTypeOK
<1>2. /\ ChangeSilently(ass, gra) /\ UNCHANGED adm /\ deleted' = deleted \cup {a}
      /\ role' = [r \in Role |->
                    IF AppOf[r] = a /\ role[r] = "exists" THEN "deleted" ELSE role[r]]
  BY DEF DeleteApp
<1>3. /\ \A s \in Slot : \A r \in ass[s] : r \in assigned[s] /\ AppOf[r] # a
      /\ \A r \in Role : \A p \in gra[r] : p \in granted[r] /\ AppOf[p] # a
  OBVIOUS
<1> HIDE DEF ass, gra
<1>4. assigned' = ass /\ granted' = gra
  BY <1>2 DEF ChangeSilently, ChangeClaims
<1>5. role' \in [Role -> {"none", "exists", "deleted"}] /\ deleted' \subseteq App
  BY <1>2 DEF CInv, CacheTypeOK
<1>6. Existing'
  <2> SUFFICES ASSUME NEW s \in Slot, NEW q \in assigned'[s] PROVE role'[q] = "exists"
    BY DEF Existing
  <2>1. q \in assigned[s] /\ AppOf[q] # a
    BY <1>3, <1>4
  <2>2. q \in Role /\ role[q] = "exists"
    BY <2>1 DEF CInv, CacheTypeOK, Existing
  <2> QED
    BY <1>2, <2>1, <2>2
<1>7. Granted'
  BY <1>2, <1>3, <1>4 DEF CInv, Granted
<1> QED
  BY <1>1, <1>2, <1>5, <1>6, <1>7, SilentKept

LEMMA SeedAssignKept ==
  ASSUME CInv, NEW s \in Slot, NEW r \in Role, SeedAssign(s, r)
  PROVE  CInv'
<1> DEFINE ass == [assigned EXCEPT ![s] = @ \cup {r}]
<1>1. ass \in [Slot -> SUBSET Role] /\ granted \in [Role -> SUBSET Permission]
  BY DEF CInv, CacheTypeOK
<1>2. ChangeSilently(ass, granted) /\ role[r] = "exists" /\ UNCHANGED <<role, deleted, adm>>
  BY DEF SeedAssign
<1>3. \A t \in Slot : \A q \in ass[t] : q = r \/ q \in assigned[t]
  BY DEF CInv, CacheTypeOK
<1> HIDE DEF ass
<1>4. assigned' = ass /\ granted' = granted
  BY <1>2 DEF ChangeSilently, ChangeClaims
<1>5. role' \in [Role -> {"none", "exists", "deleted"}] /\ deleted' \subseteq App
  BY <1>2 DEF CInv, CacheTypeOK
<1>6. Existing' /\ Granted'
  BY <1>2, <1>3, <1>4 DEF CInv, Existing, Granted
<1> QED
  BY <1>1, <1>2, <1>5, <1>6, SilentKept

(* An administrator who owed nothing changes the roles of one slot and owes *)
(* the user the deletion of their entries.                                  *)
LEMMA AssignmentKept ==
  ASSUME CInv, NEW m \in Admin, NEW s \in Slot, NEW roles \in SUBSET Role,
         \A r \in roles : role[r] = "exists",
         adm[m].pc \in {"idle", "remove"},
         ChangeClaims([assigned EXCEPT ![s] = roles], granted),
         adm' = [adm EXCEPT ![m] = [NoWork EXCEPT !.pc = "invalidate", !.todo = {s[1]}]],
         UNCHANGED <<role, deleted, cache>>
  PROVE  CInv'
<1> DEFINE ass == [assigned EXCEPT ![s] = roles]
           w == [NoWork EXCEPT !.pc = "invalidate", !.todo = {s[1]}]
<1>1. ass \in [Slot -> SUBSET Role] /\ granted \in [Role -> SUBSET Permission]
  BY DEF CInv, CacheTypeOK
<1>2. ass[s] = roles /\ \A t \in Slot : t # s => ass[t] = assigned[t]
  BY DEF CInv, CacheTypeOK
<1>3. w \in Work /\ w.pc = "invalidate" /\ w.todo = {s[1]}
  BY DEF NoWork, Work, Slot
<1>4. adm' = [adm EXCEPT ![m] = w] /\ ChangeClaims(ass, granted)
  OBVIOUS
<1> HIDE DEF ass, w
<1>5. /\ assigned' = ass /\ granted' = granted /\ fill' \in [Resolver -> Fill]
      /\ \A f \in Resolver : Filling(f)'
  BY <1>1, <1>4, ChangeKept
<1>6. adm' \in [Admin -> Work] /\ \A n \in Admin : Working(n)'
  BY <1>3, <1>4, WorkKept
<1>7. CacheTypeOK'
  BY <1>1, <1>5, <1>6 DEF CInv, CacheTypeOK
<1>8. Existing' /\ Granted'
  BY <1>2, <1>5 DEF CInv, Existing, Granted
<1>9. ASSUME NEW t \in Slot PROVE FreshSlot(t)'
  <2>1. CASE t = s
    <3>1. Owes(m, t)'
      BY <1>3, <1>4, <2>1, AdminMoves DEF Owes
    <3> QED
      BY <3>1 DEF FreshSlot
  <2>2. CASE t # s
    <3>1. assigned'[t] = assigned[t]
      BY <1>2, <1>5, <2>2
    <3>2. Current(t)' = Current(t)
      BY <1>5, <3>1 DEF Current, ClaimsIn
    <3>3. ASSUME NEW n \in Admin, Owes(n, t) PROVE Owes(n, t)'
      <4>1. n # m
        BY <3>3 DEF Owes
      <4>2. adm'[n] = adm[n]
        BY <1>3, <1>4, <4>1, AdminMoves
      <4> QED
        BY <3>1, <3>3, <4>2, OweKept
    <3> QED
      BY <3>2, <3>3, FreshKept
  <2> QED
    BY <2>1, <2>2
<1> QED
  BY <1>5, <1>6, <1>7, <1>8, <1>9 DEF CInv

LEMMA AssignRoleKept ==
  ASSUME CInv, NEW m \in Admin, NEW s \in Slot, NEW r \in Role, AssignRole(m, s, r)
  PROVE  CInv'
<1> DEFINE roles == assigned[s] \cup {r}
<1>1. roles \in SUBSET Role /\ \A q \in roles : role[q] = "exists"
  BY DEF AssignRole, CInv, CacheTypeOK, Existing
<1>2. /\ adm[m].pc = "idle" /\ ChangeClaims([assigned EXCEPT ![s] = roles], granted)
      /\ adm' = [adm EXCEPT ![m] = [NoWork EXCEPT !.pc = "invalidate", !.todo = {s[1]}]]
      /\ UNCHANGED <<role, deleted, cache>>
  BY DEF AssignRole
<1> HIDE DEF roles
<1> QED
  BY <1>1, <1>2, AssignmentKept

LEMMA RemoveAssignmentKept ==
  ASSUME CInv, NEW m \in Admin, RemoveAssignment(m)
  PROVE  CInv'
<1> DEFINE s == adm[m].slot
           roles == assigned[s] \ {adm[m].role}
<1>1. s \in Slot /\ adm[m].pc = "remove"
  BY DEF RemoveAssignment, CInv, Working
<1>2. roles \in SUBSET Role /\ \A q \in roles : role[q] = "exists"
  BY <1>1 DEF CInv, CacheTypeOK, Existing
<1>3. /\ ChangeClaims([assigned EXCEPT ![s] = roles], granted)
      /\ adm' = [adm EXCEPT ![m] = [NoWork EXCEPT !.pc = "invalidate", !.todo = {s[1]}]]
      /\ UNCHANGED <<role, deleted, cache>>
  BY DEF RemoveAssignment
<1> HIDE DEF roles, s
<1> QED
  BY <1>1, <1>2, <1>3, AssignmentKept

LEMMA ReplaceGrantsKept ==
  ASSUME CInv, NEW m \in Admin, ReplaceGrants(m)
  PROVE  CInv'
<1> DEFINE r == adm[m].role
           gra == [granted EXCEPT ![r] = (@ \ adm[m].rows) \cup adm[m].wanted]
           w == [NoWork EXCEPT !.pc = "holders", !.role = r]
<1>1. r \in Role /\ adm[m].pc = "replace" /\ adm[m].wanted \subseteq Permission
  BY DEF ReplaceGrants, CInv, Working, CacheTypeOK, Work
<1>2. /\ gra \in [Role -> SUBSET Permission] /\ assigned \in [Slot -> SUBSET Role]
      /\ \A q \in Role : q # r => gra[q] = granted[q]
      /\ gra[r] \subseteq granted[r] \cup adm[m].wanted
  BY <1>1 DEF CInv, CacheTypeOK
<1>3. w \in Work /\ w.pc = "holders" /\ w.role = r
  BY <1>1 DEF NoWork, Work
<1>4. /\ ChangeClaims(assigned, gra) /\ adm' = [adm EXCEPT ![m] = w]
      /\ UNCHANGED <<role, deleted, cache>>
  BY DEF ReplaceGrants
<1> HIDE DEF gra, w, r
<1>5. /\ assigned' = assigned /\ granted' = gra /\ fill' \in [Resolver -> Fill]
      /\ \A f \in Resolver : Filling(f)'
  BY <1>2, <1>4, ChangeKept
<1>6. adm' \in [Admin -> Work] /\ \A n \in Admin : Working(n)'
  BY <1>1, <1>3, <1>4, WorkKept
<1>7. CacheTypeOK' /\ Existing' /\ Granted'
  <2>1. \A p \in adm[m].wanted : AppOf[p] \notin deleted
    BY DEF ReplaceGrants, ReplaceConflicts
  <2> QED
    BY <1>1, <1>2, <1>4, <1>5, <1>6, <2>1 DEF CInv, CacheTypeOK, Existing, Granted
<1>8. ASSUME NEW t \in Slot PROVE FreshSlot(t)'
  <2>1. CASE r \in assigned[t]
    <3>1. Owes(m, t)'
      BY <1>3, <1>4, <1>5, <2>1, AdminMoves DEF Owes
    <3> QED
      BY <3>1 DEF FreshSlot
  <2>2. CASE r \notin assigned[t]
    <3>1. \A q \in assigned[t] : granted'[q] = granted[q]
      BY <1>2, <1>5, <2>2
    <3>2. Current(t)' = Current(t)
      BY <1>5, <3>1 DEF Current, ClaimsIn
    <3>3. ASSUME NEW n \in Admin, Owes(n, t) PROVE Owes(n, t)'
      <4>1. n # m
        BY <1>1, <3>3 DEF Owes
      <4>2. adm'[n] = adm[n]
        BY <1>3, <1>4, <4>1, AdminMoves
      <4> QED
        BY <1>5, <3>3, <4>2, OweKept
    <3> QED
      BY <1>4, <3>2, <3>3, FreshKept
  <2> QED
    BY <2>1, <2>2
<1> QED
  BY <1>5, <1>6, <1>7, <1>8 DEF CInv

-----------------------------------------------------------------------------
(* Finds and invalidations *)

(* An administrator goes on; whatever entry is stale afterwards is tainted, *)
(* or it was stale before, as it is, and is still owed.                     *)
LEMMA AdminKept ==
  ASSUME CInv, NEW m \in Admin, NEW w \in Work, adm' = [adm EXCEPT ![m] = w],
         w.pc = "remove" => w.slot \in Slot /\ w.role \in Role,
         w.pc \in {"replace", "holders"} => w.role \in Role,
         UNCHANGED <<db, fill>>, cache' \in [Slot -> Entry],
         \A s \in Slot : \/ cache'[s] = Absent
                         \/ cache'[s].tainted
                         \/ cache'[s] = cache[s] /\ (Stale(s) /\ Owes(m, s) => Owes(m, s)')
  PROVE  CInv'
<1>1. UNCHANGED <<assigned, granted, role, deleted, fill>>
  BY DEF db
<1>2. adm' \in [Admin -> Work] /\ \A n \in Admin : Working(n)'
  BY WorkKept
<1>3. CacheTypeOK' /\ Existing' /\ Granted' /\ \A f \in Resolver : Filling(f)'
  BY <1>1, <1>2, FillsStay DEF CInv, CacheTypeOK, Existing, Granted
<1>4. ASSUME NEW s \in Slot PROVE FreshSlot(s)'
  <2>1. CASE cache'[s] = Absent
    BY <2>1 DEF FreshSlot, Stale, Cached
  <2>2. CASE cache'[s].tainted
    BY <2>2 DEF FreshSlot
  <2>3. CASE cache'[s] = cache[s] /\ (Stale(s) /\ Owes(m, s) => Owes(m, s)')
    <3> SUFFICES ASSUME Stale(s)', ~cache'[s].tainted PROVE \E n \in Admin : Owes(n, s)'
      BY DEF FreshSlot
    <3>1. Stale(s)
      BY <1>1, <2>3 DEF Stale, Cached, Current
    <3>2. PICK n \in Admin : Owes(n, s)
      BY <2>3, <3>1 DEF CInv, FreshSlot
    <3>3. CASE n = m
      BY <2>3, <3>1, <3>2, <3>3
    <3>4. CASE n # m
      <4>1. adm'[n] = adm[n]
        BY <3>4, AdminMoves
      <4> QED
        BY <1>1, <3>2, <4>1, OweKept
    <3> QED
      BY <3>3, <3>4
  <2> QED
    BY <2>1, <2>2, <2>3
<1> QED
  BY <1>2, <1>3, <1>4 DEF CInv

LEMMA CacheStays ==
  ASSUME CInv, UNCHANGED cache
  PROVE  cache' \in [Slot -> Entry] /\ \A s \in Slot : cache'[s] = cache[s]
  BY DEF CInv, CacheTypeOK

LEMMA FindAssignmentKept ==
  ASSUME CInv, NEW m \in Admin, NEW s \in Slot, NEW r \in Role, FindAssignment(m, s, r)
  PROVE  CInv'
<1> DEFINE w == [NoWork EXCEPT !.pc = "remove", !.slot = s, !.role = r]
<1>1. w \in Work /\ w.pc = "remove" /\ w.slot = s /\ w.role = r
  BY DEF NoWork, Work
<1>2. adm' = [adm EXCEPT ![m] = w] /\ UNCHANGED <<db, cache, fill>> /\ \A t \in Slot : ~Owes(m, t)
  BY DEF FindAssignment, Owes
<1> HIDE DEF w
<1> QED
  BY <1>1, <1>2, CacheStays, AdminKept

LEMMA FindGrantsKept ==
  ASSUME CInv, NEW m \in Admin, NEW r \in Role, NEW wanted \in SUBSET Permission, FindGrants(m, r, wanted)
  PROVE  CInv'
<1> DEFINE w == [NoWork EXCEPT !.pc = "replace", !.role = r, !.rows = granted[r], !.wanted = wanted]
<1>1. w \in Work /\ w.pc = "replace" /\ w.role = r
  BY DEF NoWork, Work, CInv, CacheTypeOK
<1>2. adm' = [adm EXCEPT ![m] = w] /\ UNCHANGED <<db, cache, fill>> /\ \A t \in Slot : ~Owes(m, t)
  BY DEF FindGrants, Owes
<1> HIDE DEF w
<1> QED
  BY <1>1, <1>2, CacheStays, AdminKept

LEMMA ReplaceFailsKept ==
  ASSUME CInv, NEW m \in Admin, ReplaceFails(m)
  PROVE  CInv'
<1>1. adm' = [adm EXCEPT ![m] = NoWork] /\ UNCHANGED <<db, cache, fill>> /\ \A t \in Slot : ~Owes(m, t)
  BY DEF ReplaceFails, Owes
<1> QED
  BY <1>1, Constants, CacheStays, AdminKept

(* Who is left to look up, and what is left to delete, is owed. *)
LEMMA RemainingOwes ==
  ASSUME CInv, NEW m \in Admin, NEW todo \in SUBSET User, NEW doomed \in SUBSET Slot,
         adm' = [adm EXCEPT ![m] = Remaining(todo, doomed)]
  PROVE  /\ Remaining(todo, doomed) \in Work
         /\ Remaining(todo, doomed).pc \in {"idle", "invalidate"}
         /\ \A s \in Slot : s[1] \in todo \/ s \in doomed => Owes(m, s)'
<1> DEFINE w == [NoWork EXCEPT !.pc = "invalidate", !.todo = todo, !.doomed = doomed]
<1>1. w \in Work /\ w.pc = "invalidate" /\ w.todo = todo /\ w.doomed = doomed
  BY DEF NoWork, Work
<1>2. Remaining(todo, doomed) = IF todo = {} /\ doomed = {} THEN NoWork ELSE w
  BY DEF Remaining
<1> HIDE DEF w
<1>3. Remaining(todo, doomed) \in Work /\ Remaining(todo, doomed).pc \in {"idle", "invalidate"}
  BY <1>1, <1>2, Constants
<1>4. adm'[m] = Remaining(todo, doomed)
  BY DEF CInv, CacheTypeOK
<1>5. \A s \in Slot : s[1] \in todo \/ s \in doomed => Owes(m, s)'
  BY <1>1, <1>2, <1>4 DEF Owes
<1> QED
  BY <1>3, <1>5

LEMMA FindHoldersKept ==
  ASSUME CInv, NEW m \in Admin, FindHolders(m)
  PROVE  CInv'
<1> DEFINE todo == {s[1] : s \in {t \in Slot : adm[m].role \in assigned[t]}}
<1>1. todo \in SUBSET User /\ {} \in SUBSET Slot
  BY DEF Slot
<1>2. adm' = [adm EXCEPT ![m] = Remaining(todo, {})] /\ UNCHANGED <<db, cache, fill>>
  BY DEF FindHolders
<1>3. \A s \in Slot : Owes(m, s) => s[1] \in todo
  BY DEF FindHolders, Owes
<1> HIDE DEF todo
<1>4. \A s \in Slot : Owes(m, s) => Owes(m, s)'
  BY <1>1, <1>2, <1>3, RemainingOwes
<1> QED
  BY <1>1, <1>2, <1>4, RemainingOwes, CacheStays, AdminKept

LEMMA FindKeysKept ==
  ASSUME CInv, NEW m \in Admin, NEW u \in User, FindKeys(m, u)
  PROVE  CInv'
<1> DEFINE todo == adm[m].todo \ {u}
           doomed == adm[m].doomed \cup {s \in Slot : s[1] = u /\ Cached(s)}
<1>1. todo \in SUBSET User /\ doomed \in SUBSET Slot
  BY DEF CInv, CacheTypeOK, Work
<1>2. adm' = [adm EXCEPT ![m] = Remaining(todo, doomed)] /\ UNCHANGED <<db, cache, fill>>
  BY DEF FindKeys
<1>3. \A s \in Slot : Stale(s) /\ Owes(m, s) => s[1] \in todo \/ s \in doomed
  BY DEF FindKeys, Owes, Stale
<1> HIDE DEF todo, doomed
<1>4. \A s \in Slot : Stale(s) /\ Owes(m, s) => Owes(m, s)'
  BY <1>1, <1>2, <1>3, RemainingOwes
<1> QED
  BY <1>1, <1>2, <1>4, RemainingOwes, CacheStays, AdminKept

LEMMA DeleteKeysKept ==
  ASSUME CInv, NEW m \in Admin, NEW u \in User, DeleteKeys(m, u)
  PROVE  CInv'
<1> DEFINE keys == {s \in adm[m].doomed : s[1] = u}
           doomed == adm[m].doomed \ keys
           todo == adm[m].todo
<1>1. todo \in SUBSET User /\ doomed \in SUBSET Slot
  BY DEF CInv, CacheTypeOK, Work
<1>2. /\ adm' = [adm EXCEPT ![m] = Remaining(todo, doomed)] /\ UNCHANGED <<db, fill>>
      /\ cache' = [s \in Slot |-> IF s \in keys THEN Absent ELSE cache[s]]
  BY DEF DeleteKeys
<1>3. \A s \in Slot : Owes(m, s) => s[1] \in todo \/ s \in doomed \/ s \in keys
  BY DEF DeleteKeys, Owes
<1> HIDE DEF keys, doomed, todo
<1>4. cache' \in [Slot -> Entry] /\ \A s \in Slot : cache'[s] = IF s \in keys THEN Absent ELSE cache[s]
  BY <1>2, Constants DEF CInv, CacheTypeOK
<1>5. \A s \in Slot : s \notin keys /\ Owes(m, s) => Owes(m, s)'
  BY <1>1, <1>2, <1>3, RemainingOwes
<1>6. \A s \in Slot : cache'[s] = Absent \/ (cache'[s] = cache[s] /\ (Owes(m, s) => Owes(m, s)'))
  BY <1>4, <1>5
<1>7. /\ Remaining(todo, doomed) \in Work
      /\ Remaining(todo, doomed).pc \in {"idle", "invalidate"}
  BY <1>1, <1>2, RemainingOwes
<1> QED
  BY <1>2, <1>4, <1>6, <1>7, AdminKept

LEMMA AbortAdminKept ==
  ASSUME CInv, NEW m \in Admin, AbortAdmin(m)
  PROVE  CInv'
<1>1. /\ adm' = [adm EXCEPT ![m] = NoWork] /\ UNCHANGED <<db, fill>>
      /\ cache' = [s \in Slot |-> IF Cached(s) /\ Owes(m, s)
                                  THEN [cache[s] EXCEPT !.tainted = TRUE] ELSE cache[s]]
  BY DEF AbortAdmin
<1>2. \A s \in Slot : /\ cache[s] \in Entry /\ [cache[s] EXCEPT !.tainted = TRUE] \in Entry
                      /\ [cache[s] EXCEPT !.tainted = TRUE].tainted
  BY DEF CInv, CacheTypeOK, Entry
<1>3. cache' \in [Slot -> Entry]
  BY <1>1, <1>2
<1>4. ASSUME NEW s \in Slot
      PROVE  \/ cache'[s] = Absent
             \/ cache'[s].tainted
             \/ cache'[s] = cache[s] /\ (Stale(s) /\ Owes(m, s) => Owes(m, s)')
  <2>1. CASE Cached(s) /\ Owes(m, s)
    BY <1>1, <1>2, <2>1
  <2>2. CASE ~(Cached(s) /\ Owes(m, s))
    BY <1>1, <2>2 DEF Stale
  <2> QED
    BY <2>1, <2>2
<1> QED
  BY <1>1, <1>3, <1>4, Constants, AdminKept

LEMMA LapseKept ==
  ASSUME CInv, NEW t \in Slot, Lapse(t)
  PROVE  CInv'
<1>1. cache' = [cache EXCEPT ![t] = Absent] /\ UNCHANGED <<db, fill, adm>>
  BY DEF Lapse
<1>2. cache' \in [Slot -> Entry] /\ \A s \in Slot : cache'[s] = Absent \/ cache'[s] = cache[s]
  BY <1>1, Constants DEF CInv, CacheTypeOK
<1>3. /\ CacheTypeOK' /\ Existing' /\ Granted'
      /\ (\A f \in Resolver : Filling(f)') /\ \A m \in Admin : Working(m)'
  BY <1>1, <1>2, FillsStay, WorkStays DEF CInv, CacheTypeOK, Existing, Granted, db
<1>4. ASSUME NEW s \in Slot PROVE FreshSlot(s)'
  <2>1. CASE cache'[s] = Absent
    BY <2>1 DEF FreshSlot, Stale, Cached
  <2>2. CASE cache'[s] = cache[s]
    <3>1. Current(s)' = Current(s) /\ \A m \in Admin : Owes(m, s) => Owes(m, s)'
      BY <1>1 DEF db, Current, Owes
    <3> QED
      BY <2>2, <3>1, FreshKept
  <2> QED
    BY <1>2, <2>1, <2>2
<1> QED
  BY <1>3, <1>4 DEF CInv

-----------------------------------------------------------------------------
LEMMA NextInv == CInv /\ [CNext]_cvars => CInv'
<1> SUFFICES ASSUME CInv, [CNext]_cvars PROVE CInv'
  OBVIOUS
<1>1. ASSUME UNCHANGED cvars PROVE CInv'
  <2>1. UNCHANGED <<db, cache, adm>> /\ UNCHANGED <<assigned, granted, fill>>
    BY <1>1 DEF cvars, db
  <2> QED
    BY <2>1, FillsStay, ReadsKept
<1>2. ASSUME NEW f \in Resolver,
             FillStep(f) \/ AbortFill(f) \/ \E s \in Slot : Hit(f, s) \/ Miss(f, s)
      PROVE  CInv'
  <2>1. ASSUME NEW s \in Slot, Hit(f, s) PROVE CInv'
    BY <1>1, <2>1 DEF Hit
  <2> QED
    BY <1>2, <2>1, MissKept, AbortFillKept, ReadAssignmentsKept, ReadRolesKept, ReadGrantsKept,
       ReadPermissionsKept, WriteKept DEF FillStep
<1>3. ASSUME NEW m \in Admin, Arrive(m) PROVE CInv'
  BY <1>3, AssignRoleKept, FindAssignmentKept, FindGrantsKept DEF Arrive
<1>4. ASSUME NEW m \in Admin, AdminStep(m) \/ AbortAdmin(m) PROVE CInv'
  BY <1>4, RemoveAssignmentKept, ReplaceGrantsKept, ReplaceFailsKept, FindHoldersKept, FindKeysKept,
     DeleteKeysKept, AbortAdminKept DEF AdminStep
<1>5. ASSUME NEW r \in Role,
             CreateRole(r) \/ DeleteRole(r) \/ \E s \in Slot : SeedAssign(s, r)
      PROVE  CInv'
  BY <1>5, CreateRoleKept, DeleteRoleKept, SeedAssignKept
<1>6. ASSUME NEW a \in App, DeleteApp(a) PROVE CInv'
  BY <1>6, DeleteAppKept
<1>7. ASSUME NEW s \in Slot, Lapse(s) PROVE CInv'
  BY <1>7, LapseKept
<1> QED
  BY <1>1, <1>2, <1>3, <1>4, <1>5, <1>6, <1>7 DEF CNext

(* The inductive invariant. *)
THEOREM Invariant == CSpec => []CInv
  BY InitInv, NextInv, PTL DEF CSpec

(* The state is well typed. *)
THEOREM ClaimsTypeCorrect == CSpec => []CacheTypeOK
<1>1. CInv => CacheTypeOK
  BY DEF CInv
<1> QED
  BY Invariant, <1>1, PTL

(* A stale entry is about to be deleted by whoever made it stale, unless a  *)
(* role or an application was deleted, a start's seed assigned a role, its  *)
(* fill overlapped a change, or the handler that owed its deletion died.    *)
THEOREM StaleIsOwed == CSpec => []FreshUnlessTainted
<1>1. CInv => FreshUnlessTainted
  BY DEF CInv, FreshSlot, FreshUnlessTainted
<1> QED
  BY Invariant, <1>1, PTL

-----------------------------------------------------------------------------
(* The keys of the tokens *)

Rotation == [pc : Steps, current : Key \cup {None}, next : Key \cup {None}, found : SUBSET Key]

(* What rotation r remembers was as it remembers it: the current key was    *)
(* past NEXT, the next one is another, and those found were retiring.       *)
Held(r) ==
  /\ rot[r].pc \in {"next", "make", "promote"} /\ rot[r].current # None =>
       status[rot[r].current] \notin {"none", "next"}
  /\ rot[r].pc = "promote" =>
       /\ rot[r].next \in Key /\ status[rot[r].next] # "none"
       /\ rot[r].next # rot[r].current
  /\ rot[r].pc = "purge" => \A k \in rot[r].found : status[k] \notin {"none", "next"}

Base == KeysTypeOK /\ \A r \in Rotator : Held(r)

-----------------------------------------------------------------------------
(* What the steps change *)

LEMMA RotType ==
  ASSUME KeysTypeOK, NEW r \in Rotator
  PROVE  /\ rot[r] \in Rotation
         /\ rot[r].pc \in Steps /\ rot[r].current \in Key \cup {None}
         /\ rot[r].next \in Key \cup {None} /\ rot[r].found \in SUBSET Key
  BY DEF KeysTypeOK, Rotation

LEMMA Times ==
  ASSUME KeysTypeOK
  PROVE  now \in Nat /\ due \in Nat /\ Period \in Nat \ {0} /\ TTL \in Nat
  BY TimesAreNatural DEF KeysTypeOK

LEMMA GotoMoves ==
  ASSUME KeysTypeOK, NEW r \in Rotator, NEW pc \in Steps, Goto(r, pc)
  PROVE  /\ rot' \in [Rotator -> Rotation]
         /\ rot'[r].pc = pc /\ rot'[r].current = rot[r].current
         /\ rot'[r].next = rot[r].next /\ rot'[r].found = rot[r].found
         /\ \A q \in Rotator \ {r} : rot'[q] = rot[q]
  BY RotType DEF KeysTypeOK, Goto, Rotation

LEMMA BeginMoves ==
  ASSUME KeysTypeOK, NEW r \in Rotator, Begin(r)
  PROVE  /\ rot' \in [Rotator -> Rotation]
         /\ rot'[r].pc = "current"
         /\ \A q \in Rotator \ {r} : rot'[q] = rot[q]
  BY GotoMoves DEF Begin, Steps

LEMMA ReadCurrentMoves ==
  ASSUME KeysTypeOK, NEW r \in Rotator, ReadCurrent(r)
  PROVE  /\ rot' \in [Rotator -> Rotation]
         /\ rot'[r].pc = "next" /\ rot'[r].current \in OneOf(With("active"))
         /\ \A q \in Rotator \ {r} : rot'[q] = rot[q]
<1>1. PICK k \in OneOf(With("active")) :
        rot' = [rot EXCEPT ![r].pc = "next", ![r].current = k]
  BY DEF ReadCurrent
<1>2. k \in Key \cup {None} /\ "next" \in Steps
  BY DEF OneOf, With, Steps
<1> QED
  BY <1>1, <1>2, RotType DEF KeysTypeOK, Rotation

LEMMA ReadNextMoves ==
  ASSUME KeysTypeOK, NEW r \in Rotator, ReadNext(r)
  PROVE  /\ rot' \in [Rotator -> Rotation]
         /\ rot'[r].next \in OneOf(With("next")) /\ rot'[r].current = rot[r].current
         /\ rot'[r].next = None => rot'[r].pc = "make"
         /\ rot'[r].next # None => rot'[r].pc = "promote"
         /\ \A q \in Rotator \ {r} : rot'[q] = rot[q]
<1>1. PICK k \in OneOf(With("next")) :
        rot' = [rot EXCEPT ![r].pc = IF k = None THEN "make" ELSE "promote", ![r].next = k]
  BY DEF ReadNext
<1> DEFINE pc == IF k = None THEN "make" ELSE "promote"
<1>2. k \in Key \cup {None} /\ pc \in Steps
  BY DEF OneOf, With, Steps
<1>3. (k = None => pc = "make") /\ (k # None => pc = "promote")
  OBVIOUS
<1>4. rot' = [rot EXCEPT ![r].pc = pc, ![r].next = k]
  BY <1>1
<1> HIDE DEF pc
<1>5. rot' \in [Rotator -> Rotation] /\ rot'[r].pc = pc /\ rot'[r].next = k
      /\ rot'[r].current = rot[r].current /\ \A q \in Rotator \ {r} : rot'[q] = rot[q]
  BY <1>2, <1>4, RotType DEF KeysTypeOK, Rotation
<1> QED
  BY <1>1, <1>3, <1>5

LEMMA MakeNextMoves ==
  ASSUME KeysTypeOK, NEW r \in Rotator, NEW k \in Key, MakeNext(r, k)
  PROVE  /\ rot' \in [Rotator -> Rotation]
         /\ rot'[r].pc = "promote" /\ rot'[r].next = k /\ rot'[r].current = rot[r].current
         /\ \A q \in Rotator \ {r} : rot'[q] = rot[q]
  BY RotType DEF MakeNext, KeysTypeOK, Rotation, Steps

LEMMA FindExpiredMoves ==
  ASSUME KeysTypeOK, NEW r \in Rotator, FindExpired(r)
  PROVE  /\ rot' \in [Rotator -> Rotation]
         /\ rot'[r].pc = "purge"
         /\ rot'[r].found = {k \in With("retiring") : expiresAt[k] < now}
         /\ \A q \in Rotator \ {r} : rot'[q] = rot[q]
<1> DEFINE F == {k \in With("retiring") : expiresAt[k] < now}
<1>1. F \in SUBSET Key /\ "purge" \in Steps
  BY DEF With, Steps
<1>2. rot' = [rot EXCEPT ![r].pc = "purge", ![r].found = F]
  BY DEF FindExpired
<1> HIDE DEF F
<1>3. rot' \in [Rotator -> Rotation] /\ rot'[r].pc = "purge" /\ rot'[r].found = F
      /\ \A q \in Rotator \ {r} : rot'[q] = rot[q]
  BY <1>1, <1>2, RotType DEF KeysTypeOK, Rotation
<1> QED
  BY <1>3 DEF F

LEMMA EndMoves ==
  ASSUME KeysTypeOK, NEW r \in Rotator, End(r)
  PROVE  /\ rot' \in [Rotator -> Rotation]
         /\ rot'[r] = Idle /\ rot'[r].pc = "idle"
         /\ \A q \in Rotator \ {r} : rot'[q] = rot[q]
  BY RotType DEF End, KeysTypeOK, Rotation, Idle, Steps

LEMMA GenerateMoves ==
  ASSUME KeysTypeOK, NEW k \in Key, NEW s \in {"active", "next"}, Generate(k, s)
  PROVE  /\ status[k] = "none" /\ status'[k] = s /\ expiresAt'[k] = now + 2 * Period
         /\ \A j \in Key \ {k} : status'[j] = status[j] /\ expiresAt'[j] = expiresAt[j]
         /\ status' \in [Key -> Published \cup {"none", "purged"}]
         /\ expiresAt' \in [Key -> Nat]
<1>1. s \in Published
  BY DEF Published
<1>2. now + 2 * Period \in Nat
  BY Times
<1> QED
  BY <1>1, <1>2 DEF Generate, KeysTypeOK

(* What a promotion leaves: the next key ACTIVE, the current one RETIRING.  *)
LEMMA PromoteMoves ==
  ASSUME KeysTypeOK, NEW r \in Rotator, Promote(r)
  PROVE  /\ status' \in [Key -> Published \cup {"none", "purged"}]
         /\ \A k \in Key :
              /\ status[k] = "purged" => status'[k] = "purged"
              /\ status[k] # "purged" /\ k = rot[r].next => status'[k] = "active"
              /\ status[k] # "purged" /\ k # rot[r].next /\ k = rot[r].current =>
                   status'[k] = "retiring"
              /\ k # rot[r].next /\ k # rot[r].current => status'[k] = status[k]
         /\ rot' \in [Rotator -> Rotation] /\ rot'[r].pc = "prepublish"
         /\ \A q \in Rotator \ {r} : rot'[q] = rot[q]
<1>1. rot' \in [Rotator -> Rotation] /\ rot'[r].pc = "prepublish"
      /\ \A q \in Rotator \ {r} : rot'[q] = rot[q]
  BY GotoMoves DEF Promote, Steps
<1>2. \A k \in Key : status'[k] =
        IF status[k] = "purged" THEN "purged"
        ELSE IF k = rot[r].next THEN "active"
        ELSE IF k = rot[r].current THEN "retiring"
        ELSE status[k]
  BY DEF Promote
<1>3. status' \in [Key -> Published \cup {"none", "purged"}]
  BY DEF Promote, KeysTypeOK, Published
<1> QED
  BY <1>1, <1>2, <1>3

LEMMA PurgeMoves ==
  ASSUME KeysTypeOK, NEW r \in Rotator, Purge(r)
  PROVE  /\ status' \in [Key -> Published \cup {"none", "purged"}]
         /\ \A k \in Key : status'[k] = IF k \in rot[r].found THEN "purged" ELSE status[k]
  BY DEF Purge, KeysTypeOK

LEMMA EndTimes ==
  ASSUME KeysTypeOK, NEW r \in Rotator, End(r)
  PROVE  due' \in Nat
  BY Times DEF End

-----------------------------------------------------------------------------
(* Type correctness and what rotations remember *)

LEMMA TypeInit == Init => KeysTypeOK
<1> SUFFICES ASSUME Init PROVE KeysTypeOK
  OBVIOUS
<1>1. Idle \in Rotation
  BY DEF Idle, Steps, Rotation
<1>2. rot \in [Rotator -> Rotation]
  BY <1>1 DEF Init
<1>3. now \in Nat /\ due \in Nat
  BY TimesAreNatural DEF Init
<1> QED
  BY <1>2, <1>3 DEF Init, KeysTypeOK, Rotation

LEMMA TypeStep == KeysTypeOK /\ [Next]_vars => KeysTypeOK'
<1> SUFFICES ASSUME KeysTypeOK, [Next]_vars PROVE KeysTypeOK'
  OBVIOUS
<1> USE DEF Rotation
<1>1. ASSUME NEW p \in Replica, BootRead(p) PROVE KeysTypeOK'
  BY <1>1 DEF BootRead, KeysTypeOK
<1>2. ASSUME NEW p \in Replica, NEW k \in Key, BootGenerate(p, k) PROVE KeysTypeOK'
  BY <1>2, GenerateMoves DEF BootGenerate, KeysTypeOK
<1>3. ASSUME NEW p \in Replica, Restart(p) PROVE KeysTypeOK'
  BY <1>3 DEF Restart, KeysTypeOK
<1>4. ASSUME NEW r \in Rotator, Begin(r) PROVE KeysTypeOK'
  BY <1>4, BeginMoves DEF Begin, KeysTypeOK
<1>5. ASSUME NEW r \in Rotator, ReadCurrent(r) PROVE KeysTypeOK'
  BY <1>5, ReadCurrentMoves DEF ReadCurrent, KeysTypeOK
<1>6. ASSUME NEW r \in Rotator, ReadNext(r) PROVE KeysTypeOK'
  BY <1>6, ReadNextMoves DEF ReadNext, KeysTypeOK
<1>7. ASSUME NEW r \in Rotator, NEW k \in Key, MakeNext(r, k) PROVE KeysTypeOK'
  BY <1>7, MakeNextMoves, GenerateMoves DEF MakeNext, KeysTypeOK
<1>8. ASSUME NEW r \in Rotator, Promote(r) PROVE KeysTypeOK'
  BY <1>8, PromoteMoves DEF Promote, KeysTypeOK
<1>9. ASSUME NEW r \in Rotator, NEW k \in Key, Prepublish(r, k) PROVE KeysTypeOK'
  <2>1. rot' \in [Rotator -> Rotation]
    BY <1>9, GotoMoves DEF Prepublish, Steps
  <2> QED
    BY <1>9, <2>1, GenerateMoves DEF Prepublish, KeysTypeOK
<1>10. ASSUME NEW r \in Rotator, FindExpired(r) PROVE KeysTypeOK'
  BY <1>10, FindExpiredMoves DEF FindExpired, KeysTypeOK
<1>11. ASSUME NEW r \in Rotator, Purge(r) PROVE KeysTypeOK'
  <2>1. End(r)
    BY <1>11 DEF Purge
  <2> QED
    BY <1>11, <2>1, EndMoves, EndTimes, PurgeMoves DEF End, KeysTypeOK
<1>12. ASSUME NEW r \in Rotator, Abort(r) PROVE KeysTypeOK'
  BY <1>12, EndMoves, EndTimes DEF Abort, End, KeysTypeOK
<1>13. ASSUME NEW s \in Signer, LoadKey(s) PROVE KeysTypeOK'
  BY <1>13 DEF LoadKey, With, KeysTypeOK
<1>14. ASSUME NEW s \in Signer, Sign(s) PROVE KeysTypeOK'
  BY <1>14, Times DEF Sign, KeysTypeOK
<1>15. CASE Tick
  BY <1>15 DEF Tick, KeysTypeOK
<1>16. CASE UNCHANGED vars
  BY <1>16 DEF vars, KeysTypeOK
<1> QED
  BY <1>1, <1>2, <1>3, <1>4, <1>5, <1>6, <1>7, <1>8, <1>9, <1>10, <1>11, <1>12, <1>13,
     <1>14, <1>15, <1>16 DEF Next, RotateStep

(* Every value the tables, the rotations and the signers reach is one the   *)
(* code can store.                                                          *)
THEOREM TypeCorrect == Spec => []KeysTypeOK
  BY TypeInit, TypeStep, PTL DEF Spec

(* A key once stored stays known, and once past NEXT never returns to it.   *)
LEMMA Onward ==
  ASSUME KeysTypeOK, [Next]_vars, NEW k \in Key
  PROVE  /\ status[k] # "none" => status'[k] # "none"
         /\ status[k] \notin {"none", "next"} => status'[k] \notin {"none", "next"}
<1>1. ASSUME NEW j \in Key, NEW s \in {"active", "next"}, Generate(j, s)
      PROVE  /\ status[k] # "none" => status'[k] # "none"
             /\ status[k] \notin {"none", "next"} => status'[k] \notin {"none", "next"}
  BY <1>1, GenerateMoves
<1>2. ASSUME NEW r \in Rotator, Promote(r)
      PROVE  /\ status[k] # "none" => status'[k] # "none"
             /\ status[k] \notin {"none", "next"} => status'[k] \notin {"none", "next"}
  BY <1>2, PromoteMoves
<1>3. ASSUME NEW r \in Rotator, Purge(r)
      PROVE  status'[k] \in {status[k], "purged"}
  BY <1>3, PurgeMoves
<1>4. CASE \E r \in Rotator : Promote(r)
  BY <1>2, <1>4
<1>5. CASE \E r \in Rotator : Purge(r)
  BY <1>3, <1>5
<1>6. CASE \/ \E p \in Replica, j \in Key : BootGenerate(p, j)
           \/ \E r \in Rotator, j \in Key : MakeNext(r, j) \/ Prepublish(r, j)
  BY <1>1, <1>6 DEF BootGenerate, MakeNext, Prepublish
<1>7. CASE UNCHANGED status
  BY <1>7
<1> QED
  BY <1>4, <1>5, <1>6, <1>7 DEF Next, RotateStep, vars, BootRead, Restart, Begin, ReadCurrent,
     ReadNext, FindExpired, Abort, LoadKey, Sign, Tick

LEMMA HeldStays ==
  ASSUME KeysTypeOK, [Next]_vars, NEW r \in Rotator, Held(r),
         \/ rot'[r] = rot[r]
         \/ rot'[r].pc \notin {"next", "make", "promote", "purge"}
  PROVE  Held(r)'
  BY Onward, RotType DEF Held

LEMMA HeldStep == Base /\ [Next]_vars => Base'
<1> SUFFICES ASSUME Base, [Next]_vars, NEW q \in Rotator PROVE Held(q)'
  BY TypeStep DEF Base
<1> USE DEF Base
<1>1. CASE rot' = rot
  BY <1>1, HeldStays
<1>2. ASSUME NEW r \in Rotator, Begin(r) PROVE Held(q)'
  BY <1>2, BeginMoves, HeldStays
<1>3. ASSUME NEW r \in Rotator, ReadCurrent(r) PROVE Held(q)'
  <2>1. rot'[r].current # None => status'[rot'[r].current] = "active"
    BY <1>3, ReadCurrentMoves DEF ReadCurrent, OneOf, With
  <2>2. Held(r)'
    BY <1>3, <2>1, ReadCurrentMoves DEF Held
  <2> QED
    BY <1>3, <2>2, ReadCurrentMoves, HeldStays
<1>4. ASSUME NEW r \in Rotator, ReadNext(r) PROVE Held(q)'
  <2>1. rot[r].pc = "next" /\ status' = status
    BY <1>4 DEF ReadNext
  <2>2. rot[r].current # None => status[rot[r].current] \notin {"none", "next"}
    BY <2>1 DEF Held
  <2>3. rot'[r].next # None => rot'[r].next \in Key /\ status[rot'[r].next] = "next"
    BY <1>4, ReadNextMoves DEF OneOf, With
  <2>4. Held(r)'
    BY <1>4, <2>1, <2>2, <2>3, ReadNextMoves, NoneIsNoKey DEF Held
  <2> QED
    BY <1>4, <2>4, ReadNextMoves, HeldStays
<1>5. ASSUME NEW r \in Rotator, NEW k \in Key, MakeNext(r, k) PROVE Held(q)'
  <2>1. rot[r].pc = "make" /\ Generate(k, "next")
    BY <1>5 DEF MakeNext
  <2>2. rot[r].current # None => status[rot[r].current] \notin {"none", "next"}
    BY <2>1 DEF Held
  <2>3. rot[r].current # None => rot[r].current \in Key
    BY RotType
  <2>4. status[k] = "none" /\ status'[k] = "next"
    BY <2>1, GenerateMoves
  <2>5. rot[r].current # None => status'[rot[r].current] \notin {"none", "next"}
    BY <2>2, <2>3, Onward
  <2>6. Held(r)'
    BY <1>5, <2>2, <2>4, <2>5, MakeNextMoves, NoneIsNoKey DEF Held
  <2> QED
    BY <1>5, <2>6, MakeNextMoves, HeldStays
<1>6. ASSUME NEW r \in Rotator, Promote(r) PROVE Held(q)'
  BY <1>6, PromoteMoves, HeldStays
<1>7. ASSUME NEW r \in Rotator, NEW k \in Key, Prepublish(r, k) PROVE Held(q)'
  <2>1. rot'[r].pc = "expired" /\ \A p \in Rotator \ {r} : rot'[p] = rot[p]
    BY <1>7, GotoMoves DEF Prepublish, Steps
  <2> QED
    BY <2>1, HeldStays
<1>8. ASSUME NEW r \in Rotator, FindExpired(r) PROVE Held(q)'
  <2>1. \A k \in rot'[r].found : status'[k] = "retiring"
    BY <1>8, FindExpiredMoves DEF FindExpired, With
  <2>2. Held(r)'
    BY <1>8, <2>1, FindExpiredMoves DEF Held
  <2> QED
    BY <1>8, <2>2, FindExpiredMoves, HeldStays
<1>9. ASSUME NEW r \in Rotator, End(r) PROVE Held(q)'
  BY <1>9, EndMoves, HeldStays
<1> QED
  BY <1>1, <1>2, <1>3, <1>4, <1>5, <1>6, <1>7, <1>8, <1>9 DEF Next, RotateStep, vars, BootRead,
     BootGenerate, Restart, Purge, Abort, LoadKey, Sign, Tick

LEMMA BaseInit == Init => Base
  BY TypeInit DEF Init, Base, Held, Idle

LEMMA BaseCorrect == Spec => []Base
  BY BaseInit, HeldStep, PTL DEF Spec

-----------------------------------------------------------------------------
(* Two rotations that overlap                                               *)

Two == \A p, q, r \in Rotator : p = q \/ q = r \/ p = r

(* An ACTIVE key outside S, which a step that disposes of S leaves.         *)
Spare(S) == \E k \in Key : status[k] = "active" /\ k \notin S

(* The key rotation r is about to promote has gone ahead without it.        *)
Overtaken(r) == status[rot[r].next] \in {"retiring", "purged"}

(* The key rotation q will promote still is NEXT and r will not demote it.  *)
Fresh(q, r) == status[rot[q].next] = "next" /\ rot[r].current # rot[q].next

(* What rotation r will demote or purge is not all there is.                *)
Leaves(r) ==
  /\ rot[r].pc = "promote" /\ Overtaken(r) => Spare({rot[r].current})
  /\ rot[r].pc = "purge" => Spare(rot[r].found)

(* Nor is what q and r will, whichever goes first.                          *)
LeaveTogether(q, r) ==
  /\ rot[q].pc = "promote" /\ rot[r].pc = "promote" => Fresh(q, r) \/ Fresh(r, q)
  /\ /\ rot[q].pc = "purge" /\ rot[r].pc = "promote"
     /\ rot[r].next \in rot[q].found \/ Overtaken(r)
     => Spare(rot[q].found \cup {rot[r].current})
  /\ rot[q].pc = "purge" /\ rot[r].pc = "purge" => Spare(rot[q].found \cup rot[r].found)

Unused == (\A p \in Replica : boot[p] # "up") /\ (\A r \in Rotator : rot[r].pc = "idle")

SignerInv ==
  /\ Base
  /\ Spare({}) \/ Unused
  /\ \A r \in Rotator : Leaves(r)
  /\ \A q, r \in Rotator : q # r => LeaveTogether(q, r)

LEMMA HeldKeys ==
  ASSUME Base, NEW r \in Rotator
  PROVE  /\ rot[r].pc = "promote" => rot[r].next \in Key /\ status[rot[r].next] # "none"
         /\ rot[r].pc = "purge" => \A k \in rot[r].found : k \in Key /\ status[k] # "none"
  BY RotType DEF Base, Held

(* A step that changes no stored key, and of the rotations only those it    *)
(* sends where nothing is to be demoted or purged.                          *)
LEMMA QuietLeaves ==
  ASSUME SignerInv, \A k \in Key : status[k] # "none" => status'[k] = status[k],
         NEW r \in Rotator, rot'[r] = rot[r] \/ rot'[r].pc \notin {"promote", "purge"}
  PROVE  Leaves(r)'
  BY HeldKeys, RotType DEF SignerInv, Leaves, Spare, Overtaken

LEMMA QuietTogether ==
  ASSUME SignerInv, \A k \in Key : status[k] # "none" => status'[k] = status[k],
         NEW q \in Rotator, NEW r \in Rotator, q # r,
         rot'[q] = rot[q] \/ rot'[q].pc \notin {"promote", "purge"},
         rot'[r] = rot[r] \/ rot'[r].pc \notin {"promote", "purge"}
  PROVE  LeaveTogether(q, r)'
<1>1. CASE rot'[q].pc \notin {"promote", "purge"} \/ rot'[r].pc \notin {"promote", "purge"}
  BY <1>1 DEF LeaveTogether
<1>2. CASE rot'[q] = rot[q] /\ rot'[r] = rot[r]
  <2>1. LeaveTogether(q, r)
    BY DEF SignerInv
  <2>2. Base
    BY DEF SignerInv
  <2>3. \A k \in Key : status[k] = "active" => status'[k] = "active"
    OBVIOUS
  <2>4. rot[q].pc = "promote" => status'[rot[q].next] = status[rot[q].next]
    BY <2>2, HeldKeys
  <2>5. rot[r].pc = "promote" => status'[rot[r].next] = status[rot[r].next]
    BY <2>2, HeldKeys
  <2> QED
    BY <1>2, <2>1, <2>3, <2>4, <2>5 DEF LeaveTogether, Spare, Overtaken, Fresh
<1> QED
  BY <1>1, <1>2

(* The same for the whole invariant.                                        *)
LEMMA QuietStep ==
  ASSUME SignerInv, Base', \A k \in Key : status[k] # "none" => status'[k] = status[k],
         \A r \in Rotator : rot'[r] = rot[r] \/ rot'[r].pc \notin {"promote", "purge"},
         Spare({}) \/ (Spare({}) \/ Unused)'
  PROVE  SignerInv'
<1>1. (Spare({}) \/ Unused)'
  BY DEF Spare
<1>2. \A r \in Rotator : Leaves(r)'
  BY QuietLeaves
<1>3. \A q, r \in Rotator : q # r => LeaveTogether(q, r)'
  BY QuietTogether
<1> QED
  BY <1>1, <1>2, <1>3 DEF SignerInv

LEMMA GeneratePromotes ==
  ASSUME KeysTypeOK, NEW k \in Key, NEW s \in {"active", "next"}, Generate(k, s)
  PROVE  \A j \in Key : status[j] # "none" => status'[j] = status[j]
  BY GenerateMoves

(* A rotation that arrives at its promotion has the key in hand fresh.      *)
LEMMA ArriveToPromote ==
  ASSUME SignerInv, Base', Two, NEW r \in Rotator,
         \A k \in Key : status[k] # "none" => status'[k] = status[k],
         rot'[r].pc = "promote", status'[rot'[r].next] = "next",
         \A q \in Rotator \ {r} : rot'[q] = rot[q], Spare({})
  PROVE  SignerInv'
<1>1. Spare({})'
  BY DEF Spare
<1>2. ASSUME NEW q \in Rotator PROVE Leaves(q)'
  <2>1. CASE q = r
    BY <2>1 DEF Leaves, Overtaken
  <2>2. CASE q # r
    BY <2>2, QuietLeaves
  <2> QED
    BY <2>1, <2>2
<1>3. ASSUME NEW q \in Rotator, q # r PROVE LeaveTogether(q, r)' /\ LeaveTogether(r, q)'
  <2>1. Held(q)' /\ KeysTypeOK' /\ Held(r)'
    BY DEF Base
  <2>2. rot'[q].pc = "promote" => Fresh(r, q)'
    <3> SUFFICES ASSUME rot'[q].pc = "promote" PROVE Fresh(r, q)'
      OBVIOUS
    <3>1. rot'[r].next \in Key
      BY <2>1 DEF Held
    <3>2. rot'[q].current # None => status'[rot'[q].current] \notin {"none", "next"}
      BY <2>1 DEF Held
    <3>3. rot'[q].current # rot'[r].next
      BY <3>1, <3>2, NoneIsNoKey
    <3> QED
      BY <3>3 DEF Fresh
  <2>3. rot'[q].pc = "purge" => rot'[r].next \notin rot'[q].found /\ ~Overtaken(r)'
    BY <2>1 DEF Held, Overtaken
  <2> QED
    BY <2>2, <2>3 DEF LeaveTogether
<1>4. \A p, q \in Rotator : p # q => LeaveTogether(p, q)'
  BY <1>3 DEF Two
<1> QED
  BY <1>1, <1>2, <1>4 DEF SignerInv

LEMMA ReadNextSigns ==
  ASSUME SignerInv, Base', Two, NEW r \in Rotator, ReadNext(r)
  PROVE  SignerInv'
<1>1. KeysTypeOK /\ status' = status /\ boot' = boot /\ Spare({})
  BY DEF ReadNext, SignerInv, Base, Unused
<1>2. CASE rot'[r].next = None
  <2>1. \A q \in Rotator : rot'[q] = rot[q] \/ rot'[q].pc \notin {"promote", "purge"}
    BY <1>1, <1>2, ReadNextMoves
  <2> QED
    BY <1>1, <2>1, QuietStep
<1>3. CASE rot'[r].next # None
  <2>1. status'[rot'[r].next] = "next"
    BY <1>1, <1>3, ReadNextMoves DEF OneOf, With
  <2> QED
    BY <1>1, <1>3, <2>1, ReadNextMoves, ArriveToPromote
<1> QED
  BY <1>2, <1>3

LEMMA MakeNextSigns ==
  ASSUME SignerInv, Base', Two, NEW r \in Rotator, NEW k \in Key, MakeNext(r, k)
  PROVE  SignerInv'
<1>1. KeysTypeOK /\ Spare({}) /\ Generate(k, "next")
  BY DEF MakeNext, SignerInv, Base, Unused
<1>2. status'[k] = "next"
  BY <1>1, GenerateMoves
<1> QED
  BY <1>1, <1>2, GeneratePromotes, MakeNextMoves, ArriveToPromote

(* A rotation that arrives at its purge found keys that no longer sign.     *)
LEMMA FindExpiredSigns ==
  ASSUME SignerInv, Base', Two, NEW r \in Rotator, FindExpired(r)
  PROVE  SignerInv'
<1>1. KeysTypeOK /\ status' = status /\ Spare({})
  BY DEF FindExpired, SignerInv, Base, Unused
<1>2. rot'[r].pc = "purge" /\ \A k \in rot'[r].found : status[k] = "retiring"
  BY <1>1, FindExpiredMoves DEF With
<1>3. \A q \in Rotator \ {r} : rot'[q] = rot[q]
  BY <1>1, FindExpiredMoves
<1>4. ASSUME NEW q \in Rotator PROVE Leaves(q)'
  <2>1. CASE q = r
    BY <1>1, <1>2, <2>1 DEF Leaves, Spare
  <2>2. CASE q # r
    BY <1>1, <1>3, <2>2, QuietLeaves
  <2> QED
    BY <2>1, <2>2
<1>5. ASSUME NEW q \in Rotator, q # r PROVE LeaveTogether(q, r)' /\ LeaveTogether(r, q)'
  <2>1. Leaves(q) /\ rot'[q] = rot[q]
    BY <1>3, <1>5 DEF SignerInv
  <2>2. rot[q].pc = "promote" /\ (rot[q].next \in rot'[r].found \/ Overtaken(q)) =>
          Spare({rot[q].current})
    BY <1>2, <2>1 DEF Leaves, Overtaken
  <2>3. rot[q].pc = "purge" => Spare(rot[q].found)
    BY <2>1 DEF Leaves
  <2> QED
    BY <1>1, <1>2, <2>1, <2>2, <2>3 DEF LeaveTogether, Spare, Overtaken
<1>6. \A p, q \in Rotator : p # q => LeaveTogether(p, q)'
  BY <1>5 DEF Two
<1>7. Spare({})'
  BY <1>1 DEF Spare
<1> QED
  BY <1>4, <1>6, <1>7 DEF SignerInv

LEMMA PromoteSigns ==
  ASSUME SignerInv, Base', Two, NEW r \in Rotator, Promote(r)
  PROVE  SignerInv'
<1>1. KeysTypeOK /\ Spare({}) /\ rot[r].pc = "promote" /\ Leaves(r) /\ rot[r].next \in Key
  BY HeldKeys DEF Promote, SignerInv, Base, Unused
<1>2. rot'[r].pc = "prepublish" /\ \A q \in Rotator \ {r} : rot'[q] = rot[q]
  BY <1>1, PromoteMoves
<1>3. \A k \in Key : /\ status[k] # "purged" /\ k = rot[r].next => status'[k] = "active"
                     /\ k # rot[r].next /\ k # rot[r].current => status'[k] = status[k]
                     /\ status[k] = "active" /\ k # rot[r].current => status'[k] = "active"
  BY <1>1, PromoteMoves
<1>4. status[rot[r].next] # "purged" => status'[rot[r].next] = "active"
  BY <1>1, <1>3
<1>5. Overtaken(r) => Spare({rot[r].current})
  BY <1>1 DEF Leaves
<1>6. Spare({})'
  BY <1>1, <1>3, <1>4, <1>5 DEF Spare, Overtaken
<1>7. ASSUME NEW q \in Rotator PROVE Leaves(q)'
  <2>1. CASE q = r
    BY <1>2, <2>1 DEF Leaves
  <2>2. CASE q # r
    <3>1. LeaveTogether(q, r) /\ LeaveTogether(r, q) /\ rot'[q] = rot[q]
      BY <1>2, <2>2 DEF SignerInv
    <3>2. ASSUME rot[q].pc = "promote", Overtaken(q)' PROVE Spare({rot[q].current})'
      <4>1. rot[q].next \in Key
        BY <3>2, HeldKeys DEF SignerInv
      <4>2. ~Fresh(q, r)
        BY <1>3, <3>1, <3>2, <4>1 DEF Fresh, Overtaken
      <4>3. status[rot[r].next] = "next" /\ rot[q].current # rot[r].next
        BY <1>1, <3>1, <3>2, <4>2 DEF LeaveTogether, Fresh
      <4> QED
        BY <1>1, <1>4, <3>1, <4>3 DEF Spare
    <3>3. ASSUME rot[q].pc = "purge" PROVE Spare(rot[q].found)'
      <4>1. CASE rot[r].next \in rot[q].found \/ Overtaken(r)
        <5>1. Spare(rot[q].found \cup {rot[r].current})
          BY <1>1, <3>1, <3>3, <4>1 DEF LeaveTogether
        <5> QED
          BY <1>3, <3>1, <5>1 DEF Spare
      <4>2. CASE rot[r].next \notin rot[q].found /\ ~Overtaken(r)
        BY <1>1, <1>4, <3>1, <4>2 DEF Spare, Overtaken
      <4> QED
        BY <4>1, <4>2
    <3> QED
      BY <3>1, <3>2, <3>3 DEF Leaves
  <2> QED
    BY <2>1, <2>2
<1>8. \A p, q \in Rotator : p # q => LeaveTogether(p, q)'
  BY <1>2 DEF Two, LeaveTogether
<1> QED
  BY <1>6, <1>7, <1>8 DEF SignerInv

LEMMA PurgeSigns ==
  ASSUME SignerInv, Base', Two, NEW r \in Rotator, Purge(r)
  PROVE  SignerInv'
<1>1. KeysTypeOK /\ rot[r].pc = "purge" /\ Leaves(r) /\ End(r)
  BY DEF Purge, SignerInv, Base
<1>2. rot'[r].pc = "idle" /\ \A q \in Rotator \ {r} : rot'[q] = rot[q]
  BY <1>1, EndMoves
<1>3. \A k \in Key : status'[k] = IF k \in rot[r].found THEN "purged" ELSE status[k]
  BY <1>1, PurgeMoves
<1>4. Spare(rot[r].found)
  BY <1>1 DEF Leaves
<1>5. Spare({})'
  BY <1>3, <1>4 DEF Spare
<1>6. ASSUME NEW q \in Rotator PROVE Leaves(q)'
  <2>1. CASE q = r
    BY <1>2, <2>1 DEF Leaves
  <2>2. CASE q # r
    <3>1. LeaveTogether(q, r) /\ LeaveTogether(r, q) /\ rot'[q] = rot[q]
      BY <1>2, <2>2 DEF SignerInv
    <3>2. ASSUME rot[q].pc = "promote", Overtaken(q)' PROVE Spare({rot[q].current})'
      <4>1. rot[q].next \in Key
        BY <3>2, HeldKeys DEF SignerInv
      <4>2. rot[q].next \in rot[r].found \/ Overtaken(q)
        BY <1>3, <3>1, <3>2, <4>1 DEF Overtaken
      <4>3. Spare(rot[r].found \cup {rot[q].current})
        BY <1>1, <3>1, <3>2, <4>2 DEF LeaveTogether
      <4> QED
        BY <1>3, <3>1, <4>3 DEF Spare
    <3>3. ASSUME rot[q].pc = "purge" PROVE Spare(rot[q].found)'
      <4>1. Spare(rot[q].found \cup rot[r].found)
        BY <1>1, <3>1, <3>3 DEF LeaveTogether
      <4> QED
        BY <1>3, <3>1, <4>1 DEF Spare
    <3> QED
      BY <3>1, <3>2, <3>3 DEF Leaves
  <2> QED
    BY <2>1, <2>2
<1>7. \A p, q \in Rotator : p # q => LeaveTogether(p, q)'
  BY <1>2 DEF Two, LeaveTogether
<1> QED
  BY <1>5, <1>6, <1>7 DEF SignerInv

LEMMA SignerStep ==
  ASSUME Two, SignerInv, [Next]_vars
  PROVE  SignerInv'
<1> USE DEF Two
<1>0. Base /\ KeysTypeOK /\ Base' /\ (Spare({}) \/ Unused)
  BY HeldStep DEF SignerInv, Base
<1>1. ASSUME NEW p \in Replica, BootRead(p) PROVE SignerInv'
  <2>1. Spare({}) \/ Unused'
    BY <1>0, <1>1 DEF BootRead, Spare, Unused, With, KeysTypeOK
  <2> QED
    BY <1>0, <1>1, <2>1, QuietStep DEF BootRead
<1>2. ASSUME NEW p \in Replica, NEW k \in Key, BootGenerate(p, k) PROVE SignerInv'
  <2>1. Generate(k, "active") /\ rot' = rot
    BY <1>2 DEF BootGenerate
  <2>2. Spare({})'
    BY <1>0, <2>1, GenerateMoves DEF Spare
  <2> QED
    BY <1>0, <2>1, <2>2, GeneratePromotes, QuietStep
<1>3. ASSUME NEW p \in Replica, Restart(p) PROVE SignerInv'
  <2>1. Spare({}) \/ Unused'
    BY <1>0, <1>3 DEF Restart, Unused, KeysTypeOK
  <2> QED
    BY <1>0, <1>3, <2>1, QuietStep DEF Restart
<1>4. ASSUME NEW r \in Rotator, Begin(r) PROVE SignerInv'
  <2>1. Spare({}) /\ status' = status
    BY <1>0, <1>4 DEF Begin, Unused
  <2> QED
    BY <1>0, <1>4, <2>1, BeginMoves, QuietStep
<1>5. ASSUME NEW r \in Rotator, ReadCurrent(r) PROVE SignerInv'
  <2>1. Spare({}) /\ status' = status
    BY <1>0, <1>5 DEF ReadCurrent, Unused
  <2> QED
    BY <1>0, <1>5, <2>1, ReadCurrentMoves, QuietStep
<1>6. ASSUME NEW r \in Rotator, NEW k \in Key, Prepublish(r, k) PROVE SignerInv'
  <2>1. Spare({}) /\ Generate(k, "next")
    BY <1>0, <1>6 DEF Prepublish, Unused
  <2>2. rot'[r].pc = "expired" /\ \A q \in Rotator \ {r} : rot'[q] = rot[q]
    BY <1>0, <1>6, GotoMoves DEF Prepublish, Steps
  <2>3. \A q \in Rotator : rot'[q] = rot[q] \/ rot'[q].pc \notin {"promote", "purge"}
    BY <2>2
  <2> QED
    BY <1>0, <2>1, <2>3, GeneratePromotes, QuietStep
<1>7. ASSUME NEW r \in Rotator, Abort(r) PROVE SignerInv'
  <2>1. Spare({}) /\ status' = status /\ End(r)
    BY <1>0, <1>7 DEF Abort, Unused
  <2>2. \A q \in Rotator : rot'[q] = rot[q] \/ rot'[q].pc \notin {"promote", "purge"}
    BY <1>0, <2>1, EndMoves
  <2> QED
    BY <1>0, <2>1, <2>2, QuietStep
<1>8. CASE UNCHANGED <<status, boot, rot>>
  <2>1. (Spare({}) \/ Unused)'
    BY <1>0, <1>8 DEF Spare, Unused
  <2> QED
    BY <1>0, <1>8, <2>1, QuietStep
<1> QED
  BY <1>0, <1>1, <1>2, <1>3, <1>4, <1>5, <1>6, <1>7, <1>8, ReadNextSigns, MakeNextSigns,
     PromoteSigns, FindExpiredSigns, PurgeSigns DEF Next, RotateStep, vars, LoadKey, Sign, Tick

(* Of two rotations that overlap, wherever each sleeps or dies and whatever *)
(* the boots of the replicas add, none leaves a service that has started    *)
(* without an ACTIVE key.                                                   *)
THEOREM AKeyAlwaysSigns ==
  ASSUME \A p, q, r \in Rotator : p = q \/ q = r \/ p = r
  PROVE  Spec => []SomeKeySigns
<1>1. Init => SignerInv
  BY BaseInit DEF Init, SignerInv, Leaves, LeaveTogether, Unused, Idle
<1>2. SignerInv /\ [Next]_vars => SignerInv'
  BY SignerStep DEF Two
<1>3. SignerInv => SomeKeySigns
  BY DEF SignerInv, SomeKeySigns, Spare, Unused, With
<1> QED
  BY <1>1, <1>2, <1>3, PTL DEF Spec

-----------------------------------------------------------------------------
(* Rotations one at a time                                                  *)

(* One rotation runs, so the key it will promote still is NEXT, and those   *)
(* it found are as it found them.                                           *)
Alone(r) ==
  /\ rot[r].pc = "promote" => status[rot[r].next] = "next"
  /\ rot[r].pc = "purge" => \A k \in rot[r].found : status[k] = "retiring"
  /\ \A q \in Rotator : rot[q].pc # "idle" /\ rot[r].pc # "idle" => q = r

SerialInv == Base /\ \A r \in Rotator : Alone(r)

LEMMA SerialQuiet ==
  ASSUME SerialInv, Base', \A k \in Key : status[k] # "none" => status'[k] = status[k],
         NEW r \in Rotator, rot[r].pc # "idle",
         \A q \in Rotator \ {r} : rot'[q] = rot[q],
         rot'[r].pc = "promote" => status'[rot'[r].next] = "next",
         rot'[r].pc = "purge" => \A k \in rot'[r].found : status'[k] = "retiring"
  PROVE  SerialInv'
<1>1. \A q \in Rotator \ {r} : rot'[q].pc = "idle"
  BY DEF SerialInv, Alone
<1> QED
  BY <1>1 DEF SerialInv, Alone

LEMMA SerialStill ==
  ASSUME SerialInv, Base', \A k \in Key : status[k] # "none" => status'[k] = status[k],
         rot' = rot
  PROVE  SerialInv'
<1> SUFFICES ASSUME NEW r \in Rotator PROVE Alone(r)'
  BY DEF SerialInv
<1>1. Alone(r) /\ Base
  BY DEF SerialInv
<1>2. rot[r].pc = "promote" => status'[rot[r].next] = status[rot[r].next]
  BY <1>1, HeldKeys
<1>3. rot[r].pc = "purge" => \A k \in rot[r].found : status'[k] = status[k]
  BY <1>1, HeldKeys
<1> QED
  BY <1>1, <1>2, <1>3 DEF Alone

LEMMA SerialStep ==
  ASSUME Serial, SerialInv, [Next]_vars
  PROVE  SerialInv'
<1>0. Base /\ KeysTypeOK /\ Base'
  BY HeldStep DEF SerialInv, Base
<1>1. ASSUME NEW p \in Replica, NEW k \in Key, BootGenerate(p, k) PROVE SerialInv'
  <2>1. Generate(k, "active") /\ rot' = rot
    BY <1>1 DEF BootGenerate
  <2> QED
    BY <1>0, <2>1, GeneratePromotes, SerialStill
<1>2. ASSUME NEW r \in Rotator, Begin(r) PROVE SerialInv'
  <2>1. \A q \in Rotator : rot[q].pc = "idle"
    BY <1>2 DEF Begin
  <2>2. rot'[r].pc = "current" /\ \A q \in Rotator \ {r} : rot'[q] = rot[q]
    BY <1>0, <1>2, BeginMoves
  <2> QED
    BY <1>0, <2>1, <2>2 DEF SerialInv, Alone
<1>3. ASSUME NEW r \in Rotator, ReadCurrent(r) PROVE SerialInv'
  BY <1>0, <1>3, ReadCurrentMoves, SerialQuiet DEF ReadCurrent
<1>4. ASSUME NEW r \in Rotator, ReadNext(r) PROVE SerialInv'
  <2>1. rot[r].pc = "next" /\ status' = status
    BY <1>4 DEF ReadNext
  <2>2. rot'[r].pc = "promote" => status'[rot'[r].next] = "next"
    BY <1>0, <1>4, <2>1, ReadNextMoves DEF OneOf, With
  <2>3. rot'[r].pc # "purge"
    BY <1>0, <1>4, ReadNextMoves
  <2> QED
    BY <1>0, <1>4, <2>1, <2>2, <2>3, ReadNextMoves, SerialQuiet
<1>5. ASSUME NEW r \in Rotator, NEW k \in Key, MakeNext(r, k) PROVE SerialInv'
  <2>1. rot[r].pc = "make" /\ Generate(k, "next")
    BY <1>5 DEF MakeNext
  <2>2. status'[k] = "next"
    BY <1>0, <2>1, GenerateMoves
  <2> QED
    BY <1>0, <1>5, <2>1, <2>2, GeneratePromotes, MakeNextMoves, SerialQuiet
<1>6. ASSUME NEW r \in Rotator, Promote(r) PROVE SerialInv'
  <2>1. rot[r].pc = "promote" /\ rot'[r].pc = "prepublish"
        /\ \A q \in Rotator \ {r} : rot'[q] = rot[q]
    BY <1>0, <1>6, PromoteMoves DEF Promote
  <2>2. \A q \in Rotator \ {r} : rot'[q].pc = "idle"
    BY <2>1 DEF SerialInv, Alone
  <2> QED
    BY <1>0, <2>1, <2>2 DEF SerialInv, Alone
<1>7. ASSUME NEW r \in Rotator, NEW k \in Key, Prepublish(r, k) PROVE SerialInv'
  <2>1. rot[r].pc = "prepublish" /\ Generate(k, "next")
    BY <1>7 DEF Prepublish
  <2>2. rot'[r].pc = "expired" /\ \A q \in Rotator \ {r} : rot'[q] = rot[q]
    BY <1>0, <1>7, GotoMoves DEF Prepublish, Steps
  <2> QED
    BY <1>0, <2>1, <2>2, GeneratePromotes, SerialQuiet
<1>8. ASSUME NEW r \in Rotator, FindExpired(r) PROVE SerialInv'
  <2>1. rot[r].pc = "expired" /\ status' = status
    BY <1>8 DEF FindExpired
  <2> QED
    BY <1>0, <1>8, <2>1, FindExpiredMoves, SerialQuiet DEF With
<1>9. ASSUME NEW r \in Rotator, End(r), rot[r].pc # "idle" PROVE SerialInv'
  <2>1. rot'[r].pc = "idle" /\ \A q \in Rotator \ {r} : rot'[q] = rot[q]
    BY <1>0, <1>9, EndMoves
  <2>2. \A q \in Rotator : rot'[q].pc = "idle"
    BY <1>9, <2>1 DEF SerialInv, Alone
  <2> QED
    BY <1>0, <2>2 DEF SerialInv, Alone
<1>10. CASE UNCHANGED <<status, rot>>
  BY <1>0, <1>10, SerialStill
<1> QED
  BY <1>1, <1>2, <1>3, <1>4, <1>5, <1>6, <1>7, <1>8, <1>9, <1>10 DEF Next, RotateStep, vars,
     BootRead, Restart, Purge, Abort, LoadKey, Sign, Tick

LEMMA SerialInit == Init => SerialInv
  BY BaseInit DEF Init, SerialInv, Alone, Idle

LEMMA ForwardStep ==
  ASSUME SerialInv, [Next]_vars, NEW k \in Key, status[k] \in {"retiring", "purged"}
  PROVE  status'[k] \notin {"next", "active"}
<1>0. KeysTypeOK
  BY DEF SerialInv, Base
<1>1. ASSUME NEW j \in Key, NEW s \in {"active", "next"}, Generate(j, s)
      PROVE  status'[k] = status[k]
  BY <1>0, <1>1, GenerateMoves
<1>2. ASSUME NEW r \in Rotator, Promote(r)
      PROVE  status'[k] \notin {"next", "active"}
  <2>1. k # rot[r].next
    BY <1>2 DEF SerialInv, Alone, Promote
  <2>2. /\ status[k] = "purged" => status'[k] = "purged"
        /\ status[k] # "purged" /\ k # rot[r].next /\ k = rot[r].current => status'[k] = "retiring"
        /\ k # rot[r].next /\ k # rot[r].current => status'[k] = status[k]
    BY <1>0, <1>2, PromoteMoves
  <2> QED
    BY <2>1, <2>2
<1>3. ASSUME NEW r \in Rotator, Purge(r)
      PROVE  status'[k] \in {status[k], "purged"}
  BY <1>0, <1>3, PurgeMoves
<1>4. CASE \E r \in Rotator : Promote(r)
  BY <1>2, <1>4
<1>5. CASE \E r \in Rotator : Purge(r)
  BY <1>3, <1>5
<1>6. CASE \/ \E p \in Replica, j \in Key : BootGenerate(p, j)
           \/ \E r \in Rotator, j \in Key : MakeNext(r, j) \/ Prepublish(r, j)
  BY <1>1, <1>6 DEF BootGenerate, MakeNext, Prepublish
<1>7. CASE UNCHANGED status
  BY <1>7
<1> QED
  BY <1>4, <1>5, <1>6, <1>7 DEF Next, RotateStep, vars, BootRead, Restart, Begin, ReadCurrent,
     ReadNext, FindExpired, Abort, LoadKey, Sign, Tick

(* Rotations that do not overlap, aborted or not, never let a key sign      *)
(* again once it retired, nor bring one back from the purge.                *)
THEOREM RetiredForGood ==
  ASSUME Serial
  PROVE  Spec => KeysMoveForward
<1>1. SerialInv /\ [Next]_vars => SerialInv'
  BY SerialStep
<1>2. SerialInv /\ [Next]_vars =>
        [\A k \in Key : status[k] \in {"retiring", "purged"} =>
                          status'[k] \notin {"next", "active"}]_vars
  BY ForwardStep
<1> QED
  BY <1>1, <1>2, SerialInit, PTL DEF Spec, KeysMoveForward

-----------------------------------------------------------------------------
(* One replica, and rotations one at a time                                 *)

OneReplica == \A p, q \in Replica : p = q

(* The rotation demotes the only ACTIVE key, and makes a NEXT one where     *)
(* there is none.                                                           *)
Exact(r) ==
  /\ rot[r].pc \in {"next", "make", "promote"} =>
       \A k \in Key : status[k] = "active" => k = rot[r].current
  /\ rot[r].pc \in {"make", "prepublish"} => \A k \in Key : status[k] # "next"

(* A replica generates a key only while there is none to sign with.         *)
Missing == \A p \in Replica : boot[p] = "missing" => ~Spare({})

OneInv ==
  /\ SerialInv
  /\ OneSigner
  /\ Spare({}) \/ Unused
  /\ Missing
  /\ \A r \in Rotator : Exact(r)

LEMMA OneStill ==
  ASSUME OneInv, SerialInv', UNCHANGED <<status, boot, rot>>
  PROVE  OneInv'
  BY DEF OneInv, OneSigner, Spare, Unused, Missing, Exact

(* A step of a running rotation: no replica is about to generate a key.     *)
LEMMA OneRotates ==
  ASSUME OneInv, SerialInv', NEW r \in Rotator, rot[r].pc # "idle",
         \A q \in Rotator \ {r} : rot'[q] = rot[q],
         OneSigner', Spare({})', Exact(r)', boot' = boot
  PROVE  OneInv'
<1>1. Missing'
  BY DEF OneInv, Unused, Missing
<1>2. ASSUME NEW q \in Rotator PROVE Exact(q)'
  <2>1. CASE q = r
    BY <2>1
  <2>2. CASE q # r
    BY <2>2 DEF OneInv, SerialInv, Alone, Exact
  <2> QED
    BY <2>1, <2>2
<1> QED
  BY <1>1, <1>2 DEF OneInv

LEMMA OneStep ==
  ASSUME Serial, OneReplica, OneInv, [Next]_vars
  PROVE  OneInv'
<1>0. /\ SerialInv /\ KeysTypeOK /\ SerialInv' /\ OneSigner
      /\ Spare({}) \/ Unused
      /\ Missing
  BY SerialStep DEF OneInv, SerialInv, Base
<1>1. ASSUME NEW p \in Replica, BootRead(p) PROVE OneInv'
  <2>1. status' = status /\ rot' = rot
        /\ boot' = [boot EXCEPT ![p] = IF With("active") = {} THEN "missing" ELSE "up"]
    BY <1>1 DEF BootRead
  <2>2. With("active") = {} <=> ~Spare({})
    BY DEF With, Spare
  <2>3. boot'[p] = IF With("active") = {} THEN "missing" ELSE "up"
    BY <1>0, <2>1 DEF KeysTypeOK
  <2>4. \A q \in Replica : boot'[q] = boot'[p]
    BY DEF OneReplica
  <2>5. Missing'
    BY <2>1, <2>2, <2>3, <2>4 DEF Missing, Spare
  <2>6. (Spare({}) \/ Unused)'
    BY <1>0, <2>1, <2>2, <2>3, <2>4 DEF Spare, Unused
  <2> QED
    BY <1>0, <2>1, <2>5, <2>6 DEF OneInv, OneSigner, Exact
<1>2. ASSUME NEW p \in Replica, NEW k \in Key, BootGenerate(p, k) PROVE OneInv'
  <2>1. boot[p] = "missing" /\ Generate(k, "active") /\ rot' = rot
        /\ boot' = [boot EXCEPT ![p] = "up"]
    BY <1>2 DEF BootGenerate
  <2>2. ~Spare({}) /\ Unused
    BY <1>0, <2>1 DEF Missing
  <2>3. /\ status[k] = "none" /\ status'[k] = "active"
        /\ \A j \in Key \ {k} : status'[j] = status[j]
    BY <1>0, <2>1, GenerateMoves
  <2>4. OneSigner' /\ Spare({})'
    BY <1>0, <2>2, <2>3 DEF OneSigner, Spare
  <2>5. boot'[p] = "up"
    BY <1>0, <2>1 DEF KeysTypeOK
  <2>6. Missing'
    BY <2>5 DEF Missing, OneReplica
  <2>7. \A r \in Rotator : Exact(r)'
    BY <2>1, <2>2 DEF Exact, Unused
  <2> QED
    BY <1>0, <2>4, <2>6, <2>7 DEF OneInv
<1>3. ASSUME NEW p \in Replica, Restart(p) PROVE OneInv'
  <2>1. status' = status /\ rot' = rot /\ boot' = [boot EXCEPT ![p] = "down"]
    BY <1>3 DEF Restart
  <2>2. \A q \in Replica : boot'[q] \in {boot[q], "down"}
    BY <1>0, <2>1 DEF KeysTypeOK
  <2> QED
    BY <1>0, <2>1, <2>2 DEF OneInv, OneSigner, Spare, Unused, Missing, Exact
<1>4. ASSUME NEW r \in Rotator, Begin(r) PROVE OneInv'
  <2>1. status' = status /\ boot' = boot /\ Spare({})
    BY <1>0, <1>4 DEF Begin, Unused
  <2>2. rot'[r].pc = "current" /\ \A q \in Rotator \ {r} : rot'[q] = rot[q]
    BY <1>0, <1>4, BeginMoves
  <2> QED
    BY <1>0, <2>1, <2>2 DEF OneInv, OneSigner, Spare, Missing, Exact
<1>5. ASSUME NEW r \in Rotator, ReadCurrent(r) PROVE OneInv'
  <2>1. rot[r].pc = "current" /\ status' = status /\ boot' = boot
    BY <1>5 DEF ReadCurrent
  <2>2. rot'[r].pc = "next" /\ \A q \in Rotator \ {r} : rot'[q] = rot[q]
    BY <1>0, <1>5, ReadCurrentMoves
  <2>3. \A k \in Key : status[k] = "active" => k = rot'[r].current
    <3>1. rot'[r].current \in OneOf(With("active"))
      BY <1>0, <1>5, ReadCurrentMoves
    <3> SUFFICES ASSUME NEW k \in Key, status[k] = "active" PROVE k = rot'[r].current
      OBVIOUS
    <3>2. k \in With("active")
      BY DEF With
    <3>3. rot'[r].current \in With("active")
      BY <3>1, <3>2 DEF OneOf
    <3> QED
      BY <1>0, <3>3 DEF With, OneSigner
  <2>4. OneSigner' /\ Spare({})' /\ Exact(r)'
    BY <1>0, <2>1, <2>2, <2>3 DEF OneSigner, Spare, Unused, Exact
  <2> QED
    BY <1>0, <2>1, <2>2, <2>4, OneRotates
<1>6. ASSUME NEW r \in Rotator, ReadNext(r) PROVE OneInv'
  <2>1. rot[r].pc = "next" /\ status' = status /\ boot' = boot
    BY <1>6 DEF ReadNext
  <2>2. rot'[r].pc \in {"make", "promote"} /\ rot'[r].current = rot[r].current
        /\ \A q \in Rotator \ {r} : rot'[q] = rot[q]
    BY <1>0, <1>6, ReadNextMoves
  <2>3. rot'[r].pc = "make" => \A k \in Key : status[k] # "next"
    BY <1>0, <1>6, ReadNextMoves, NoneIsNoKey DEF OneOf, With
  <2>4. Exact(r)
    BY DEF OneInv
  <2>5. OneSigner' /\ Spare({})' /\ Exact(r)'
    BY <1>0, <2>1, <2>2, <2>3, <2>4 DEF OneSigner, Spare, Unused, Exact
  <2> QED
    BY <1>0, <2>1, <2>2, <2>5, OneRotates
<1>7. ASSUME NEW r \in Rotator, NEW k \in Key, MakeNext(r, k) PROVE OneInv'
  <2>1. rot[r].pc = "make" /\ Generate(k, "next") /\ boot' = boot
    BY <1>7 DEF MakeNext
  <2>2. rot'[r].pc = "promote" /\ rot'[r].current = rot[r].current
        /\ \A q \in Rotator \ {r} : rot'[q] = rot[q]
    BY <1>0, <1>7, MakeNextMoves
  <2>3. /\ status[k] = "none" /\ status'[k] = "next"
        /\ \A j \in Key \ {k} : status'[j] = status[j]
    BY <1>0, <2>1, GenerateMoves
  <2>4. Exact(r)
    BY DEF OneInv
  <2>5. OneSigner' /\ Spare({})' /\ Exact(r)'
    BY <1>0, <2>1, <2>2, <2>3, <2>4 DEF OneSigner, Spare, Unused, Exact
  <2> QED
    BY <1>0, <2>1, <2>2, <2>5, OneRotates
<1>8. ASSUME NEW r \in Rotator, Promote(r) PROVE OneInv'
  <2>1. rot[r].pc = "promote" /\ boot' = boot
    BY <1>8 DEF Promote
  <2>2. rot'[r].pc = "prepublish" /\ \A q \in Rotator \ {r} : rot'[q] = rot[q]
    BY <1>0, <1>8, PromoteMoves
  <2>3. Exact(r) /\ Alone(r) /\ Held(r)
    BY <1>0 DEF OneInv, SerialInv, Base
  <2>4. rot[r].next \in Key /\ status[rot[r].next] = "next"
    BY <2>1, <2>3 DEF Held, Alone
  <2>5. /\ status'[rot[r].next] = "active"
        /\ \A k \in Key \ {rot[r].next} :
             /\ status[k] # "next"
             /\ status'[k] \in {"purged", "retiring", status[k]}
             /\ status[k] = "active" => status'[k] = "retiring"
    BY <1>0, <1>8, <2>1, <2>3, <2>4, PromoteMoves DEF OneSigner, Exact
  <2>6. OneSigner' /\ Spare({})' /\ Exact(r)'
    BY <2>2, <2>4, <2>5 DEF OneSigner, Spare, Exact
  <2> QED
    BY <1>0, <2>1, <2>2, <2>6, OneRotates
<1>9. ASSUME NEW r \in Rotator, NEW k \in Key, Prepublish(r, k) PROVE OneInv'
  <2>1. rot[r].pc = "prepublish" /\ Generate(k, "next") /\ boot' = boot
    BY <1>9 DEF Prepublish
  <2>2. rot'[r].pc = "expired" /\ \A q \in Rotator \ {r} : rot'[q] = rot[q]
    BY <1>0, <1>9, GotoMoves DEF Prepublish, Steps
  <2>3. /\ status[k] = "none" /\ status'[k] = "next"
        /\ \A j \in Key \ {k} : status'[j] = status[j]
    BY <1>0, <2>1, GenerateMoves
  <2>4. Exact(r)
    BY DEF OneInv
  <2>5. OneSigner' /\ Spare({})' /\ Exact(r)'
    BY <1>0, <2>1, <2>2, <2>3, <2>4 DEF OneSigner, Spare, Unused, Exact
  <2> QED
    BY <1>0, <2>1, <2>2, <2>5, OneRotates
<1>10. ASSUME NEW r \in Rotator, FindExpired(r) PROVE OneInv'
  <2>1. rot[r].pc = "expired" /\ status' = status /\ boot' = boot
    BY <1>10 DEF FindExpired
  <2>2. rot'[r].pc = "purge" /\ \A q \in Rotator \ {r} : rot'[q] = rot[q]
    BY <1>0, <1>10, FindExpiredMoves
  <2>3. OneSigner' /\ Spare({})' /\ Exact(r)'
    BY <1>0, <2>1, <2>2 DEF OneSigner, Spare, Unused, Exact
  <2> QED
    BY <1>0, <2>1, <2>2, <2>3, OneRotates
<1>11. ASSUME NEW r \in Rotator, Purge(r) PROVE OneInv'
  <2>1. rot[r].pc = "purge" /\ End(r) /\ boot' = boot
    BY <1>11 DEF Purge, End
  <2>2. rot'[r].pc = "idle" /\ \A q \in Rotator \ {r} : rot'[q] = rot[q]
    BY <1>0, <2>1, EndMoves
  <2>3. \A k \in Key : /\ status'[k] \in {"purged", status[k]}
                       /\ status[k] = "active" => status'[k] = "active"
    BY <1>0, <1>11, <2>1, PurgeMoves DEF SerialInv, Alone
  <2>4. OneSigner' /\ Spare({})' /\ Exact(r)'
    BY <1>0, <2>1, <2>2, <2>3 DEF OneSigner, Spare, Unused, Exact
  <2> QED
    BY <1>0, <2>1, <2>2, <2>4, OneRotates
<1>12. ASSUME NEW r \in Rotator, Abort(r) PROVE OneInv'
  <2>1. rot[r].pc # "idle" /\ End(r) /\ status' = status /\ boot' = boot
    BY <1>12 DEF Abort, End
  <2>2. rot'[r].pc = "idle" /\ \A q \in Rotator \ {r} : rot'[q] = rot[q]
    BY <1>0, <2>1, EndMoves
  <2>3. OneSigner' /\ Spare({})' /\ Exact(r)'
    BY <1>0, <2>1, <2>2 DEF OneSigner, Spare, Unused, Exact
  <2> QED
    BY <1>0, <2>1, <2>2, <2>3, OneRotates
<1>13. CASE UNCHANGED <<status, boot, rot>>
  BY <1>0, <1>13, OneStill
<1> QED
  BY <1>1, <1>2, <1>3, <1>4, <1>5, <1>6, <1>7, <1>8, <1>9, <1>10, <1>11, <1>12, <1>13
     DEF Next, RotateStep, vars, LoadKey, Sign, Tick

LEMMA OneInit == Init => OneInv
  BY SerialInit DEF Init, OneInv, OneSigner, Spare, Unused, Missing, Exact, Idle

(* With one replica, rotations that do not overlap keep one ACTIVE key and  *)
(* at most one NEXT key wherever they are cut short.                        *)
THEOREM OneKeySigns ==
  ASSUME Serial, \A p, q \in Replica : p = q
  PROVE  Spec => []OneSigner
<1>1. OneInv /\ [Next]_vars => OneInv'
  BY OneStep DEF OneReplica
<1>2. OneInv => OneSigner
  BY DEF OneInv
<1> QED
  BY <1>1, <1>2, OneInit, PTL DEF Spec

-----------------------------------------------------------------------------
(* The keys are a ring                                                      *)

(* findOne among one row at most. *)
LEMMA FoundOne ==
  ASSUME NEW S, \A j, k \in S : j = k
  PROVE  /\ S = {} => (CHOOSE x \in OneOf(S) : TRUE) = None
         /\ \A k \in S : (CHOOSE x \in OneOf(S) : TRUE) = k
<1>1. ASSUME S = {} PROVE (CHOOSE x \in OneOf(S) : TRUE) = None
  <2>1. OneOf(S) = {None}
    BY <1>1 DEF OneOf
  <2> QED
    BY <2>1
<1>2. ASSUME NEW k \in S PROVE (CHOOSE x \in OneOf(S) : TRUE) = k
  <2>1. OneOf(S) = {k}
    BY <1>2 DEF OneOf
  <2> QED
    BY <2>1
<1> QED
  BY <1>1, <1>2

(* The signer of the ring is the ACTIVE key, or None while there is none.   *)
LEMMA RingSigner ==
  ASSUME OneSigner
  PROVE  /\ ~Spare({}) => ActiveKey = None
         /\ \A k \in Key : status[k] = "active" => ActiveKey = k
<1>1. \A j, k \in With("active") : j = k
  BY DEF OneSigner, With
<1>2. ~Spare({}) => With("active") = {}
  BY DEF Spare, With
<1>3. \A k \in Key : status[k] = "active" => k \in With("active")
  BY DEF With
<1> QED
  BY <1>1, <1>2, <1>3, FoundOne DEF ActiveKey

LEMMA RingSignerNext ==
  ASSUME OneSigner'
  PROVE  \A k \in Key : status'[k] = "active" => ActiveKey' = k
<1>1. \A j, k \in With("active")' : j = k
  BY DEF OneSigner, With
<1>2. \A k \in Key : status'[k] = "active" => k \in With("active")'
  BY DEF With
<1>3. ActiveKey' = CHOOSE x \in OneOf(With("active")') : TRUE
  BY DEF ActiveKey, OneOf
<1> QED
  BY <1>1, <1>2, <1>3, FoundOne

(* Where the same key signs before and after. *)
LEMMA SignerStays ==
  ASSUME OneSigner, OneSigner', Spare({}),
         \A k \in Key : status[k] = "active" => status'[k] = "active"
  PROVE  ActiveKey \in Key /\ status[ActiveKey] = "active" /\ ActiveKey' = ActiveKey
<1>1. PICK k \in Key : status[k] = "active"
  BY DEF Spare
<1> QED
  BY <1>1, RingSigner, RingSignerNext

(* A key generated during a rotation is served and does not sign. *)
LEMMA GenerateServes ==
  ASSUME OneInv, OneInv', Spare({}), NEW k \in Key, Generate(k, "next")
  PROVE  Ring!Serve(k)
<1>0. KeysTypeOK /\ OneSigner /\ OneSigner'
  BY DEF OneInv, SerialInv, Base
<1>1. /\ status[k] = "none" /\ status'[k] = "next"
      /\ \A j \in Key \ {k} : status'[j] = status[j]
  BY <1>0, GenerateMoves
<1>2. ActiveKey' = ActiveKey /\ ActiveKey # None
  BY <1>0, <1>1, SignerStays, NoneIsNoKey
<1>3. k \notin Jwks \cup With("purged") /\ Jwks' = Jwks \cup {k}
  BY <1>1 DEF Jwks, With, Published
<1>4. With("purged")' = With("purged")
  BY <1>1 DEF With
<1> QED
  BY <1>2, <1>3, <1>4 DEF Ring!Serve

LEMMA BootServes ==
  ASSUME OneInv, OneInv', NEW p \in Replica, NEW k \in Key, BootGenerate(p, k)
  PROVE  Ring!Serve(k)
<1>0. KeysTypeOK /\ OneSigner /\ OneSigner' /\ ~Spare({})
  BY DEF OneInv, SerialInv, Base, Missing, BootGenerate
<1>1. /\ status[k] = "none" /\ status'[k] = "active"
      /\ \A j \in Key \ {k} : status'[j] = status[j]
  BY <1>0, GenerateMoves DEF BootGenerate
<1>2. ActiveKey = None /\ ActiveKey' = k
  BY <1>0, <1>1, RingSigner, RingSignerNext
<1>3. k \notin Jwks \cup With("purged") /\ Jwks' = Jwks \cup {k}
  BY <1>1 DEF Jwks, With, Published
<1>4. With("purged")' = With("purged")
  BY <1>1 DEF With
<1> QED
  BY <1>2, <1>3, <1>4 DEF Ring!Serve

(* The transaction of a rotation makes another served key sign.             *)
LEMMA PromoteElects ==
  ASSUME OneInv, OneInv', NEW r \in Rotator, Promote(r)
  PROVE  \E k \in Key : Ring!Elect(k)
<1> DEFINE n == rot[r].next
<1>0. /\ KeysTypeOK /\ OneSigner /\ OneSigner' /\ Held(r) /\ Alone(r) /\ Exact(r)
      /\ rot[r].pc = "promote" /\ rot[r].current \in Key \cup {None}
  BY RotType DEF OneInv, SerialInv, Base, Promote
<1>1. n \in Key /\ status[n] = "next"
  BY <1>0 DEF Held, Alone
<1> HIDE DEF n
<1>2. \A k \in Key : status'[k] =
        IF status[k] = "purged" THEN "purged"
        ELSE IF k = n THEN "active"
        ELSE IF k = rot[r].current THEN "retiring"
        ELSE status[k]
  BY DEF Promote, n
<1>3. ActiveKey' = n
  BY <1>0, <1>1, <1>2, RingSignerNext
<1>4. \A k \in Key : (status'[k] \in Published <=> status[k] \in Published)
                     /\ (status'[k] = "purged" <=> status[k] = "purged")
  <2> SUFFICES ASSUME NEW k \in Key
               PROVE  /\ status'[k] \in Published <=> status[k] \in Published
                      /\ status'[k] = "purged" <=> status[k] = "purged"
    OBVIOUS
  <2>1. k = rot[r].current => status[k] \notin {"none", "next"}
    BY <1>0, NoneIsNoKey DEF Held
  <2>2. status[k] \in Published \cup {"none", "purged"}
    BY <1>0 DEF KeysTypeOK
  <2> QED
    BY <1>1, <1>2, <2>1, <2>2 DEF Published
<1>5. Jwks' = Jwks /\ With("purged")' = With("purged") /\ n \in Jwks
  BY <1>1, <1>4 DEF Jwks, With, Published
<1>6. n # ActiveKey
  <2>1. Spare({})
    BY <1>0 DEF OneInv, Unused
  <2> QED
    BY <1>0, <1>1, <2>1, RingSigner DEF Spare
<1> QED
  BY <1>1, <1>3, <1>5, <1>6 DEF Ring!Elect

(* What a rotation purges does not sign. *)
LEMMA PurgeDrops ==
  ASSUME OneInv, OneInv', NEW r \in Rotator, Purge(r)
  PROVE  \E S \in SUBSET (Jwks \ {ActiveKey}) : Ring!Drop(S)
<1> DEFINE S == {k \in Jwks : k \in rot[r].found}
<1>0. /\ KeysTypeOK /\ OneSigner /\ OneSigner' /\ Held(r) /\ Alone(r)
      /\ rot[r].pc = "purge" /\ rot[r].found \in SUBSET Key
      /\ Spare({})
  BY RotType DEF OneInv, SerialInv, Base, Purge, Unused
<1>1. /\ \A k \in Key : status'[k] = IF k \in rot[r].found THEN "purged" ELSE status[k]
      /\ \A k \in rot[r].found : status[k] \notin {"none", "next", "active"}
  BY <1>0, PurgeMoves DEF Held, Alone
<1>2. ActiveKey \in Key /\ status[ActiveKey] = "active" /\ ActiveKey' = ActiveKey
  BY <1>0, <1>1, SignerStays
<1>3. S \in SUBSET (Jwks \ {ActiveKey})
  BY <1>1, <1>2
<1>4. \A k \in Key : status[k] \in Published \cup {"none", "purged"}
  BY <1>0 DEF KeysTypeOK
<1>5. Jwks' = Jwks \ S
  BY <1>1 DEF Jwks, Published
<1>6. With("purged")' = With("purged") \cup S
  BY <1>0, <1>1, <1>4 DEF Jwks, With, Published
<1> HIDE DEF S
<1> QED
  BY <1>2, <1>3, <1>5, <1>6 DEF Ring!Drop

LEMMA RingStep ==
  ASSUME Serial, OneReplica, OneInv, [Next]_vars
  PROVE  [Ring!RingNext]_(Ring!ring)
<1>0. OneInv' /\ (Spare({}) \/ Unused)
  BY OneStep DEF OneInv
<1>1. ASSUME NEW p \in Replica, NEW k \in Key, BootGenerate(p, k) PROVE Ring!RingNext
  BY <1>0, <1>1, BootServes DEF Ring!RingNext
<1>2. ASSUME NEW r \in Rotator, NEW k \in Key, MakeNext(r, k) \/ Prepublish(r, k)
      PROVE  Ring!RingNext
  <2>1. Generate(k, "next") /\ Spare({})
    BY <1>0, <1>2 DEF MakeNext, Prepublish, Unused
  <2> QED
    BY <1>0, <2>1, GenerateServes DEF Ring!RingNext
<1>3. ASSUME NEW r \in Rotator, Promote(r) PROVE Ring!RingNext
  BY <1>0, <1>3, PromoteElects DEF Ring!RingNext
<1>4. ASSUME NEW r \in Rotator, Purge(r) PROVE Ring!RingNext
  BY <1>0, <1>4, PurgeDrops DEF Ring!RingNext
<1>5. CASE status' = status
  BY <1>5 DEF Ring!ring, Jwks, ActiveKey, With, OneOf
<1> QED
  BY <1>1, <1>2, <1>3, <1>4, <1>5 DEF Next, RotateStep, vars, BootRead, Restart, Begin,
     ReadCurrent, ReadNext, FindExpired, Abort, LoadKey, Sign, Tick

(* With one replica, the reads and writes of rotations that do not overlap, *)
(* wherever they are cut short, implement the ring the services that sign   *)
(* and verify tokens rely on.                                               *)
THEOREM RingKept ==
  ASSUME Serial, \A p, q \in Replica : p = q
  PROVE  Spec => KeysAreARing
<1>1. Init => Ring!RingInit
  <2> SUFFICES ASSUME Init PROVE Ring!RingInit
    OBVIOUS
  <2>1. OneSigner /\ ~Spare({}) /\ Jwks = {} /\ With("purged") = {}
    BY DEF Init, OneSigner, Spare, Jwks, With, Published
  <2> QED
    BY <2>1, RingSigner DEF Ring!RingInit
<1>2. OneInv /\ [Next]_vars => OneInv' /\ [Ring!RingNext]_(Ring!ring)
  BY OneStep, RingStep DEF OneReplica
<1> QED
  BY <1>1, <1>2, OneInit, PTL DEF Spec, KeysAreARing, Ring!RingSpec

-----------------------------------------------------------------------------
(* Tokens against the keys that verify them                                 *)

(* Only a known key signs; what a rotation found to purge, and what was     *)
(* purged, had expired.                                                     *)
KeyLasts(k) ==
  /\ status[k] = "none" => liveUntil[k] = 0
  /\ status[k] = "purged" => expiresAt[k] < now

FoundExpired(r) ==
  rot[r].pc = "purge" => \A k \in rot[r].found : expiresAt[k] < now

KnownSigns(s) == signing[s] # None => status[signing[s]] # "none"

Lasting ==
  /\ Base
  /\ \A k \in Key : KeyLasts(k)
  /\ \A r \in Rotator : FoundExpired(r)
  /\ \A s \in Signer : KnownSigns(s)

LEMMA LastingInit == Init => Lasting
  BY BaseInit DEF Init, Lasting, KeyLasts, FoundExpired, KnownSigns, Idle

(* The clock does not go back. *)
LEMMA TimeForward ==
  ASSUME KeysTypeOK, [Next]_vars
  PROVE  now \in Nat /\ now' \in Nat /\ now <= now'
<1>1. now' \in {now, now + 1}
  BY DEF Next, RotateStep, vars, BootRead, BootGenerate, Restart, Begin, ReadCurrent, ReadNext,
     MakeNext, Promote, Prepublish, FindExpired, Purge, End, Abort, LoadKey, Sign, Tick
<1> QED
  BY <1>1, Times

(* The expiry of a key is written once, with its row. *)
LEMMA ExpiryStays ==
  ASSUME KeysTypeOK, [Next]_vars, NEW k \in Key, status[k] # "none"
  PROVE  expiresAt[k] \in Nat /\ expiresAt'[k] = expiresAt[k]
<1>1. ASSUME NEW j \in Key, NEW s \in {"active", "next"}, Generate(j, s)
      PROVE  expiresAt'[k] = expiresAt[k]
  BY <1>1, GenerateMoves
<1>2. CASE \/ \E p \in Replica, j \in Key : BootGenerate(p, j)
           \/ \E r \in Rotator, j \in Key : MakeNext(r, j) \/ Prepublish(r, j)
  BY <1>1, <1>2 DEF BootGenerate, MakeNext, Prepublish, KeysTypeOK
<1>3. CASE UNCHANGED expiresAt
  BY <1>3 DEF KeysTypeOK
<1> QED
  BY <1>2, <1>3 DEF Next, RotateStep, vars, BootRead, Restart, Begin, ReadCurrent, ReadNext,
     Promote, FindExpired, Purge, End, Abort, LoadKey, Sign, Tick

(* A key is purged only by a rotation that found it. *)
LEMMA PurgedWasFound ==
  ASSUME KeysTypeOK, [Next]_vars, NEW k \in Key, status'[k] = "purged", status[k] # "purged"
  PROVE  \E r \in Rotator : rot[r].pc = "purge" /\ k \in rot[r].found
<1>1. ASSUME NEW j \in Key, NEW s \in {"active", "next"}, Generate(j, s)
      PROVE  FALSE
  BY <1>1, GenerateMoves
<1>2. ASSUME NEW r \in Rotator, Promote(r)
      PROVE  FALSE
  BY <1>2, PromoteMoves
<1>3. ASSUME NEW r \in Rotator, Purge(r)
      PROVE  rot[r].pc = "purge" /\ k \in rot[r].found
  BY <1>3, PurgeMoves DEF Purge
<1>4. CASE \E r \in Rotator : Purge(r)
  BY <1>3, <1>4
<1>5. CASE \/ \E p \in Replica, j \in Key : BootGenerate(p, j)
           \/ \E r \in Rotator, j \in Key : MakeNext(r, j) \/ Prepublish(r, j)
           \/ \E r \in Rotator : Promote(r)
  BY <1>1, <1>2, <1>5 DEF BootGenerate, MakeNext, Prepublish
<1>6. CASE UNCHANGED status
  BY <1>6
<1> QED
  BY <1>4, <1>5, <1>6 DEF Next, RotateStep, vars, BootRead, Restart, Begin, ReadCurrent,
     ReadNext, FindExpired, Abort, LoadKey, Sign, Tick

LEMMA KeyLastsStep ==
  ASSUME Lasting, [Next]_vars, NEW k \in Key
  PROVE  KeyLasts(k)'
<1>0. KeysTypeOK /\ KeyLasts(k)
  BY DEF Lasting, Base
<1>1. ASSUME status'[k] = "none" PROVE liveUntil'[k] = 0
  <2>1. status[k] = "none" /\ liveUntil[k] = 0
    BY <1>0, <1>1, Onward DEF KeyLasts
  <2>2. ASSUME NEW s \in Signer, Sign(s) PROVE liveUntil'[k] = 0
    <3>1. signing[s] # k
      BY <2>1, <2>2, NoneIsNoKey DEF Lasting, KnownSigns, Sign
    <3> QED
      BY <1>0, <2>1, <2>2, <3>1 DEF Sign, KeysTypeOK
  <2>3. CASE Tick
    <3>1. liveUntil'[k] = IF liveUntil[k] > now' THEN liveUntil[k] ELSE 0
      BY <2>3 DEF Tick
    <3> QED
      BY <2>1, <3>1
  <2>4. CASE UNCHANGED liveUntil
    BY <2>1, <2>4
  <2> QED
    BY <2>2, <2>3, <2>4 DEF Next, RotateStep, vars, BootRead, BootGenerate, Restart, Begin,
       ReadCurrent, ReadNext, MakeNext, Promote, Prepublish, FindExpired, Purge, End, Abort, LoadKey
<1>2. ASSUME status'[k] = "purged" PROVE expiresAt'[k] < now'
  <2>1. status[k] # "none" /\ expiresAt[k] < now
    <3>1. CASE status[k] = "purged"
      BY <1>0, <3>1 DEF KeyLasts
    <3>2. CASE status[k] # "purged"
      <4>1. PICK r \in Rotator : rot[r].pc = "purge" /\ k \in rot[r].found
        BY <1>0, <1>2, <3>2, PurgedWasFound
      <4> QED
        BY <4>1 DEF Lasting, Base, Held, FoundExpired
    <3> QED
      BY <3>1, <3>2
  <2> QED
    BY <1>0, <2>1, ExpiryStays, TimeForward
<1> QED
  BY <1>1, <1>2 DEF KeyLasts

LEMMA FoundExpiredStep ==
  ASSUME Lasting, [Next]_vars, NEW q \in Rotator
  PROVE  FoundExpired(q)'
<1>0. KeysTypeOK
  BY DEF Lasting, Base
<1>1. CASE rot'[q] = rot[q]
  <2> SUFFICES ASSUME rot[q].pc = "purge", NEW k \in rot[q].found PROVE expiresAt'[k] < now'
    BY <1>1 DEF FoundExpired
  <2>1. k \in Key /\ status[k] # "none" /\ expiresAt[k] < now
    BY <1>0, RotType DEF Lasting, Base, Held, FoundExpired
  <2> QED
    BY <1>0, <2>1, ExpiryStays, TimeForward
<1>2. CASE rot'[q].pc # "purge"
  BY <1>2 DEF FoundExpired
<1>3. CASE FindExpired(q)
  <2>1. UNCHANGED <<expiresAt, now>>
    BY <1>3 DEF FindExpired
  <2> QED
    BY <1>0, <1>3, <2>1, FindExpiredMoves DEF FoundExpired
<1>4. ASSUME NEW r \in Rotator,
             \/ Begin(r) \/ ReadCurrent(r) \/ ReadNext(r) \/ Promote(r) \/ FindExpired(r)
             \/ End(r)
             \/ \E k \in Key : MakeNext(r, k) \/ Prepublish(r, k)
      PROVE  rot'[q] = rot[q] \/ rot'[q].pc # "purge" \/ FindExpired(q)
  <2>1. ASSUME Begin(r) PROVE rot'[q] = rot[q] \/ rot'[q].pc # "purge"
    BY <1>0, <2>1, BeginMoves
  <2>2. ASSUME ReadCurrent(r) PROVE rot'[q] = rot[q] \/ rot'[q].pc # "purge"
    BY <1>0, <2>2, ReadCurrentMoves
  <2>3. ASSUME ReadNext(r) PROVE rot'[q] = rot[q] \/ rot'[q].pc # "purge"
    BY <1>0, <2>3, ReadNextMoves
  <2>4. ASSUME Promote(r) PROVE rot'[q] = rot[q] \/ rot'[q].pc # "purge"
    BY <1>0, <2>4, PromoteMoves
  <2>5. ASSUME FindExpired(r) PROVE rot'[q] = rot[q] \/ FindExpired(q)
    BY <1>0, <2>5, FindExpiredMoves
  <2>6. ASSUME End(r) PROVE rot'[q] = rot[q] \/ rot'[q].pc # "purge"
    BY <1>0, <2>6, EndMoves
  <2>7. ASSUME NEW k \in Key, MakeNext(r, k) PROVE rot'[q] = rot[q] \/ rot'[q].pc # "purge"
    BY <1>0, <2>7, MakeNextMoves
  <2>8. ASSUME NEW k \in Key, Prepublish(r, k) PROVE rot'[q] = rot[q] \/ rot'[q].pc # "purge"
    BY <1>0, <2>8, GotoMoves DEF Prepublish, Steps
  <2> QED
    BY <1>4, <2>1, <2>2, <2>3, <2>4, <2>5, <2>6, <2>7, <2>8
<1>5. CASE UNCHANGED rot
  BY <1>1, <1>5
<1> QED
  BY <1>1, <1>2, <1>3, <1>4, <1>5 DEF Next, RotateStep, vars, BootRead, BootGenerate, Restart,
     Purge, Abort, LoadKey, Sign, Tick

LEMMA KnownSignsStep ==
  ASSUME Lasting, [Next]_vars, NEW s \in Signer
  PROVE  KnownSigns(s)'
<1>0. KeysTypeOK /\ signing[s] \in Key \cup {None}
  BY DEF Lasting, Base, KeysTypeOK
<1>1. CASE signing'[s] = signing[s]
  BY <1>0, <1>1, Onward DEF Lasting, KnownSigns
<1>2. CASE signing'[s] = None
  BY <1>2 DEF KnownSigns
<1>3. ASSUME NEW t \in Signer, LoadKey(t) PROVE KnownSigns(s)'
  <2>1. PICK k \in With("active") : signing' = [signing EXCEPT ![t] = k]
    BY <1>3 DEF LoadKey
  <2>2. signing'[s] = signing[s] \/ (signing'[s] = k /\ k \in Key /\ status[k] # "none")
    BY <1>0, <2>1 DEF KeysTypeOK, With
  <2> QED
    BY <1>0, <1>1, <2>2, Onward DEF KnownSigns
<1>4. ASSUME NEW t \in Signer, Sign(t) PROVE signing'[s] = signing[s] \/ signing'[s] = None
  BY <1>0, <1>4 DEF Sign, KeysTypeOK
<1>5. CASE UNCHANGED signing
  BY <1>1, <1>5
<1> QED
  BY <1>1, <1>2, <1>3, <1>4, <1>5 DEF Next, RotateStep, vars, BootRead, BootGenerate, Restart, Begin,
     ReadCurrent, ReadNext, MakeNext, Promote, Prepublish, FindExpired, Purge, End, Abort, Tick

LEMMA LastingStep == Lasting /\ [Next]_vars => Lasting'
<1> SUFFICES ASSUME Lasting, [Next]_vars PROVE Lasting'
  OBVIOUS
<1>1. Base'
  BY HeldStep DEF Lasting
<1> QED
  BY <1>1, KeyLastsStep, FoundExpiredStep, KnownSignsStep DEF Lasting

(* A key verifies the tokens it signed until it expires, however rotations  *)
(* overlap, die or come late, and however long a signer holds its key.      *)
THEOREM KeysLastUntilExpiry == Spec => []LiveTokensVerifyUntilExpiry
<1>1. Lasting => LiveTokensVerifyUntilExpiry
  <2> SUFFICES ASSUME Lasting, NEW k \in Key, liveUntil[k] > now, now <= expiresAt[k]
               PROVE  k \in Jwks
    BY DEF LiveTokensVerifyUntilExpiry
  <2>1. now \in Nat /\ liveUntil[k] \in Nat /\ expiresAt[k] \in Nat
        /\ status[k] \in Published \cup {"none", "purged"}
    BY DEF Lasting, Base, KeysTypeOK
  <2>2. status[k] # "none" /\ status[k] # "purged"
    BY <2>1 DEF Lasting, KeyLasts
  <2> QED
    BY <2>1, <2>2 DEF Jwks
<1> QED
  BY <1>1, LastingInit, LastingStep, PTL DEF Spec
=============================================================================
