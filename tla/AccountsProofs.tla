---------------------------- MODULE AccountsProofs ----------------------------
(***************************************************************************)
(* Theorems about Accounts, for any accounts, emails, subjects and number   *)
(* of handlers in flight, any of which may die at any await.                *)
(***************************************************************************)
EXTENDS Accounts, TLAPS

Acting == {"owned", "apply", "match", "create", "verify", "attach"}
Holding == {"password", "provision", "assign", "owned", "apply", "verify", "attach"}
Named == {"register", "seed", "owned", "apply", "match", "verify"}

(* What handler r remembers: an account that exists, the subject it signs   *)
(* in and the account of its identity, the email it may write.              *)
Known(r) ==
  /\ req[r].pc \in Holding => req[r].held \in Account /\ Exists(req[r].held)
  /\ req[r].pc \in Acting => req[r].subject \in Subject
  /\ req[r].pc \in Named => req[r].email \in Email
  /\ req[r].pc = "seed" => req[r].email = Admin
  /\ req[r].pc \in {"owned", "apply"} => owner[req[r].subject] = req[r].held
  /\ req[r].pc = "apply" => req[r].saw.email \in {None, req[r].email}

Stored ==
  /\ \A a \in Account : ~Exists(a) => user[a] = NoUser
  /\ \A s \in Subject : owner[s] # None => Exists(owner[s])

Base == AccountsTypeOK /\ Stored /\ \A r \in Request : Known(r)

-----------------------------------------------------------------------------
(* What the steps change *)

LEMMA RowFields ==
  ASSUME NEW row \in Row
  PROVE  /\ row.email \in Email \cup {None} /\ row.verified \in BOOLEAN
         /\ row.status \in {"none", "pending", "active"}
  BY DEF Row

LEMMA HandlerFields ==
  ASSUME AccountsTypeOK, NEW r \in Request
  PROVE  /\ req[r] \in Handler /\ req[r].pc \in Steps
         /\ req[r].email \in Email \cup {None} /\ req[r].subject \in Subject \cup {None}
         /\ req[r].held \in Account \cup {None} /\ req[r].saw \in Row
  BY DEF AccountsTypeOK, Handler

LEMMA IdleIsAHandler ==
  /\ NoUser \in Row /\ NoUser.status = "none" /\ NoUser.email = None /\ NoUser.verified = FALSE
  /\ Idle \in Handler /\ Idle.pc = "idle" /\ Idle.email = None /\ Idle.subject = None
  /\ Idle.held = None
<1>1. NoUser \in Row
  BY DEF NoUser, Row
<1> QED
  BY <1>1 DEF Idle, Handler, Steps, NoUser

LEMMA GotoMoves ==
  ASSUME AccountsTypeOK, NEW r \in Request, NEW h \in Handler, Goto(r, h)
  PROVE  /\ req' \in [Request -> Handler] /\ req'[r] = h
         /\ \A q \in Request \ {r} : req'[q] = req[q]
  BY DEF AccountsTypeOK, Goto

LEMMA RegisterMoves ==
  ASSUME AccountsTypeOK, NEW r \in Request, NEW e \in Email, Register(r, e)
  PROVE  /\ req' \in [Request -> Handler]
         /\ req'[r].pc = "register" /\ req'[r].email = e
         /\ req'[r].subject = None /\ req'[r].held = None
         /\ \A q \in Request \ {r} : req'[q] = req[q]
<1> DEFINE h == [Idle EXCEPT !.pc = "register", !.email = e]
<1>1. h \in Handler /\ h.pc = "register" /\ h.email = e /\ h.subject = None /\ h.held = None
  BY IdleIsAHandler DEF Handler, Steps
<1>2. Goto(r, h)
  BY DEF Register
<1> HIDE DEF h
<1> QED
  BY <1>1, <1>2, GotoMoves

(* A handler goes on with what it remembers and, here, an account in hand.  *)
LEMMA OnwardMoves ==
  ASSUME AccountsTypeOK, NEW r \in Request, NEW pc \in Steps, NEW a \in Account,
         Goto(r, [req[r] EXCEPT !.pc = pc, !.held = a])
  PROVE  /\ req' \in [Request -> Handler]
         /\ req'[r].pc = pc /\ req'[r].held = a /\ req'[r].email = req[r].email
         /\ req'[r].subject = req[r].subject /\ req'[r].saw = req[r].saw
         /\ \A q \in Request \ {r} : req'[q] = req[q]
<1> DEFINE h == [req[r] EXCEPT !.pc = pc, !.held = a]
<1>1. /\ h \in Handler /\ h.pc = pc /\ h.held = a /\ h.email = req[r].email
      /\ h.subject = req[r].subject /\ h.saw = req[r].saw
  BY HandlerFields DEF Handler
<1>2. Goto(r, h)
  OBVIOUS
<1> HIDE DEF h
<1> QED
  BY <1>1, <1>2, GotoMoves

LEMMA StepMoves ==
  ASSUME AccountsTypeOK, NEW r \in Request, NEW pc \in Steps,
         Goto(r, [req[r] EXCEPT !.pc = pc])
  PROVE  /\ req' \in [Request -> Handler]
         /\ req'[r].pc = pc /\ req'[r].held = req[r].held /\ req'[r].email = req[r].email
         /\ req'[r].subject = req[r].subject /\ req'[r].saw = req[r].saw
         /\ \A q \in Request \ {r} : req'[q] = req[q]
<1> DEFINE h == [req[r] EXCEPT !.pc = pc]
<1>1. /\ h \in Handler /\ h.pc = pc /\ h.held = req[r].held /\ h.email = req[r].email
      /\ h.subject = req[r].subject /\ h.saw = req[r].saw
  BY HandlerFields DEF Handler
<1>2. Goto(r, h)
  OBVIOUS
<1> HIDE DEF h
<1> QED
  BY <1>1, <1>2, GotoMoves

LEMMA EndMoves ==
  ASSUME AccountsTypeOK, NEW r \in Request, Goto(r, Idle)
  PROVE  /\ req' \in [Request -> Handler]
         /\ req'[r].pc = "idle" /\ req'[r].subject = None
         /\ \A q \in Request \ {r} : req'[q] = req[q]
  BY IdleIsAHandler, GotoMoves

LEMMA SeedMoves ==
  ASSUME AccountsTypeOK, NEW r \in Request, Seed(r)
  PROVE  /\ req' \in [Request -> Handler]
         /\ req'[r].pc = (IF console = "none" THEN "app" ELSE "role") /\ req'[r].subject = None
         /\ \A q \in Request \ {r} : req'[q] = req[q]
<1> DEFINE pc == IF console = "none" THEN "app" ELSE "role"
           h == [Idle EXCEPT !.pc = pc]
<1>1. pc \in Steps
  BY DEF Steps
<1> HIDE DEF pc
<1>2. h \in Handler /\ h.pc = pc /\ h.subject = None
  BY <1>1, IdleIsAHandler DEF Handler
<1>3. Goto(r, h)
  BY DEF Seed, pc
<1> HIDE DEF h
<1>4. /\ req' \in [Request -> Handler] /\ req'[r].pc = pc /\ req'[r].subject = None
      /\ \A q \in Request \ {r} : req'[q] = req[q]
  BY <1>2, <1>3, GotoMoves
<1> QED
  BY <1>4 DEF pc

LEMMA SeedAppMoves ==
  ASSUME AccountsTypeOK, NEW r \in Request, SeedApp(r)
  PROVE  /\ req' \in [Request -> Handler]
         /\ \/ console = "none" /\ req'[r].pc = "role" /\ console' = "app"
            \/ req'[r].pc = "idle" /\ console' = console
         /\ req'[r].subject \in {req[r].subject, None}
         /\ \A q \in Request \ {r} : req'[q] = req[q]
<1>1. CASE console = "none"
  <2>1. Goto(r, [req[r] EXCEPT !.pc = "role"]) /\ console' = "app" /\ "role" \in Steps
    BY <1>1 DEF SeedApp, Steps
  <2> QED
    BY <1>1, <2>1, StepMoves
<1>2. CASE console # "none"
  <2>1. Goto(r, Idle) /\ console' = console
    BY <1>2 DEF SeedApp
  <2> QED
    BY <2>1, EndMoves
<1> QED
  BY <1>1, <1>2

(* The handler of the seed goes on with the account in hand alone.          *)
LEMMA AssignMoves ==
  ASSUME AccountsTypeOK, NEW r \in Request, NEW a \in Account,
         Goto(r, [Idle EXCEPT !.pc = "assign", !.held = a])
  PROVE  /\ req' \in [Request -> Handler]
         /\ req'[r].pc = "assign" /\ req'[r].held = a /\ req'[r].subject = None
         /\ \A q \in Request \ {r} : req'[q] = req[q]
<1> DEFINE h == [Idle EXCEPT !.pc = "assign", !.held = a]
<1>1. h \in Handler /\ h.pc = "assign" /\ h.held = a /\ h.subject = None
  BY IdleIsAHandler DEF Handler, Steps
<1>2. Goto(r, h)
  OBVIOUS
<1> HIDE DEF h
<1> QED
  BY <1>1, <1>2, GotoMoves

LEMMA FindBy ==
  ASSUME NEW e, NEW a \in OneOf(With(e))
  PROVE  /\ a = None => With(e) = {}
         /\ a # None => a \in Account /\ Exists(a) /\ user[a].email = e
  BY NoneIsNothing DEF OneOf, With

LEMMA SeekAdminMoves ==
  ASSUME AccountsTypeOK, NEW r \in Request, SeekAdmin(r)
  PROVE  /\ req' \in [Request -> Handler] /\ req'[r].subject = None
         /\ \/ /\ req'[r].pc = "seed" /\ req'[r].email = Admin
               /\ With(Admin) = {} /\ NoteEmail(Admin)
            \/ /\ req'[r].pc = "assign" /\ req'[r].held \in With(Admin) /\ raced' = raced
         /\ \A q \in Request \ {r} : req'[q] = req[q]
<1>1. PICK a \in OneOf(With(Admin)) :
        IF a = None
        THEN Goto(r, [Idle EXCEPT !.pc = "seed", !.email = Admin]) /\ NoteEmail(Admin)
        ELSE Goto(r, [Idle EXCEPT !.pc = "assign", !.held = a]) /\ UNCHANGED raced
  BY DEF SeekAdmin
<1>2. CASE a = None
  <2> DEFINE h == [Idle EXCEPT !.pc = "seed", !.email = Admin]
  <2>1. h \in Handler /\ h.pc = "seed" /\ h.email = Admin /\ h.subject = None
    BY IdleIsAHandler, AdminIsAnEmail DEF Handler, Steps
  <2>2. Goto(r, h) /\ NoteEmail(Admin)
    BY <1>1, <1>2
  <2> HIDE DEF h
  <2> QED
    BY <1>2, <2>1, <2>2, GotoMoves, FindBy
<1>3. CASE a # None
  <2>1. a \in With(Admin) /\ a \in Account
    BY <1>1, <1>3 DEF OneOf, With
  <2>2. Goto(r, [Idle EXCEPT !.pc = "assign", !.held = a]) /\ raced' = raced
    BY <1>1, <1>3
  <2> QED
    BY <2>1, <2>2, AssignMoves
<1> QED
  BY <1>2, <1>3

LEMMA SetPasswordMoves ==
  ASSUME AccountsTypeOK, NEW r \in Request, Known(r), SetPassword(r)
  PROVE  /\ req' \in [Request -> Handler] /\ req'[r].subject = None
         /\ \/ req[r].pc = "password" /\ req'[r].pc = "idle"
            \/ req[r].pc = "provision" /\ req'[r].pc = "assign" /\ req'[r].held = req[r].held
         /\ \A q \in Request \ {r} : req'[q] = req[q]
<1>1. CASE req[r].pc = "password"
  <2>1. Goto(r, Idle)
    BY <1>1 DEF SetPassword
  <2> QED
    BY <1>1, <2>1, EndMoves
<1>2. CASE req[r].pc = "provision"
  <2>1. Goto(r, [Idle EXCEPT !.pc = "assign", !.held = req[r].held]) /\ req[r].held \in Account
    BY <1>2 DEF SetPassword, Known, Holding
  <2> QED
    BY <1>2, <2>1, AssignMoves
<1> QED
  BY <1>1, <1>2 DEF SetPassword

LEMMA SignInMoves ==
  ASSUME Base, NEW r \in Request, NEW s \in Subject, NEW e \in Email \cup {None},
         SignIn(r, s, e)
  PROVE  /\ req' \in [Request -> Handler]
         /\ \/ req'[r].pc = "idle" /\ req'[r].subject = None
            \/ /\ req'[r].pc = "owned" /\ req'[r].email = e /\ e \in Email
               /\ req'[r].subject = s /\ req'[r].held = owner[s]
               /\ req'[r].saw = user[owner[s]] /\ owner[s] \in Account
         /\ \A q \in Request \ {r} : req'[q] = req[q]
<1> USE DEF Base
<1>1. CASE e = None
  <2>1. Goto(r, Idle)
    BY <1>1 DEF SignIn
  <2> QED
    BY <2>1, EndMoves
<1>2. CASE e # None
  <2> DEFINE h == [pc |-> "owned", email |-> e, subject |-> s,
                   held |-> owner[s], saw |-> user[owner[s]]]
  <2>1. owner[s] \in Account /\ user[owner[s]] \in Row
    BY DEF SignIn, AccountsTypeOK
  <2>2. h \in Handler /\ h.pc = "owned" /\ h.email = e /\ h.subject = s /\ h.held = owner[s]
        /\ h.saw = user[owner[s]]
    BY <2>1 DEF Handler, Steps
  <2>3. Goto(r, h)
    BY <1>2 DEF SignIn
  <2> HIDE DEF h
  <2> QED
    BY <1>2, <2>1, <2>2, <2>3, GotoMoves
<1> QED
  BY <1>1, <1>2

LEMMA SignInNewMoves ==
  ASSUME AccountsTypeOK, NEW r \in Request, NEW s \in Subject, NEW e \in Email \cup {None},
         SignInNew(r, s, e)
  PROVE  /\ req' \in [Request -> Handler]
         /\ e = None => req'[r].pc = "create"
         /\ e # None => req'[r].pc = "match"
         /\ req'[r].email = e /\ req'[r].subject = s
         /\ \A q \in Request \ {r} : req'[q] = req[q]
<1> DEFINE pc == IF e = None THEN "create" ELSE "match"
           h == [Idle EXCEPT !.pc = pc, !.email = e, !.subject = s]
<1>1. pc \in Steps /\ (e = None => pc = "create") /\ (e # None => pc = "match")
  BY DEF Steps
<1>2. Goto(r, h)
  BY DEF SignInNew
<1> HIDE DEF pc
<1>3. h \in Handler /\ h.pc = pc /\ h.email = e /\ h.subject = s
  BY <1>1, IdleIsAHandler DEF Handler
<1> HIDE DEF h
<1> QED
  BY <1>1, <1>2, <1>3, GotoMoves

LEMMA CheckOwnerMoves ==
  ASSUME AccountsTypeOK, NEW r \in Request, CheckOwner(r)
  PROVE  /\ req' \in [Request -> Handler]
         /\ \/ req'[r].pc = "idle" /\ req'[r].subject = None /\ raced' = raced
            \/ /\ req'[r].pc = "apply" /\ req'[r].held = req[r].held
               /\ req'[r].email = req[r].email /\ req'[r].subject = req[r].subject
               /\ req'[r].saw = req[r].saw /\ req[r].saw.email \in {None, req[r].email}
               /\ With(req[r].email) = {} \/ req[r].held \in With(req[r].email)
               /\ NoteEmail(req[r].email)
         /\ \A q \in Request \ {r} : req'[q] = req[q]
<1>1. PICK holder \in OneOf(With(req[r].email)) :
        IF CanApply(r, holder) /\ (req[r].saw.email # req[r].email \/ ~req[r].saw.verified)
        THEN Goto(r, [req[r] EXCEPT !.pc = "apply"]) /\ NoteEmail(req[r].email)
        ELSE Goto(r, Idle) /\ UNCHANGED raced
  BY DEF CheckOwner
<1>2. CASE CanApply(r, holder) /\ (req[r].saw.email # req[r].email \/ ~req[r].saw.verified)
  <2>1. Goto(r, [req[r] EXCEPT !.pc = "apply"]) /\ NoteEmail(req[r].email) /\ "apply" \in Steps
    BY <1>1, <1>2 DEF Steps
  <2>2. req[r].saw.email \in {None, req[r].email} /\ holder \in {None, req[r].held}
    BY <1>2 DEF CanApply
  <2>3. With(req[r].email) = {} \/ req[r].held \in With(req[r].email)
    BY <2>2, FindBy DEF OneOf
  <2> QED
    BY <2>1, <2>2, <2>3, StepMoves
<1>3. CASE ~(CanApply(r, holder) /\ (req[r].saw.email # req[r].email \/ ~req[r].saw.verified))
  <2>1. Goto(r, Idle) /\ raced' = raced
    BY <1>1, <1>3
  <2> QED
    BY <2>1, EndMoves
<1> QED
  BY <1>2, <1>3

LEMMA MatchEmailMoves ==
  ASSUME AccountsTypeOK, NEW r \in Request, MatchEmail(r)
  PROVE  /\ req' \in [Request -> Handler]
         /\ req'[r].email = req[r].email /\ req'[r].subject = req[r].subject
         /\ \/ /\ req'[r].pc = "create" /\ With(req[r].email) = {} /\ NoteEmail(req[r].email)
            \/ /\ req'[r].pc \in {"verify", "attach"} /\ raced' = raced
               /\ req'[r].held \in Account /\ Exists(req'[r].held)
               /\ user[req'[r].held].email = req[r].email
         /\ \A q \in Request \ {r} : req'[q] = req[q]
<1>1. PICK a \in OneOf(With(req[r].email)) :
        IF a = None
        THEN Goto(r, [req[r] EXCEPT !.pc = "create"]) /\ NoteEmail(req[r].email)
        ELSE /\ Goto(r, [req[r] EXCEPT !.held = a,
                           !.pc = IF user[a].verified THEN "attach" ELSE "verify"])
             /\ UNCHANGED raced
  BY DEF MatchEmail
<1>2. CASE a = None
  <2>1. Goto(r, [req[r] EXCEPT !.pc = "create"]) /\ NoteEmail(req[r].email) /\ "create" \in Steps
    BY <1>1, <1>2 DEF Steps
  <2>2. With(req[r].email) = {}
    BY <1>2, FindBy
  <2> QED
    BY <2>1, <2>2, StepMoves
<1>3. CASE a # None
  <2> DEFINE pc == IF user[a].verified THEN "attach" ELSE "verify"
             h == [req[r] EXCEPT !.held = a, !.pc = pc]
  <2>1. a \in Account /\ Exists(a) /\ user[a].email = req[r].email
    BY <1>3, FindBy
  <2>2. pc \in {"verify", "attach"} /\ pc \in Steps
    BY DEF Steps
  <2>3. Goto(r, h) /\ raced' = raced
    BY <1>1, <1>3
  <2> HIDE DEF pc
  <2>4. h \in Handler /\ h.pc = pc /\ h.held = a /\ h.email = req[r].email
        /\ h.subject = req[r].subject
    BY <2>1, <2>2, HandlerFields DEF Handler
  <2> HIDE DEF h
  <2> QED
    BY <2>1, <2>2, <2>3, <2>4, GotoMoves
<1> QED
  BY <1>2, <1>3

(* The three inserts: a row of its own for the email the handler found free.*)
Inserts(r, a) == RegisterInsert(r, a) \/ SeedInsert(r, a) \/ CreateUser(r, a)

LEMMA InsertMoves ==
  ASSUME Base, NEW r \in Request, NEW a \in Account, Inserts(r, a)
  PROVE  /\ ~Exists(a) /\ user[a] = NoUser
         /\ user' \in [Account -> Row]
         /\ user'[a].email = req[r].email /\ user'[a].status # "none"
         /\ \A b \in Account \ {a} : user'[b] = user[b]
         /\ req' \in [Request -> Handler]
         /\ req'[r].held = a /\ req'[r].email = req[r].email /\ req'[r].subject = req[r].subject
         /\ \/ req[r].pc = "register" /\ req'[r].pc = "password"
            \/ req[r].pc = "seed" /\ req'[r].pc = "provision"
            \/ req[r].pc = "create" /\ req'[r].pc = "attach"
         /\ \A q \in Request \ {r} : req'[q] = req[q]
         /\ UNCHANGED <<password, owner, raced, abandoned, admin>>
<1> DEFINE Inserted(row) == row \in Row /\ row.email = req[r].email /\ row.status # "none"
                            /\ Insert(a, row)
<1>1. ASSUME NEW row, Inserted(row)
      PROVE  /\ ~Exists(a) /\ user[a] = NoUser
             /\ user' \in [Account -> Row]
             /\ user'[a].email = req[r].email /\ user'[a].status # "none"
             /\ \A b \in Account \ {a} : user'[b] = user[b]
  BY <1>1 DEF Insert, Base, AccountsTypeOK, Stored
<1>2. AccountsTypeOK /\ Known(r) /\ req[r].email \in Email \cup {None}
  BY HandlerFields DEF Base
<1>3. CASE RegisterInsert(r, a)
  <2> DEFINE row == [email |-> req[r].email, verified |-> FALSE, status |-> "pending"]
  <2>1. row \in Row /\ row.email = req[r].email /\ row.status # "none"
    BY <1>2 DEF Row
  <2>2. Insert(a, row)
    BY <1>3 DEF RegisterInsert
  <2>3. /\ Goto(r, [req[r] EXCEPT !.pc = "password", !.held = a]) /\ "password" \in Steps
        /\ req[r].pc = "register" /\ UNCHANGED <<password, owner, raced, abandoned, admin>>
    BY <1>3 DEF RegisterInsert, Steps
  <2> HIDE DEF row
  <2> QED
    BY <1>1, <1>2, <2>1, <2>2, <2>3, OnwardMoves
<1>4. CASE SeedInsert(r, a)
  <2> DEFINE row == [email |-> Admin, verified |-> TRUE, status |-> "active"]
  <2>1. row \in Row /\ row.email = req[r].email /\ row.status # "none"
    BY <1>2, <1>4, AdminIsAnEmail DEF Row, SeedInsert, Known
  <2>2. Insert(a, row)
    BY <1>4 DEF SeedInsert
  <2>3. /\ Goto(r, [req[r] EXCEPT !.pc = "provision", !.held = a]) /\ "provision" \in Steps
        /\ req[r].pc = "seed" /\ UNCHANGED <<password, owner, raced, abandoned, admin>>
    BY <1>4 DEF SeedInsert, Steps
  <2> HIDE DEF row
  <2> QED
    BY <1>1, <1>2, <2>1, <2>2, <2>3, OnwardMoves
<1>5. CASE CreateUser(r, a)
  <2> DEFINE row == [email |-> req[r].email, verified |-> req[r].email # None,
                     status |-> "active"]
  <2>1. row \in Row /\ row.email = req[r].email /\ row.status # "none"
    BY <1>2 DEF Row
  <2>2. Insert(a, row)
    BY <1>5 DEF CreateUser
  <2>3. /\ Goto(r, [req[r] EXCEPT !.pc = "attach", !.held = a]) /\ "attach" \in Steps
        /\ req[r].pc = "create" /\ UNCHANGED <<password, owner, raced, abandoned, admin>>
    BY <1>5 DEF CreateUser, Steps
  <2> HIDE DEF row
  <2> QED
    BY <1>1, <1>2, <2>1, <2>2, <2>3, OnwardMoves
<1> QED
  BY <1>3, <1>4, <1>5 DEF Inserts

LEMMA ApplyEmailMoves ==
  ASSUME Base, NEW r \in Request, ApplyEmail(r)
  PROVE  /\ user' \in [Account -> Row] /\ req[r].held \in Account /\ req[r].email \in Email
         /\ user'[req[r].held].email = req[r].email /\ user'[req[r].held].verified
         /\ user'[req[r].held].status = user[req[r].held].status
         /\ \A a \in Account \ {req[r].held} : user'[a] = user[a]
         /\ req' \in [Request -> Handler]
         /\ req'[r].pc = "idle" /\ req'[r].subject = None
         /\ \A q \in Request \ {r} : req'[q] = req[q]
<1>1. AccountsTypeOK /\ req[r].held \in Account /\ req[r].email \in Email
  BY DEF Base, ApplyEmail, Known, Holding, Named
<1>2. user' = [user EXCEPT ![req[r].held].email = req[r].email, ![req[r].held].verified = TRUE]
      /\ Goto(r, Idle)
  BY DEF ApplyEmail
<1>3. user' = [user EXCEPT ![req[r].held] =
        [user[req[r].held] EXCEPT !.email = req[r].email, !.verified = TRUE]]
  BY <1>1, <1>2 DEF AccountsTypeOK
<1> DEFINE row == [user[req[r].held] EXCEPT !.email = req[r].email, !.verified = TRUE]
<1>4. row \in Row /\ row.email = req[r].email /\ row.verified = TRUE
      /\ row.status = user[req[r].held].status
  <2>1. user[req[r].held] \in Row /\ req[r].email \in Email \cup {None}
    BY <1>1 DEF AccountsTypeOK
  <2>2. ASSUME NEW old \in Row, NEW e \in Email \cup {None}
        PROVE  LET new == [old EXCEPT !.email = e, !.verified = TRUE]
               IN  /\ new \in Row /\ new.email = e /\ new.verified = TRUE
                   /\ new.status = old.status
    BY DEF Row
  <2> QED
    BY <2>1, <2>2
<1>5. user' = [user EXCEPT ![req[r].held] = row]
  BY <1>3
<1> HIDE DEF row
<1> QED
  BY <1>1, <1>2, <1>4, <1>5, EndMoves DEF AccountsTypeOK

LEMMA MarkVerifiedMoves ==
  ASSUME Base, NEW r \in Request, MarkVerified(r)
  PROVE  /\ user' \in [Account -> Row] /\ req[r].held \in Account
         /\ user'[req[r].held].verified
         /\ user'[req[r].held].email = user[req[r].held].email
         /\ user'[req[r].held].status = user[req[r].held].status
         /\ \A a \in Account \ {req[r].held} : user'[a] = user[a]
         /\ req' \in [Request -> Handler]
         /\ req'[r].pc = "attach" /\ req'[r].held = req[r].held
         /\ req'[r].subject = req[r].subject
         /\ \A q \in Request \ {r} : req'[q] = req[q]
<1>1. AccountsTypeOK /\ req[r].held \in Account
  BY DEF Base, MarkVerified, Known, Holding
<1>2. Goto(r, [req[r] EXCEPT !.pc = "attach"]) /\ "attach" \in Steps
  BY DEF MarkVerified, Steps
<1> DEFINE row == [user[req[r].held] EXCEPT !.verified = TRUE]
<1>3. row \in Row /\ row.email = user[req[r].held].email /\ row.verified = TRUE
      /\ row.status = user[req[r].held].status
  BY <1>1 DEF AccountsTypeOK, Row
<1>4. user' = [user EXCEPT ![req[r].held] = row]
  BY DEF MarkVerified
<1> HIDE DEF row
<1> QED
  BY <1>1, <1>2, <1>3, <1>4, StepMoves DEF AccountsTypeOK

LEMMA AttachMoves ==
  ASSUME Base, NEW r \in Request, Attach(r)
  PROVE  /\ req[r].subject \in Subject /\ req[r].held \in Account
         /\ owner' \in [Subject -> Account \cup {None}]
         /\ owner[req[r].subject] = None => owner'[req[r].subject] = req[r].held
         /\ owner[req[r].subject] # None => owner'[req[r].subject] = owner[req[r].subject]
         /\ \A s \in Subject \ {req[r].subject} : owner'[s] = owner[s]
         /\ req' \in [Request -> Handler]
         /\ req'[r].pc = "idle" /\ req'[r].subject = None
         /\ \A q \in Request \ {r} : req'[q] = req[q]
<1>1. AccountsTypeOK /\ req[r].subject \in Subject /\ req[r].held \in Account /\ Goto(r, Idle)
  BY DEF Base, Attach, Known, Acting, Holding
<1> DEFINE a == IF owner[req[r].subject] = None THEN req[r].held ELSE owner[req[r].subject]
<1>2. owner' = [owner EXCEPT ![req[r].subject] = a] /\ a \in Account \cup {None}
  BY <1>1 DEF Attach, AccountsTypeOK
<1>3. (owner[req[r].subject] = None => a = req[r].held)
      /\ (owner[req[r].subject] # None => a = owner[req[r].subject])
  OBVIOUS
<1> HIDE DEF a
<1> QED
  BY <1>1, <1>2, <1>3, EndMoves DEF AccountsTypeOK

-----------------------------------------------------------------------------
(* Type correctness and what handlers remember *)

LEMMA TypeStep == Base /\ [Next]_vars => AccountsTypeOK'
<1> SUFFICES ASSUME Base, [Next]_vars PROVE AccountsTypeOK'
  OBVIOUS
<1>0. AccountsTypeOK
  BY DEF Base
<1>1. ASSUME NEW e \in Email \cup {None}, NoteEmail(e) PROVE raced' \subseteq Email \cup Subject
  BY <1>0, <1>1 DEF NoteEmail, AccountsTypeOK
<1>2. ASSUME NEW s \in Subject, NoteSubject(s) PROVE raced' \subseteq Email \cup Subject
  BY <1>0, <1>2 DEF NoteSubject, AccountsTypeOK
<1>3. ASSUME NEW r \in Request PROVE req[r].email \in Email \cup {None}
  BY <1>0, HandlerFields
<1>4. ASSUME NEW r \in Request, NEW e \in Email, Register(r, e) PROVE AccountsTypeOK'
  BY <1>0, <1>1, <1>4, RegisterMoves DEF Register, AccountsTypeOK, admin
<1>5. ASSUME NEW r \in Request, NEW a \in Account, Inserts(r, a) PROVE AccountsTypeOK'
  BY <1>0, <1>5, InsertMoves DEF AccountsTypeOK, admin
<1>6. ASSUME NEW r \in Request, Seed(r) PROVE AccountsTypeOK'
  BY <1>0, <1>6, SeedMoves DEF Seed, AccountsTypeOK, admin
<1>7. ASSUME NEW r \in Request, SeedApp(r) PROVE AccountsTypeOK'
  BY <1>0, <1>7, SeedAppMoves DEF SeedApp, AccountsTypeOK
<1>8. ASSUME NEW r \in Request, SeedRole(r) PROVE AccountsTypeOK'
  <2>1. Goto(r, [req[r] EXCEPT !.pc = "seek"]) /\ "seek" \in Steps
    BY <1>8 DEF SeedRole, Steps
  <2> QED
    BY <1>0, <1>8, <2>1, StepMoves DEF SeedRole, AccountsTypeOK
<1>9. ASSUME NEW r \in Request, SeekAdmin(r) PROVE AccountsTypeOK'
  BY <1>0, <1>1, <1>9, SeekAdminMoves, AdminIsAnEmail DEF SeekAdmin, AccountsTypeOK, admin
<1>10. ASSUME NEW r \in Request, SetPassword(r) PROVE AccountsTypeOK'
  <2>1. Known(r) /\ req[r].held \in Account
    BY <1>10 DEF Base, SetPassword, Known, Holding
  <2> QED
    BY <1>0, <1>10, <2>1, SetPasswordMoves DEF SetPassword, AccountsTypeOK, admin
<1>11. ASSUME NEW r \in Request, SeedAssign(r) PROVE AccountsTypeOK'
  <2>1. Goto(r, Idle) /\ req[r].held \in Account
    BY <1>11 DEF SeedAssign, Base, Known, Holding
  <2> QED
    BY <1>0, <1>11, <2>1, EndMoves DEF SeedAssign, AccountsTypeOK
<1>12. ASSUME NEW r \in Request, NEW s \in Subject, NEW e \in Email \cup {None}, SignIn(r, s, e)
       PROVE AccountsTypeOK'
  BY <1>0, <1>2, <1>12, SignInMoves DEF SignIn, AccountsTypeOK, admin
<1>13. ASSUME NEW r \in Request, NEW s \in Subject, NEW e \in Email \cup {None},
              SignInNew(r, s, e)
       PROVE AccountsTypeOK'
  BY <1>0, <1>2, <1>13, SignInNewMoves DEF SignInNew, AccountsTypeOK, admin
<1>14. ASSUME NEW r \in Request, CheckOwner(r) PROVE AccountsTypeOK'
  <2>1. raced' \subseteq Email \cup Subject /\ req' \in [Request -> Handler]
    BY <1>0, <1>1, <1>3, <1>14, CheckOwnerMoves DEF AccountsTypeOK
  <2> QED
    BY <1>0, <1>14, <2>1 DEF CheckOwner, AccountsTypeOK, admin
<1>15. ASSUME NEW r \in Request, ApplyEmail(r) PROVE AccountsTypeOK'
  BY <1>0, <1>15, ApplyEmailMoves DEF ApplyEmail, AccountsTypeOK, admin
<1>16. ASSUME NEW r \in Request, MatchEmail(r) PROVE AccountsTypeOK'
  <2>1. raced' \subseteq Email \cup Subject /\ req' \in [Request -> Handler]
    BY <1>0, <1>1, <1>3, <1>16, MatchEmailMoves DEF AccountsTypeOK
  <2> QED
    BY <1>0, <1>16, <2>1 DEF MatchEmail, AccountsTypeOK, admin
<1>17. ASSUME NEW r \in Request, MarkVerified(r) PROVE AccountsTypeOK'
  BY <1>0, <1>17, MarkVerifiedMoves DEF MarkVerified, AccountsTypeOK, admin
<1>18. ASSUME NEW r \in Request, Attach(r) PROVE AccountsTypeOK'
  BY <1>0, <1>18, AttachMoves DEF Attach, AccountsTypeOK, admin
<1>19. ASSUME NEW r \in Request, Abort(r) PROVE AccountsTypeOK'
  <2>1. Goto(r, Idle) /\ abandoned' \subseteq Account
    BY <1>0, <1>19 DEF Abort, AccountsTypeOK
  <2> QED
    BY <1>0, <1>19, <2>1, EndMoves DEF Abort, AccountsTypeOK, admin
<1>20. CASE UNCHANGED vars
  BY <1>0, <1>20 DEF vars, AccountsTypeOK
<1> QED
  BY <1>4, <1>5, <1>6, <1>7, <1>8, <1>9, <1>10, <1>11, <1>12, <1>13, <1>14, <1>15, <1>16,
     <1>17, <1>18, <1>19, <1>20 DEF Next, Inserts

(* Accounts, their having an email, identities and the history only grow.   *)
LEMMA Grows ==
  ASSUME Base, [Next]_vars
  PROVE  /\ \A a \in Account : Exists(a) => Exists(a)'
         /\ \A a \in Account : user[a].email # None => user'[a].email # None
         /\ \A s \in Subject : owner[s] # None => owner'[s] = owner[s]
         /\ raced \subseteq raced'
<1>1. CASE \E r \in Request, a \in Account : Inserts(r, a)
  <2>1. PICK r \in Request, a \in Account : Inserts(r, a)
    BY <1>1
  <2>2. user[a].email = None
    BY <2>1, InsertMoves, IdleIsAHandler
  <2> QED
    BY <2>1, <2>2, InsertMoves DEF Exists
<1>2. CASE \E r \in Request : ApplyEmail(r)
  <2>1. PICK r \in Request : ApplyEmail(r)
    BY <1>2
  <2>2. owner' = owner /\ raced' = raced
    BY <2>1 DEF ApplyEmail
  <2> QED
    BY <2>1, <2>2, ApplyEmailMoves, NoneIsNothing DEF Exists
<1>3. CASE \E r \in Request : MarkVerified(r)
  <2>1. PICK r \in Request : MarkVerified(r)
    BY <1>3
  <2>2. owner' = owner /\ raced' = raced
    BY <2>1 DEF MarkVerified
  <2> QED
    BY <2>1, <2>2, MarkVerifiedMoves DEF Exists
<1>4. CASE \E r \in Request : Attach(r)
  <2>1. PICK r \in Request : Attach(r)
    BY <1>4
  <2>2. user' = user /\ raced' = raced
    BY <2>1 DEF Attach
  <2> QED
    BY <2>1, <2>2, AttachMoves DEF Exists
<1>5. CASE UNCHANGED <<user, owner>> /\ raced \subseteq raced'
  BY <1>5 DEF Exists
<1>6. ASSUME NEW e, NoteEmail(e) PROVE raced \subseteq raced'
  BY <1>6 DEF NoteEmail
<1>7. ASSUME NEW s, NoteSubject(s) PROVE raced \subseteq raced'
  BY <1>7 DEF NoteSubject
<1>8. ASSUME NEW r \in Request, SeekAdmin(r) \/ CheckOwner(r) \/ MatchEmail(r)
      PROVE  raced \subseteq raced'
  BY <1>6, <1>8, SeekAdminMoves, CheckOwnerMoves, MatchEmailMoves DEF Base
<1> QED
  BY <1>1, <1>2, <1>3, <1>4, <1>5, <1>6, <1>7, <1>8 DEF Next, Inserts, vars, Register, Seed,
     SeedApp, SeedRole, SeekAdmin, SetPassword, SeedAssign, SignIn, SignInNew, CheckOwner,
     MatchEmail, Abort

LEMMA StoredStep ==
  ASSUME Base, [Next]_vars
  PROVE  Stored'
<1>0. Stored /\ \A r \in Request : Known(r)
  BY DEF Base
<1>1. CASE \E r \in Request, a \in Account : Inserts(r, a)
  <2>1. PICK r \in Request, a \in Account : Inserts(r, a)
    BY <1>1
  <2>2. \A b \in Account : Exists(b) => Exists(b)'
    BY Grows
  <2> QED
    BY <1>0, <2>1, <2>2, InsertMoves DEF Stored, Exists, Base, AccountsTypeOK
<1>2. CASE \E r \in Request : ApplyEmail(r)
  <2>1. PICK r \in Request : ApplyEmail(r)
    BY <1>2
  <2>2. owner' = owner /\ Exists(req[r].held)
    BY <1>0, <2>1 DEF ApplyEmail, Known, Holding
  <2>3. \A b \in Account : Exists(b) => Exists(b)'
    BY Grows
  <2> QED
    BY <1>0, <2>1, <2>2, <2>3, ApplyEmailMoves DEF Stored, Exists, Base, AccountsTypeOK
<1>3. CASE \E r \in Request : MarkVerified(r)
  <2>1. PICK r \in Request : MarkVerified(r)
    BY <1>3
  <2>2. owner' = owner /\ Exists(req[r].held)
    BY <1>0, <2>1 DEF MarkVerified, Known, Holding
  <2>3. \A b \in Account : Exists(b) => Exists(b)'
    BY Grows
  <2> QED
    BY <1>0, <2>1, <2>2, <2>3, MarkVerifiedMoves DEF Stored, Exists, Base, AccountsTypeOK
<1>4. CASE \E r \in Request : Attach(r)
  <2>1. PICK r \in Request : Attach(r)
    BY <1>4
  <2>2. user' = user /\ Exists(req[r].held)
    BY <1>0, <2>1 DEF Attach, Known, Holding
  <2> QED
    BY <1>0, <2>1, <2>2, AttachMoves DEF Stored, Exists
<1>5. CASE UNCHANGED <<user, owner>>
  BY <1>0, <1>5 DEF Stored, Exists
<1> QED
  BY <1>1, <1>2, <1>3, <1>4, <1>5 DEF Next, Inserts, vars, Register, Seed,
     SeedApp, SeedRole, SeekAdmin, SetPassword, SeedAssign, SignIn, SignInNew, CheckOwner,
     MatchEmail, Abort

LEMMA KnownStays ==
  ASSUME Base, [Next]_vars, NEW r \in Request, req'[r] = req[r]
  PROVE  Known(r)'
<1>1. Known(r) /\ AccountsTypeOK
  BY DEF Base
<1>2. req[r].pc \in Holding => Exists(req[r].held)'
  BY <1>1, Grows DEF Known
<1>3. req[r].pc \in {"owned", "apply"} => owner'[req[r].subject] = req[r].held
  <2> SUFFICES ASSUME req[r].pc \in {"owned", "apply"} PROVE owner'[req[r].subject] = req[r].held
    OBVIOUS
  <2>1. req[r].subject \in Subject /\ req[r].held \in Account
        /\ owner[req[r].subject] = req[r].held
    BY <1>1 DEF Known, Acting, Holding
  <2> QED
    BY <2>1, Grows, NoneIsNothing
<1> QED
  BY <1>1, <1>2, <1>3 DEF Known

LEMMA KnownStep ==
  ASSUME Base, [Next]_vars, NEW q \in Request
  PROVE  Known(q)'
<1>0. AccountsTypeOK /\ Stored /\ \A r \in Request : Known(r)
  BY DEF Base
<1> DEFINE Moves(r) == Known(r)' /\ \A p \in Request \ {r} : req'[p] = req[p]
<1>1. ASSUME NEW r \in Request, NEW e \in Email, Register(r, e) PROVE Moves(r)
  BY <1>0, <1>1, RegisterMoves DEF Known, Holding, Acting, Named
<1>2. ASSUME NEW r \in Request, NEW a \in Account, Inserts(r, a) PROVE Moves(r)
  <2>1. Known(r)'
    BY <1>0, <1>2, InsertMoves DEF Known, Holding, Acting, Named, Exists
  <2> QED
    BY <1>2, <2>1, InsertMoves
<1>3. ASSUME NEW r \in Request, Seed(r) PROVE Moves(r)
  BY <1>0, <1>3, SeedMoves DEF Known, Holding, Acting, Named
<1>4. ASSUME NEW r \in Request, SeedApp(r) PROVE Moves(r)
  <2>1. req'[r].pc \in {"role", "idle"} /\ \A p \in Request \ {r} : req'[p] = req[p]
    BY <1>0, <1>4, SeedAppMoves
  <2> QED
    BY <2>1 DEF Known, Holding, Acting, Named
<1>5. ASSUME NEW r \in Request, SeedRole(r) PROVE Moves(r)
  <2>1. Goto(r, [req[r] EXCEPT !.pc = "seek"]) /\ "seek" \in Steps
    BY <1>5 DEF SeedRole, Steps
  <2>2. req'[r].pc = "seek" /\ \A p \in Request \ {r} : req'[p] = req[p]
    BY <1>0, <2>1, StepMoves
  <2> QED
    BY <2>2 DEF Known, Holding, Acting, Named
<1>6. ASSUME NEW r \in Request, SeekAdmin(r) PROVE Moves(r)
  <2>1. user' = user
    BY <1>6 DEF SeekAdmin
  <2>2. \/ req'[r].pc = "seed" /\ req'[r].email = Admin
        \/ req'[r].pc = "assign" /\ req'[r].held \in With(Admin)
    BY <1>0, <1>6, SeekAdminMoves
  <2>3. Known(r)'
    BY <2>1, <2>2, AdminIsAnEmail DEF Known, Holding, Acting, Named, With, Exists
  <2> QED
    BY <1>0, <1>6, <2>3, SeekAdminMoves
<1>7. ASSUME NEW r \in Request, SetPassword(r) PROVE Moves(r)
  <2>1. Known(r) /\ user' = user
    BY <1>0, <1>7 DEF SetPassword
  <2>2. Known(r)'
    BY <1>0, <1>7, <2>1, SetPasswordMoves DEF Known, Holding, Acting, Named, Exists
  <2> QED
    BY <1>0, <1>7, <2>2, SetPasswordMoves
<1>8. ASSUME NEW r \in Request, Goto(r, Idle) PROVE Moves(r)
  <2>1. req'[r].pc = "idle" /\ \A p \in Request \ {r} : req'[p] = req[p]
    BY <1>0, <1>8, EndMoves
  <2> QED
    BY <2>1 DEF Known, Holding, Acting, Named
<1>9. ASSUME NEW r \in Request, NEW s \in Subject, NEW e \in Email \cup {None}, SignIn(r, s, e)
      PROVE Moves(r)
  <2>1. Exists(owner[s]) /\ user' = user /\ owner' = owner
    BY <1>0, <1>9 DEF SignIn, Stored
  <2>2. Known(r)'
    BY <1>9, <2>1, SignInMoves DEF Known, Holding, Acting, Named, Exists
  <2> QED
    BY <1>9, <2>2, SignInMoves
<1>10. ASSUME NEW r \in Request, NEW s \in Subject, NEW e \in Email \cup {None},
              SignInNew(r, s, e)
       PROVE Moves(r)
  <2>1. Known(r)'
    BY <1>0, <1>10, SignInNewMoves DEF Known, Holding, Acting, Named
  <2> QED
    BY <1>0, <1>10, <2>1, SignInNewMoves
<1>11. ASSUME NEW r \in Request, CheckOwner(r) PROVE Moves(r)
  <2>1. req[r].pc = "owned" /\ user' = user /\ owner' = owner /\ Known(r)
    BY <1>0, <1>11 DEF CheckOwner
  <2>2. \/ req'[r].pc = "idle"
        \/ /\ req'[r].pc = "apply" /\ req'[r].held = req[r].held
           /\ req'[r].email = req[r].email /\ req'[r].subject = req[r].subject
           /\ req'[r].saw = req[r].saw /\ req[r].saw.email \in {None, req[r].email}
    BY <1>0, <1>11, CheckOwnerMoves
  <2>3. Known(r)'
    BY <2>1, <2>2 DEF Known, Holding, Acting, Named, Exists
  <2> QED
    BY <1>0, <1>11, <2>3, CheckOwnerMoves
<1>12. ASSUME NEW r \in Request, MatchEmail(r) PROVE Moves(r)
  <2>1. req[r].pc = "match" /\ user' = user /\ Known(r)
    BY <1>0, <1>12 DEF MatchEmail
  <2>2. Known(r)'
    BY <1>0, <1>12, <2>1, MatchEmailMoves DEF Known, Holding, Acting, Named, Exists
  <2> QED
    BY <1>0, <1>12, <2>2, MatchEmailMoves
<1>13. ASSUME NEW r \in Request, MarkVerified(r) PROVE Moves(r)
  <2>1. req[r].pc = "verify" /\ Known(r)
    BY <1>0, <1>13 DEF MarkVerified
  <2>2. req[r].held \in Account /\ user'[req[r].held].status # "none"
    BY <2>1, Grows DEF Known, Holding, Exists
  <2>3. Known(r)'
    BY <1>13, <2>1, <2>2, MarkVerifiedMoves DEF Known, Holding, Acting, Named, Exists
  <2> QED
    BY <1>13, <2>3, MarkVerifiedMoves
<1>14. CASE UNCHANGED vars
  BY <1>14, KnownStays DEF vars
<1>15. ASSUME NEW r \in Request, Moves(r) PROVE Known(q)'
  BY <1>15, KnownStays
<1> HIDE DEF Moves
<1> QED
  BY <1>1, <1>2, <1>3, <1>4, <1>5, <1>6, <1>7, <1>8, <1>9, <1>10, <1>11, <1>12, <1>13, <1>14,
     <1>15 DEF Next, Inserts, SeedAssign, ApplyEmail, Attach, Abort

LEMMA BaseInit == Init => Base
<1> SUFFICES ASSUME Init PROVE Base
  OBVIOUS
<1>1. \A r \in Request : req[r] = Idle /\ req[r].pc = "idle"
  BY IdleIsAHandler DEF Init
<1>2. AccountsTypeOK
  BY IdleIsAHandler DEF Init, AccountsTypeOK
<1>3. \A r \in Request : Known(r)
  BY <1>1 DEF Known, Holding, Acting, Named
<1>4. Stored
  BY DEF Init, Stored
<1> QED
  BY <1>2, <1>3, <1>4 DEF Base

LEMMA BaseStep == Base /\ [Next]_vars => Base'
  BY TypeStep, StoredStep, KnownStep DEF Base

(* Every value the tables and the handlers reach is one the code can store. *)
THEOREM TypeCorrect == Spec => []AccountsTypeOK
<1>1. Base => AccountsTypeOK
  BY DEF Base
<1> QED
  BY <1>1, BaseInit, BaseStep, PTL DEF Spec

-----------------------------------------------------------------------------
(* One account for an email                                                 *)

Givers == {"register", "seed", "create", "apply"}

(* Nobody overlapped over email e: one handler may write it, and an account *)
(* has it only if that is the account the handler writes.                   *)
Claimed(e) ==
  /\ \A a, b \in With(e) : a = b
  /\ \A q, r \in Giving(e) : q = r
  /\ \A r \in Giving(e), a \in With(e) : req[r].pc = "apply" /\ req[r].held = a

EmailInv == Base /\ \A e \in Email \ raced : Claimed(e)

(* A handler that writes no email in this step and is not about to.         *)
LEMMA ClaimedStays ==
  ASSUME NEW e \in Email, Claimed(e), NEW r \in Request,
         \A a \in With(e)' : a \in With(e),
         \A q \in Request \ {r} : req'[q] = req[q],
         req'[r].pc \notin Givers \/ req'[r].email # e
  PROVE  Claimed(e)'
<1>1. \A q \in Giving(e)' : q \in Giving(e) /\ req'[q] = req[q]
  BY DEF Giving, Givers
<1> QED
  BY <1>1 DEF Claimed

(* A handler that found the email free, while nobody else had.              *)
LEMMA ClaimedAnew ==
  ASSUME NEW e \in Email, e \notin raced, e \notin raced', Claimed(e), NEW r \in Request,
         NoteEmail(e), user' = user,
         \A q \in Request \ {r} : req'[q] = req[q],
         With(e) = {} \/ (req'[r].pc = "apply" /\ req'[r].held \in With(e))
  PROVE  Claimed(e)'
<1>1. Giving(e) = {}
  BY NoneIsNothing DEF NoteEmail
<1>2. With(e)' = With(e)
  BY DEF With, Exists
<1>3. \A q \in Giving(e)' : q = r
  BY <1>1 DEF Giving
<1> QED
  BY <1>2, <1>3 DEF Claimed

LEMMA EmailStep ==
  ASSUME EmailInv, [Next]_vars, NEW e \in Email, e \notin raced'
  PROVE  Claimed(e)'
<1>0. Base /\ AccountsTypeOK /\ e \notin raced /\ Claimed(e) /\ \A r \in Request : Known(r)
  BY Grows DEF EmailInv, Base
<1>1. user' = user => \A a \in With(e)' : a \in With(e)
  BY DEF With, Exists
<1>2. ASSUME NEW r \in Request, NEW f \in Email, Register(r, f) PROVE Claimed(e)'
  <2>1. NoteEmail(f) /\ user' = user /\ With(f) = {}
    BY <1>2 DEF Register
  <2>2. CASE f = e
    BY <1>0, <1>2, <2>1, <2>2, RegisterMoves, ClaimedAnew
  <2>3. CASE f # e
    BY <1>0, <1>1, <1>2, <2>1, <2>3, RegisterMoves, ClaimedStays
  <2> QED
    BY <2>2, <2>3
<1>3. ASSUME NEW r \in Request, NEW a \in Account, Inserts(r, a) PROVE Claimed(e)'
  <2>1. req'[r].pc \notin Givers /\ \A q \in Request \ {r} : req'[q] = req[q]
    BY <1>0, <1>3, InsertMoves DEF Givers
  <2>2. CASE req[r].email # e
    <3>1. \A b \in With(e)' : b \in With(e)
      BY <1>0, <1>3, <2>2, InsertMoves DEF With, Exists
    <3> QED
      BY <1>0, <2>1, <3>1, ClaimedStays
  <2>3. CASE req[r].email = e
    <3>1. r \in Giving(e) /\ req[r].pc # "apply"
      BY <1>0, <1>3, <2>3, InsertMoves DEF Giving
    <3>2. With(e) = {}
      BY <1>0, <3>1 DEF Claimed
    <3>3. Giving(e)' = {}
      BY <1>0, <2>1, <3>1 DEF Claimed, Giving, Givers
    <3>4. \A b \in With(e)' : b = a
      BY <1>0, <1>3, <3>2, InsertMoves DEF With, Exists
    <3> QED
      BY <3>3, <3>4 DEF Claimed
  <2> QED
    BY <2>2, <2>3
<1>4. ASSUME NEW r \in Request, Seed(r) PROVE Claimed(e)'
  <2>1. user' = user /\ req'[r].pc \notin Givers
    BY <1>0, <1>4, SeedMoves DEF Seed, Givers
  <2> QED
    BY <1>0, <1>1, <1>4, <2>1, SeedMoves, ClaimedStays
<1>5. ASSUME NEW r \in Request, SeedApp(r) PROVE Claimed(e)'
  <2>1. user' = user /\ req'[r].pc \notin Givers
    BY <1>0, <1>5, SeedAppMoves DEF SeedApp, Givers
  <2> QED
    BY <1>0, <1>1, <1>5, <2>1, SeedAppMoves, ClaimedStays
<1>6. ASSUME NEW r \in Request, SeedRole(r) PROVE Claimed(e)'
  <2>1. Goto(r, [req[r] EXCEPT !.pc = "seek"]) /\ "seek" \in Steps /\ user' = user
    BY <1>6 DEF SeedRole, Steps
  <2>2. req'[r].pc = "seek" /\ \A q \in Request \ {r} : req'[q] = req[q]
    BY <1>0, <2>1, StepMoves
  <2>3. req'[r].pc \notin Givers
    BY <2>2 DEF Givers
  <2> QED
    BY <1>0, <1>1, <2>1, <2>2, <2>3, ClaimedStays
<1>7. ASSUME NEW r \in Request, SeekAdmin(r) PROVE Claimed(e)'
  <2>1. user' = user
    BY <1>7 DEF SeekAdmin
  <2>2. \A q \in Request \ {r} : req'[q] = req[q]
    BY <1>0, <1>7, SeekAdminMoves
  <2>3. CASE req'[r].pc \in Givers /\ req'[r].email = e
    <3>1. e = Admin /\ With(e) = {} /\ NoteEmail(e)
      BY <1>0, <1>7, <2>3, SeekAdminMoves DEF Givers
    <3> QED
      BY <1>0, <2>1, <2>2, <3>1, ClaimedAnew
  <2>4. CASE req'[r].pc \notin Givers \/ req'[r].email # e
    BY <1>0, <1>1, <2>1, <2>2, <2>4, ClaimedStays
  <2> QED
    BY <2>3, <2>4
<1>8. ASSUME NEW r \in Request, SetPassword(r) PROVE Claimed(e)'
  <2>1. user' = user
    BY <1>8 DEF SetPassword
  <2>2. req'[r].pc \notin Givers /\ \A q \in Request \ {r} : req'[q] = req[q]
    BY <1>0, <1>8, SetPasswordMoves DEF Givers
  <2> QED
    BY <1>0, <1>1, <2>1, <2>2, ClaimedStays
<1>9. ASSUME NEW r \in Request, Goto(r, Idle), user' = user PROVE Claimed(e)'
  <2>1. req'[r].pc \notin Givers /\ \A q \in Request \ {r} : req'[q] = req[q]
    BY <1>0, <1>9, EndMoves DEF Givers
  <2> QED
    BY <1>0, <1>1, <1>9, <2>1, ClaimedStays
<1>10. ASSUME NEW r \in Request, NEW s \in Subject, NEW f \in Email \cup {None}, SignIn(r, s, f)
       PROVE Claimed(e)'
  <2>1. user' = user
    BY <1>10 DEF SignIn
  <2>2. req'[r].pc \notin Givers /\ \A q \in Request \ {r} : req'[q] = req[q]
    BY <1>0, <1>10, SignInMoves DEF Givers
  <2> QED
    BY <1>0, <1>1, <2>1, <2>2, ClaimedStays
<1>11. ASSUME NEW r \in Request, NEW s \in Subject, NEW f \in Email \cup {None},
              SignInNew(r, s, f)
       PROVE Claimed(e)'
  <2>1. user' = user
    BY <1>11 DEF SignInNew
  <2>2. req'[r].pc \notin Givers \/ req'[r].email # e
    BY <1>0, <1>11, SignInNewMoves, NoneIsNothing DEF Givers
  <2> QED
    BY <1>0, <1>1, <1>11, <2>1, <2>2, SignInNewMoves, ClaimedStays
<1>12. ASSUME NEW r \in Request, CheckOwner(r) PROVE Claimed(e)'
  <2>1. user' = user
    BY <1>12 DEF CheckOwner
  <2>2. \A q \in Request \ {r} : req'[q] = req[q]
    BY <1>0, <1>12, CheckOwnerMoves
  <2>3. CASE req'[r].pc \in Givers /\ req'[r].email = e
    <3>1. /\ NoteEmail(e) /\ req'[r].pc = "apply"
          /\ With(e) = {} \/ req'[r].held \in With(e)
      BY <1>0, <1>12, <2>3, CheckOwnerMoves DEF Givers
    <3> QED
      BY <1>0, <2>1, <2>2, <3>1, ClaimedAnew
  <2>4. CASE req'[r].pc \notin Givers \/ req'[r].email # e
    BY <1>0, <1>1, <2>1, <2>2, <2>4, ClaimedStays
  <2> QED
    BY <2>3, <2>4
<1>13. ASSUME NEW r \in Request, ApplyEmail(r) PROVE Claimed(e)'
  <2>1. req'[r].pc \notin Givers /\ (\A q \in Request \ {r} : req'[q] = req[q])
        /\ req[r].pc = "apply"
    BY <1>0, <1>13, ApplyEmailMoves DEF Givers, ApplyEmail
  <2>2. CASE req[r].email # e
    <3>1. \A b \in With(e)' : b \in With(e)
      BY <1>0, <1>13, <2>2, ApplyEmailMoves DEF With, Exists
    <3> QED
      BY <1>0, <2>1, <3>1, ClaimedStays
  <2>3. CASE req[r].email = e
    <3>1. r \in Giving(e)
      BY <2>1, <2>3 DEF Giving
    <3>2. \A b \in With(e) : b = req[r].held
      BY <1>0, <3>1 DEF Claimed
    <3>3. Giving(e)' = {}
      BY <1>0, <2>1, <3>1 DEF Claimed, Giving, Givers
    <3>4. \A b \in With(e)' : b = req[r].held
      BY <1>0, <1>13, <3>2, ApplyEmailMoves DEF With, Exists
    <3> QED
      BY <3>3, <3>4 DEF Claimed
  <2> QED
    BY <2>2, <2>3
<1>14. ASSUME NEW r \in Request, MatchEmail(r) PROVE Claimed(e)'
  <2>1. user' = user
    BY <1>14 DEF MatchEmail
  <2>2. \A q \in Request \ {r} : req'[q] = req[q]
    BY <1>0, <1>14, MatchEmailMoves
  <2>3. CASE req'[r].pc \in Givers /\ req'[r].email = e
    <3>1. NoteEmail(e) /\ With(e) = {}
      BY <1>0, <1>14, <2>3, MatchEmailMoves DEF Givers
    <3> QED
      BY <1>0, <2>1, <2>2, <3>1, ClaimedAnew
  <2>4. CASE req'[r].pc \notin Givers \/ req'[r].email # e
    BY <1>0, <1>1, <2>1, <2>2, <2>4, ClaimedStays
  <2> QED
    BY <2>3, <2>4
<1>15. ASSUME NEW r \in Request, MarkVerified(r) PROVE Claimed(e)'
  <2>1. req'[r].pc \notin Givers /\ (\A q \in Request \ {r} : req'[q] = req[q])
    BY <1>0, <1>15, MarkVerifiedMoves DEF Givers
  <2>2. \A b \in With(e)' : b \in With(e)
    BY <1>0, <1>15, MarkVerifiedMoves DEF With, Exists
  <2> QED
    BY <1>0, <2>1, <2>2, ClaimedStays
<1>16. CASE UNCHANGED vars
  <2>1. With(e)' = With(e) /\ Giving(e)' = Giving(e) /\ req' = req
    BY <1>16 DEF vars, With, Giving, Exists
  <2> QED
    BY <1>0, <2>1 DEF Claimed
<1> QED
  BY <1>2, <1>3, <1>4, <1>5, <1>6, <1>7, <1>8, <1>9, <1>10, <1>11, <1>12, <1>13, <1>14, <1>15,
     <1>16 DEF Next, Inserts, SeedAssign, Attach, Abort

LEMMA EmailInit == Init => EmailInv
<1> SUFFICES ASSUME Init PROVE \A e \in Email : Claimed(e)
  BY BaseInit DEF EmailInv
<1>1. \A e \in Email : With(e) = {}
  BY IdleIsAHandler DEF Init, With, Exists
<1>2. \A r \in Request : req[r].pc = "idle"
  BY IdleIsAHandler DEF Init
<1> QED
  BY <1>1, <1>2 DEF Claimed, Giving

LEMMA EmailInvStep == EmailInv /\ [Next]_vars => EmailInv'
<1>1. EmailInv /\ [Next]_vars => Base'
  BY BaseStep DEF EmailInv
<1> QED
  BY <1>1, EmailStep DEF EmailInv

LEMMA EmailsApart == EmailInv => EmailUniqueUnlessRaced
<1> SUFFICES ASSUME EmailInv, NEW a \in Account, NEW b \in Account,
                    user[a].email = user[b].email, user[a].email \notin {None} \cup raced
             PROVE  a = b
  BY DEF EmailUniqueUnlessRaced
<1>1. user[a].email \in Email \ raced
  BY RowFields DEF EmailInv, Base, AccountsTypeOK
<1>2. a \in With(user[a].email) /\ b \in With(user[a].email)
  BY <1>1, IdleIsAHandler, NoneIsNothing DEF EmailInv, Base, Stored, With
<1> QED
  BY <1>1, <1>2 DEF EmailInv, Claimed

(* However registrations, boots of the seed and sign-ins interleave, an     *)
(* email belongs to one account unless two of them found it free before     *)
(* either wrote it.                                                         *)
THEOREM OneAccountPerEmail == Spec => []EmailUniqueUnlessRaced
  BY EmailInit, EmailInvStep, EmailsApart, PTL DEF Spec

-----------------------------------------------------------------------------
(* Sign-ins of a subject that do not overlap                                *)

Linking == {"match", "create", "verify", "attach"}

(* One handler signs subject s in, and what it links has no identity yet.   *)
Sole(s) ==
  /\ \A q, r \in SigningIn(s) : q = r
  /\ \A r \in SigningIn(s) : req[r].pc \in Linking => owner[s] = None

SubjectInv == Base /\ \A s \in Subject \ raced : Sole(s)

LEMMA SoleStays ==
  ASSUME NEW s \in Subject, Sole(s), NEW r \in Request,
         \A q \in Request \ {r} : req'[q] = req[q],
         owner'[s] = owner[s],
         \/ req'[r].subject # s
         \/ req'[r].subject = req[r].subject /\ (req'[r].pc \in Linking => req[r].pc \in Linking)
  PROVE  Sole(s)'
<1>1. \A q \in SigningIn(s)' : /\ q \in SigningIn(s)
                               /\ req'[q].pc \in Linking => req[q].pc \in Linking
  BY DEF SigningIn
<1> QED
  BY <1>1 DEF Sole

LEMMA SoleAnew ==
  ASSUME NEW s \in Subject, s \notin raced', NoteSubject(s), NEW r \in Request,
         \A q \in Request \ {r} : req'[q] = req[q],
         req'[r].pc \in Linking => owner'[s] = None
  PROVE  Sole(s)'
<1>1. SigningIn(s) = {}
  BY DEF NoteSubject
<1>2. \A q \in SigningIn(s)' : q = r
  BY <1>1 DEF SigningIn
<1> QED
  BY <1>2 DEF Sole

LEMMA SubjectStep ==
  ASSUME SubjectInv, [Next]_vars, NEW s \in Subject, s \notin raced'
  PROVE  Sole(s)'
<1>0. Base /\ AccountsTypeOK /\ Sole(s) /\ s # None /\ \A r \in Request : Known(r)
  BY Grows, NoneIsNothing DEF SubjectInv, Base
<1>1. ASSUME NEW r \in Request, NEW e \in Email, Register(r, e) PROVE Sole(s)'
  BY <1>0, <1>1, RegisterMoves, SoleStays DEF Register
<1>2. ASSUME NEW r \in Request, NEW a \in Account, Inserts(r, a) PROVE Sole(s)'
  <2>1. req'[r].pc \in Linking => req[r].pc \in Linking
    BY <1>2, <1>0, InsertMoves DEF Linking
  <2> QED
    BY <1>0, <1>2, <2>1, InsertMoves, SoleStays
<1>3. ASSUME NEW r \in Request, Seed(r) PROVE Sole(s)'
  BY <1>0, <1>3, SeedMoves, SoleStays DEF Seed
<1>4. ASSUME NEW r \in Request, SeedApp(r) PROVE Sole(s)'
  <2>1. owner' = owner /\ req'[r].pc \notin Linking
    BY <1>0, <1>4, SeedAppMoves DEF SeedApp, Linking
  <2> QED
    BY <1>0, <1>4, <2>1, SeedAppMoves, SoleStays
<1>5. ASSUME NEW r \in Request, SeedRole(r) PROVE Sole(s)'
  <2>1. Goto(r, [req[r] EXCEPT !.pc = "seek"]) /\ "seek" \in Steps /\ owner' = owner
    BY <1>5 DEF SeedRole, Steps
  <2>2. req'[r].pc = "seek" /\ req'[r].subject = req[r].subject
        /\ \A q \in Request \ {r} : req'[q] = req[q]
    BY <1>0, <2>1, StepMoves
  <2>3. req'[r].pc \notin Linking
    BY <2>2 DEF Linking
  <2> QED
    BY <1>0, <2>1, <2>2, <2>3, SoleStays
<1>6. ASSUME NEW r \in Request, SeekAdmin(r) PROVE Sole(s)'
  BY <1>0, <1>6, SeekAdminMoves, SoleStays DEF SeekAdmin
<1>7. ASSUME NEW r \in Request, SetPassword(r) PROVE Sole(s)'
  <2>1. owner' = owner
    BY <1>7 DEF SetPassword
  <2> QED
    BY <1>0, <1>7, <2>1, SetPasswordMoves, SoleStays
<1>8. ASSUME NEW r \in Request, Goto(r, Idle), owner' = owner PROVE Sole(s)'
  BY <1>0, <1>8, EndMoves, SoleStays
<1>9. ASSUME NEW r \in Request, NEW t \in Subject, NEW e \in Email \cup {None}, SignIn(r, t, e)
      PROVE Sole(s)'
  <2>1. owner' = owner /\ NoteSubject(t)
    BY <1>9 DEF SignIn
  <2>2. req'[r].subject \in {None, t} /\ req'[r].pc \notin Linking
        /\ \A q \in Request \ {r} : req'[q] = req[q]
    BY <1>0, <1>9, SignInMoves DEF Linking
  <2> QED
    BY <1>0, <2>1, <2>2, SoleStays, SoleAnew
<1>10. ASSUME NEW r \in Request, NEW t \in Subject, NEW e \in Email \cup {None},
              SignInNew(r, t, e)
       PROVE Sole(s)'
  <2>1. owner' = owner /\ NoteSubject(t) /\ owner[t] = None
    BY <1>10 DEF SignInNew
  <2>2. req'[r].subject = t /\ \A q \in Request \ {r} : req'[q] = req[q]
    BY <1>0, <1>10, SignInNewMoves
  <2> QED
    BY <1>0, <2>1, <2>2, SoleStays, SoleAnew
<1>11. ASSUME NEW r \in Request, CheckOwner(r) PROVE Sole(s)'
  <2>1. owner' = owner
    BY <1>11 DEF CheckOwner
  <2>2. req'[r].subject \in {None, req[r].subject} /\ req'[r].pc \notin Linking
        /\ \A q \in Request \ {r} : req'[q] = req[q]
    BY <1>0, <1>11, CheckOwnerMoves DEF Linking
  <2> QED
    BY <1>0, <2>1, <2>2, SoleStays
<1>12. ASSUME NEW r \in Request, MatchEmail(r) PROVE Sole(s)'
  <2>1. owner' = owner /\ req[r].pc \in Linking
    BY <1>12 DEF MatchEmail, Linking
  <2> QED
    BY <1>0, <1>12, <2>1, MatchEmailMoves, SoleStays
<1>13. ASSUME NEW r \in Request, MarkVerified(r) PROVE Sole(s)'
  <2>1. owner' = owner /\ req[r].pc \in Linking
    BY <1>13 DEF MarkVerified, Linking
  <2> QED
    BY <1>0, <1>13, <2>1, MarkVerifiedMoves, SoleStays
<1>14. ASSUME NEW r \in Request, Attach(r) PROVE Sole(s)'
  <2>1. CASE req[r].subject = s
    <3>1. SigningIn(s)' = {}
      BY <1>0, <1>14, <2>1, AttachMoves DEF Sole, SigningIn
    <3> QED
      BY <3>1 DEF Sole
  <2>2. CASE req[r].subject # s
    BY <1>0, <1>14, <2>2, AttachMoves, SoleStays
  <2> QED
    BY <2>1, <2>2
<1>15. CASE UNCHANGED vars
  <2>1. SigningIn(s)' = SigningIn(s) /\ req' = req /\ owner' = owner
    BY <1>15 DEF vars, SigningIn
  <2> QED
    BY <1>0, <2>1 DEF Sole
<1> QED
  BY <1>1, <1>2, <1>3, <1>4, <1>5, <1>6, <1>7, <1>8, <1>9, <1>10, <1>11, <1>12, <1>13, <1>14,
     <1>15 DEF Next, Inserts, SeedAssign, ApplyEmail, Abort

LEMMA SubjectInit == Init => SubjectInv
<1> SUFFICES ASSUME Init PROVE \A s \in Subject : Sole(s)
  BY BaseInit DEF SubjectInv
<1>1. \A r \in Request : req[r].subject = None
  BY IdleIsAHandler DEF Init
<1> QED
  BY <1>1, NoneIsNothing DEF Sole, SigningIn

LEMMA SubjectInvStep == SubjectInv /\ [Next]_vars => SubjectInv'
<1>1. SubjectInv /\ [Next]_vars => Base'
  BY BaseStep DEF SubjectInv
<1> QED
  BY <1>1, SubjectStep DEF SubjectInv

-----------------------------------------------------------------------------
(* A door for every account                                                 *)

DoorInv == SubjectInv /\ EveryAccountHasADoor

(* What opens an account stays, and a handler about to open one does unless *)
(* it dies.                                                                 *)
LEMMA OpensStays ==
  ASSUME Base, [Next]_vars, NEW a \in Account, Opens(a)
  PROVE  Opens(a)'
<1>1. \A s \in Subject : owner[s] = a => owner'[s] = a
  BY Grows, NoneIsNothing
<1>2. password \subseteq password'
  BY DEF Next, vars, admin, Register, RegisterInsert, Seed, SeedApp, SeedRole, SeekAdmin,
     SeedInsert, SetPassword, SeedAssign, SignIn, SignInNew, CheckOwner, ApplyEmail, MatchEmail,
     CreateUser, MarkVerified, Attach, Abort
<1> QED
  BY <1>1, <1>2 DEF Opens

LEMMA DoorStep ==
  ASSUME DoorInv, [Next]_vars, raced' \cap Subject = {},
         NEW a \in Account, a \notin abandoned', Exists(a)'
  PROVE  Reachable(a)'
<1>0. /\ Base /\ AccountsTypeOK /\ SubjectInv /\ raced \cap Subject = {}
      /\ \A r \in Request : Known(r)
  BY Grows DEF DoorInv, SubjectInv, Base
<1>1. ASSUME Exists(a), a \notin abandoned PROVE Opens(a) \/ \E r \in Request : Opening(r, a)
  BY <1>0, <1>1 DEF DoorInv, EveryAccountHasADoor, Reachable
<1> DEFINE Rest(r) == \A q \in Request \ {r} : req'[q] = req[q]
(* Handler r was not opening the account, or has just, or still is.         *)
<1>2. ASSUME NEW r \in Request, Rest(r), Exists(a), a \notin abandoned,
             Opening(r, a) => Opens(a)' \/ Opening(r, a)'
      PROVE  Reachable(a)'
  <2>1. CASE Opens(a)
    BY <1>0, <2>1, OpensStays DEF Reachable
  <2>2. CASE \E q \in Request : Opening(q, a)
    BY <1>2, <2>2 DEF Opening, Reachable
  <2> QED
    BY <1>1, <1>2, <2>1, <2>2
<1>3. user' = user => Exists(a)
  BY DEF Exists
<1>4. ASSUME NEW r \in Request, Rest(r), user' = user, abandoned' = abandoned,
             req[r].pc \notin {"password", "provision", "attach"}
      PROVE  Reachable(a)'
  BY <1>2, <1>3, <1>4 DEF Opening
<1> HIDE DEF Rest
<1>5. ASSUME NEW r \in Request, NEW e \in Email, Register(r, e) PROVE Reachable(a)'
  BY <1>0, <1>4, <1>5, RegisterMoves DEF Register, Rest
<1>6. ASSUME NEW r \in Request, NEW b \in Account, Inserts(r, b) PROVE Reachable(a)'
  <2>1. CASE a = b
    BY <1>6, <1>0, <2>1, InsertMoves DEF Reachable, Opening
  <2>2. CASE a # b
    <3>1. Exists(a) /\ abandoned' = abandoned /\ Rest(r)
      BY <1>0, <1>6, <2>2, InsertMoves DEF Exists, Rest
    <3>2. ~Opening(r, a)
      BY <1>0, <1>6, InsertMoves DEF Opening
    <3> QED
      BY <1>2, <3>1, <3>2
  <2> QED
    BY <2>1, <2>2
<1>7. ASSUME NEW r \in Request, Seed(r) PROVE Reachable(a)'
  BY <1>0, <1>4, <1>7, SeedMoves DEF Seed, Rest
<1>8. ASSUME NEW r \in Request, SeedApp(r) PROVE Reachable(a)'
  BY <1>0, <1>4, <1>8, SeedAppMoves DEF SeedApp, Rest
<1>9. ASSUME NEW r \in Request, SeedRole(r) PROVE Reachable(a)'
  <2>1. Goto(r, [req[r] EXCEPT !.pc = "seek"]) /\ "seek" \in Steps
    BY <1>9 DEF SeedRole, Steps
  <2>2. Rest(r)
    BY <1>0, <2>1, StepMoves DEF Rest
  <2> QED
    BY <1>4, <1>9, <2>2 DEF SeedRole
<1>10. ASSUME NEW r \in Request, SeekAdmin(r) PROVE Reachable(a)'
  BY <1>0, <1>4, <1>10, SeekAdminMoves DEF SeekAdmin, Rest
<1>11. ASSUME NEW r \in Request, SetPassword(r) PROVE Reachable(a)'
  <2>1. Rest(r) /\ user' = user /\ abandoned' = abandoned
        /\ req[r].pc \in {"password", "provision"}
    BY <1>0, <1>11, SetPasswordMoves DEF SetPassword, Rest
  <2>2. Opening(r, a) => Opens(a)'
    BY <1>11 DEF SetPassword, Opening, Opens
  <2> QED
    BY <1>2, <1>3, <2>1, <2>2
<1>12. ASSUME NEW r \in Request, SeedAssign(r) PROVE Reachable(a)'
  <2>1. Goto(r, Idle)
    BY <1>12 DEF SeedAssign
  <2>2. Rest(r)
    BY <1>0, <2>1, EndMoves DEF Rest
  <2> QED
    BY <1>4, <1>12, <2>2 DEF SeedAssign
<1>13. ASSUME NEW r \in Request, NEW s \in Subject, NEW e \in Email \cup {None}, SignIn(r, s, e)
       PROVE Reachable(a)'
  BY <1>0, <1>4, <1>13, SignInMoves DEF SignIn, Rest
<1>14. ASSUME NEW r \in Request, NEW s \in Subject, NEW e \in Email \cup {None},
              SignInNew(r, s, e)
       PROVE Reachable(a)'
  BY <1>0, <1>4, <1>14, SignInNewMoves DEF SignInNew, Rest
<1>15. ASSUME NEW r \in Request, CheckOwner(r) PROVE Reachable(a)'
  BY <1>0, <1>4, <1>15, CheckOwnerMoves DEF CheckOwner, Rest
<1>16. ASSUME NEW r \in Request, ApplyEmail(r) PROVE Reachable(a)'
  <2>1. /\ Rest(r) /\ abandoned' = abandoned /\ Exists(a)
        /\ ~Opening(r, a)
    BY <1>0, <1>16, ApplyEmailMoves DEF ApplyEmail, Rest, Exists, Opening
  <2> QED
    BY <1>2, <2>1
<1>17. ASSUME NEW r \in Request, MatchEmail(r) PROVE Reachable(a)'
  BY <1>0, <1>4, <1>17, MatchEmailMoves DEF MatchEmail, Rest
<1>18. ASSUME NEW r \in Request, MarkVerified(r) PROVE Reachable(a)'
  <2>1. /\ Rest(r) /\ abandoned' = abandoned /\ Exists(a)
        /\ ~Opening(r, a)
    BY <1>0, <1>18, MarkVerifiedMoves DEF MarkVerified, Rest, Exists, Opening
  <2> QED
    BY <1>2, <2>1
<1>19. ASSUME NEW r \in Request, Attach(r) PROVE Reachable(a)'
  <2>1. Rest(r) /\ user' = user /\ abandoned' = abandoned /\ req[r].pc = "attach"
        /\ req[r].subject \in Subject
    BY <1>0, <1>19, AttachMoves DEF Attach, Rest
  <2>2. owner[req[r].subject] = None
    BY <1>0, <2>1 DEF SubjectInv, Sole, SigningIn, Linking
  <2>3. Opening(r, a) => Opens(a)'
    BY <1>0, <1>19, <2>1, <2>2, AttachMoves DEF Opening, Opens
  <2> QED
    BY <1>2, <1>3, <2>1, <2>3
<1>20. ASSUME NEW r \in Request, Abort(r) PROVE Reachable(a)'
  <2>1. Goto(r, Idle) /\ user' = user
        /\ abandoned' = abandoned \cup {b \in Account : Opening(r, b) /\ ~Opens(b)}
    BY <1>20 DEF Abort
  <2>2. Rest(r)
    BY <1>0, <2>1, EndMoves DEF Rest
  <2>3. Opening(r, a) => Opens(a)
    BY <2>1
  <2> QED
    BY <1>0, <1>2, <1>3, <2>1, <2>2, <2>3, OpensStays
<1>21. CASE UNCHANGED vars
  BY <1>1, <1>3, <1>21 DEF vars, Reachable, Opens, Opening
<1> QED
  BY <1>5, <1>6, <1>7, <1>8, <1>9, <1>10, <1>11, <1>12, <1>13, <1>14, <1>15, <1>16, <1>17,
     <1>18, <1>19, <1>20, <1>21 DEF Next, Inserts

(* Every account has a password or an identity, or a handler about to give  *)
(* it one, unless two sign-ins of a new subject overlapped or the handler   *)
(* that made the account died.                                              *)
THEOREM NoAccountIsLockedUp == Spec => []EveryAccountHasADoor
<1>1. Init => DoorInv
  <2>1. Init => \A a \in Account : ~Exists(a)
    BY IdleIsAHandler DEF Init, Exists
  <2> QED
    BY <2>1, SubjectInit DEF DoorInv, EveryAccountHasADoor
<1>2. DoorInv /\ [Next]_vars => DoorInv'
  <2>1. DoorInv /\ [Next]_vars => EveryAccountHasADoor'
    BY DoorStep DEF EveryAccountHasADoor
  <2> QED
    BY <2>1, SubjectInvStep DEF DoorInv
<1>3. DoorInv => EveryAccountHasADoor
  BY DEF DoorInv
<1> QED
  BY <1>1, <1>2, <1>3, PTL DEF Spec

-----------------------------------------------------------------------------
(* Verified emails stay                                                     *)

(* What a sign-in saw of the email is what the account has.                 *)
SawRight(r) ==
  req[r].pc \in {"owned", "apply"} /\ req[r].held \in Steady =>
    user[req[r].held].email = req[r].saw.email

(* Subject s has account a, or is about to.                                 *)
Claims(s, a) ==
  \/ owner[s] = a
  \/ \E r \in Request : /\ req[r].pc \in {"verify", "attach"}
                        /\ req[r].subject = s /\ req[r].held = a

(* An account without an email is reached by one subject only: no sign-in   *)
(* of another can have matched it.                                          *)
Private(a) ==
  Exists(a) /\ user[a].email = None =>
    \A s, t \in Subject : Claims(s, a) /\ Claims(t, a) => s = t

SteadyInv ==
  /\ SubjectInv
  /\ \A r \in Request : SawRight(r)
  /\ \A a \in Account : Private(a)

LEMMA SteadyShrinks ==
  ASSUME Base, [Next]_vars
  PROVE  \A a \in Steady' : a \in Steady
<1> SUFFICES ASSUME NEW a \in Account, NEW s \in raced \cap Subject, a = owner[s]
             PROVE  a \notin Steady'
  BY DEF Steady
<1>1. owner'[s] = a /\ s \in raced' \cap Subject
  BY Grows, NoneIsNothing
<1> QED
  BY <1>1 DEF Steady

(* Two handlers of accounts that are steady sign in different subjects.     *)
LEMMA SteadyApart ==
  ASSUME SubjectInv, NEW q \in Request, NEW r \in Request, q # r,
         req[q].pc \in {"owned", "apply"}, req[r].pc \in {"owned", "apply"},
         req[q].held = req[r].held, req[q].held \in Steady
  PROVE  req[q].subject # req[r].subject
<1> SUFFICES ASSUME req[q].subject = req[r].subject PROVE FALSE
  OBVIOUS
<1>1. /\ req[q].subject \in Subject /\ owner[req[q].subject] = req[q].held
  BY DEF SubjectInv, Base, Known, Acting
<1>2. req[q].subject \in raced
  BY <1>1 DEF SubjectInv, Sole, SigningIn
<1> QED
  BY <1>1, <1>2 DEF Steady

(* The step that writes an email: a steady account that has one keeps it.   *)
LEMMA ApplyKeeps ==
  ASSUME SteadyInv, NEW r \in Request, ApplyEmail(r), req[r].held \in Steady,
         user[req[r].held].email # None
  PROVE  user'[req[r].held].email = user[req[r].held].email
<1>1. /\ SawRight(r) /\ Known(r) /\ Base /\ req[r].pc = "apply"
  BY DEF SteadyInv, SubjectInv, Base, ApplyEmail
<1>2. user[req[r].held].email = req[r].email
  BY <1>1 DEF SawRight, Known
<1> QED
  BY <1>1, <1>2, ApplyEmailMoves

LEMMA EmailsStay ==
  ASSUME SteadyInv, [Next]_vars, NEW a \in Steady, user[a].email # None
  PROVE  /\ user'[a].email = user[a].email
         /\ user[a].verified => user'[a].verified
<1>0. Base /\ AccountsTypeOK /\ a \in Account
  BY DEF SteadyInv, SubjectInv, Base, Steady
<1>1. CASE \E r \in Request, b \in Account : Inserts(r, b)
  BY <1>0, <1>1, InsertMoves, IdleIsAHandler
<1>2. CASE \E r \in Request : ApplyEmail(r)
  BY <1>0, <1>2, ApplyEmailMoves, ApplyKeeps
<1>3. CASE \E r \in Request : MarkVerified(r)
  BY <1>0, <1>3, MarkVerifiedMoves
<1>4. CASE user' = user
  BY <1>4
<1> QED
  BY <1>1, <1>2, <1>3, <1>4 DEF Next, Inserts, vars, Register, Seed, SeedApp, SeedRole, SeekAdmin,
     SetPassword, SeedAssign, SignIn, SignInNew, CheckOwner, MatchEmail, Attach, Abort

(* A handler that does not move, while another one does.                    *)
LEMMA SawRightStays ==
  ASSUME SteadyInv, [Next]_vars, NEW q \in Request, req'[q] = req[q],
         \/ user' = user
         \/ \E r \in Request \ {q} :
              \/ \E a \in Account : Inserts(r, a)
              \/ ApplyEmail(r) \/ MarkVerified(r)
  PROVE  SawRight(q)'
<1>0. Base /\ SawRight(q) /\ Known(q)
  BY DEF SteadyInv, SubjectInv, Base
<1> SUFFICES ASSUME req[q].pc \in {"owned", "apply"}, req[q].held \in Steady'
             PROVE  user'[req[q].held].email = req[q].saw.email
  BY DEF SawRight
<1> DEFINE a == req[q].held
<1>1. a \in Steady /\ a \in Account /\ Exists(a) /\ user[a].email = req[q].saw.email
  BY <1>0, SteadyShrinks DEF SawRight, Known, Holding
<1>2. CASE user[a].email # None
  BY <1>1, <1>2, EmailsStay
<1>3. CASE user' = user
  BY <1>1, <1>3
<1>4. CASE user[a].email = None /\ user' # user
  <2>1. PICK r \in Request \ {q} :
          (\E b \in Account : Inserts(r, b)) \/ ApplyEmail(r) \/ MarkVerified(r)
    BY <1>4
  <2>2. CASE \E b \in Account : Inserts(r, b)
    BY <1>0, <1>1, <2>2, InsertMoves
  <2>3. CASE MarkVerified(r)
    BY <1>0, <1>1, <2>3, MarkVerifiedMoves
  <2>4. CASE ApplyEmail(r)
    <3>1. req[r].pc = "apply" /\ Known(r)
      BY <2>4 DEF ApplyEmail, SteadyInv, SubjectInv, Base
    <3>2. CASE req[r].held = a
      <4>1. req[q].subject # req[r].subject
        BY <1>1, <2>1, <3>1, <3>2, SteadyApart DEF SteadyInv
      <4>2. /\ req[q].subject \in Subject /\ req[r].subject \in Subject
            /\ owner[req[q].subject] = a /\ owner[req[r].subject] = a
        BY <1>0, <3>1, <3>2 DEF Known, Acting
      <4>3. Private(a)
        BY <1>1 DEF SteadyInv
      <4> QED
        BY <1>1, <1>4, <4>1, <4>2, <4>3 DEF Private, Claims
    <3>3. CASE req[r].held # a
      BY <1>0, <1>1, <2>4, <3>3, ApplyEmailMoves
    <3> QED
      BY <3>2, <3>3
  <2> QED
    BY <2>1, <2>2, <2>3, <2>4
<1> QED
  BY <1>2, <1>3, <1>4

LEMMA SawRightStep ==
  ASSUME SteadyInv, [Next]_vars, NEW q \in Request
  PROVE  SawRight(q)'
<1>0. Base /\ AccountsTypeOK /\ SawRight(q) /\ \A r \in Request : Known(r)
  BY DEF SteadyInv, SubjectInv, Base
<1> DEFINE Rest(r) == \A p \in Request \ {r} : req'[p] = req[p]
           Elsewhere(r) == Rest(r) /\ req'[r].pc \notin {"owned", "apply"}
(* A step that leaves the tables of users, of a handler that signs in with  *)
(* no identity known, or not at all.                                        *)
<1>1. ASSUME NEW r \in Request, Elsewhere(r),
             user' = user \/ (\E a \in Account : Inserts(r, a)) \/ ApplyEmail(r) \/ MarkVerified(r)
      PROVE  SawRight(q)'
  <2>1. CASE q = r
    BY <1>1, <2>1 DEF SawRight
  <2>2. CASE q # r
    BY <1>1, <2>2, SawRightStays
  <2> QED
    BY <2>1, <2>2
<1>2. ASSUME NEW r \in Request, NEW e \in Email, Register(r, e) PROVE SawRight(q)'
  BY <1>0, <1>1, <1>2, RegisterMoves DEF Register
<1>3. ASSUME NEW r \in Request, NEW a \in Account, Inserts(r, a) PROVE SawRight(q)'
  <2>1. Elsewhere(r)
    BY <1>0, <1>3, InsertMoves
  <2> QED
    BY <1>1, <1>3, <2>1
<1>4. ASSUME NEW r \in Request, Seed(r) PROVE SawRight(q)'
  BY <1>0, <1>1, <1>4, SeedMoves DEF Seed
<1>5. ASSUME NEW r \in Request, SeedApp(r) PROVE SawRight(q)'
  <2>1. Elsewhere(r) /\ user' = user
    BY <1>0, <1>5, SeedAppMoves DEF SeedApp
  <2> QED
    BY <1>1, <2>1
<1>6. ASSUME NEW r \in Request, SeedRole(r) PROVE SawRight(q)'
  <2>1. Goto(r, [req[r] EXCEPT !.pc = "seek"]) /\ "seek" \in Steps /\ user' = user
    BY <1>6 DEF SeedRole, Steps
  <2>2. Elsewhere(r)
    BY <1>0, <2>1, StepMoves
  <2> QED
    BY <1>1, <2>1, <2>2
<1>7. ASSUME NEW r \in Request, SeekAdmin(r) PROVE SawRight(q)'
  <2>1. Elsewhere(r) /\ user' = user
    BY <1>0, <1>7, SeekAdminMoves DEF SeekAdmin
  <2> QED
    BY <1>1, <2>1
<1>8. ASSUME NEW r \in Request, SetPassword(r) PROVE SawRight(q)'
  <2>1. user' = user
    BY <1>8 DEF SetPassword
  <2>2. Elsewhere(r)
    BY <1>0, <1>8, SetPasswordMoves
  <2> QED
    BY <1>1, <2>1, <2>2
<1>9. ASSUME NEW r \in Request, Goto(r, Idle), user' = user \/ ApplyEmail(r)
      PROVE SawRight(q)'
  <2>1. Elsewhere(r)
    BY <1>0, <1>9, EndMoves
  <2> QED
    BY <1>1, <1>9, <2>1
<1>10. ASSUME NEW r \in Request, NEW s \in Subject, NEW e \in Email \cup {None}, SignIn(r, s, e)
       PROVE SawRight(q)'
  <2>1. user' = user
    BY <1>10 DEF SignIn
  <2>2. CASE q = r
    BY <1>0, <1>10, <2>1, <2>2, SignInMoves DEF SawRight
  <2>3. CASE q # r
    BY <1>0, <1>10, <2>1, <2>3, SignInMoves, SawRightStays
  <2> QED
    BY <2>2, <2>3
<1>11. ASSUME NEW r \in Request, NEW s \in Subject, NEW e \in Email \cup {None},
              SignInNew(r, s, e)
       PROVE SawRight(q)'
  <2>1. Elsewhere(r) /\ user' = user
    BY <1>0, <1>11, SignInNewMoves DEF SignInNew
  <2> QED
    BY <1>1, <2>1
<1>12. ASSUME NEW r \in Request, CheckOwner(r) PROVE SawRight(q)'
  <2>1. user' = user /\ req[r].pc = "owned"
    BY <1>12 DEF CheckOwner
  <2>2. CASE q = r
    <3>1. \/ req'[r].pc = "idle"
          \/ req'[r].held = req[r].held /\ req'[r].saw = req[r].saw
      BY <1>0, <1>12, CheckOwnerMoves
    <3> QED
      BY <1>0, <2>1, <2>2, <3>1, SteadyShrinks DEF SawRight
  <2>3. CASE q # r
    BY <1>0, <1>12, <2>1, <2>3, CheckOwnerMoves, SawRightStays
  <2> QED
    BY <2>2, <2>3
<1>13. ASSUME NEW r \in Request, MatchEmail(r) PROVE SawRight(q)'
  <2>1. Elsewhere(r) /\ user' = user
    BY <1>0, <1>13, MatchEmailMoves DEF MatchEmail
  <2> QED
    BY <1>1, <2>1
<1>14. ASSUME NEW r \in Request, MarkVerified(r) PROVE SawRight(q)'
  <2>1. Elsewhere(r)
    BY <1>0, <1>14, MarkVerifiedMoves
  <2> QED
    BY <1>1, <1>14, <2>1
<1>15. CASE UNCHANGED vars
  BY <1>15, SawRightStays DEF vars
<1> HIDE DEF Elsewhere
<1> QED
  BY <1>2, <1>3, <1>4, <1>5, <1>6, <1>7, <1>8, <1>9, <1>10, <1>11, <1>12, <1>13, <1>14, <1>15
     DEF Next, Inserts, SeedAssign, ApplyEmail, Attach, Abort

(* Nobody claims an account before it exists.                               *)
LEMMA ClaimsExist ==
  ASSUME Base, NEW a \in Account, NEW s \in Subject, Claims(s, a)
  PROVE  Exists(a)
  BY NoneIsNothing DEF Base, Stored, Known, Holding, Claims

LEMMA PrivateStays ==
  ASSUME SteadyInv, [Next]_vars, NEW a \in Account, Exists(a),
         user'[a].email = None => \A s \in Subject : Claims(s, a)' => Claims(s, a)
  PROVE  Private(a)'
<1>1. user'[a].email = None => user[a].email = None
  BY Grows DEF SteadyInv, SubjectInv
<1> QED
  BY <1>1 DEF SteadyInv, Private

LEMMA PrivateStep ==
  ASSUME SteadyInv, [Next]_vars, NEW a \in Account
  PROVE  Private(a)'
<1>0. Base /\ AccountsTypeOK /\ \A r \in Request : Known(r)
  BY DEF SteadyInv, SubjectInv, Base
<1> SUFFICES ASSUME Exists(a)' PROVE Private(a)'
  BY DEF Private
<1> DEFINE Rest(r) == \A p \in Request \ {r} : req'[p] = req[p]
           NewClaim(r) == req'[r].pc \in {"verify", "attach"}
(* A step that makes no claim: the owners are as they were.                 *)
<1>1. ASSUME NEW r \in Request, Rest(r), ~NewClaim(r) \/ req'[r].held # a, owner' = owner,
             Exists(a)
      PROVE  Private(a)'
  BY <1>1, PrivateStays DEF Claims
<1>2. user' = user => Exists(a)
  BY DEF Exists
<1>3. ASSUME NEW r \in Request, NEW e \in Email, Register(r, e) PROVE Private(a)'
  BY <1>0, <1>1, <1>2, <1>3, RegisterMoves DEF Register
<1>4. ASSUME NEW r \in Request, NEW b \in Account, Inserts(r, b) PROVE Private(a)'
  <2>1. Rest(r) /\ owner' = owner /\ req'[r].held = b
    BY <1>0, <1>4, InsertMoves
  <2>2. CASE a = b
    <3>1. ~Exists(a)
      BY <1>0, <1>4, <2>2, InsertMoves
    <3>2. \A s \in Subject : ~Claims(s, a)
      BY <1>0, <3>1, ClaimsExist
    <3>3. \A s \in Subject : Claims(s, a)' => s = req'[r].subject
      BY <2>1, <3>2 DEF Claims
    <3> QED
      BY <3>3 DEF Private
  <2>3. CASE a # b
    <3>1. Exists(a)
      BY <1>0, <1>4, <2>3, InsertMoves DEF Exists
    <3> QED
      BY <1>1, <2>1, <2>3, <3>1
  <2> QED
    BY <2>2, <2>3
<1>5. ASSUME NEW r \in Request, Seed(r) PROVE Private(a)'
  BY <1>0, <1>1, <1>2, <1>5, SeedMoves DEF Seed
<1>6. ASSUME NEW r \in Request, SeedApp(r) PROVE Private(a)'
  <2>1. ~NewClaim(r) /\ Rest(r) /\ user' = user /\ owner' = owner
    BY <1>0, <1>6, SeedAppMoves DEF SeedApp
  <2> QED
    BY <1>1, <1>2, <2>1
<1>7. ASSUME NEW r \in Request, SeedRole(r) PROVE Private(a)'
  <2>1. Goto(r, [req[r] EXCEPT !.pc = "seek"]) /\ "seek" \in Steps /\ user' = user
        /\ owner' = owner
    BY <1>7 DEF SeedRole, Steps
  <2>2. ~NewClaim(r) /\ Rest(r)
    BY <1>0, <2>1, StepMoves
  <2> QED
    BY <1>1, <1>2, <2>1, <2>2
<1>8. ASSUME NEW r \in Request, SeekAdmin(r) PROVE Private(a)'
  <2>1. ~NewClaim(r) /\ Rest(r) /\ user' = user /\ owner' = owner
    BY <1>0, <1>8, SeekAdminMoves DEF SeekAdmin
  <2> QED
    BY <1>1, <1>2, <2>1
<1>9. ASSUME NEW r \in Request, SetPassword(r) PROVE Private(a)'
  <2>1. user' = user /\ owner' = owner
    BY <1>9 DEF SetPassword
  <2>2. ~NewClaim(r) /\ Rest(r)
    BY <1>0, <1>9, SetPasswordMoves
  <2> QED
    BY <1>1, <1>2, <2>1, <2>2
<1>10. ASSUME NEW r \in Request, Goto(r, Idle), user' = user, owner' = owner PROVE Private(a)'
  <2>1. ~NewClaim(r) /\ Rest(r)
    BY <1>0, <1>10, EndMoves
  <2> QED
    BY <1>1, <1>2, <1>10, <2>1
<1>11. ASSUME NEW r \in Request, NEW s \in Subject, NEW e \in Email \cup {None}, SignIn(r, s, e)
       PROVE Private(a)'
  <2>1. ~NewClaim(r) /\ Rest(r) /\ user' = user /\ owner' = owner
    BY <1>0, <1>11, SignInMoves DEF SignIn
  <2> QED
    BY <1>1, <1>2, <2>1
<1>12. ASSUME NEW r \in Request, NEW s \in Subject, NEW e \in Email \cup {None},
              SignInNew(r, s, e)
       PROVE Private(a)'
  <2>1. ~NewClaim(r) /\ Rest(r) /\ user' = user /\ owner' = owner
    BY <1>0, <1>12, SignInNewMoves DEF SignInNew
  <2> QED
    BY <1>1, <1>2, <2>1
<1>13. ASSUME NEW r \in Request, CheckOwner(r) PROVE Private(a)'
  <2>1. ~NewClaim(r) /\ Rest(r) /\ user' = user /\ owner' = owner
    BY <1>0, <1>13, CheckOwnerMoves DEF CheckOwner
  <2> QED
    BY <1>1, <1>2, <2>1
<1>14. ASSUME NEW r \in Request, ApplyEmail(r) PROVE Private(a)'
  <2>1. ~NewClaim(r) /\ Rest(r) /\ owner' = owner /\ Exists(a)
    BY <1>0, <1>14, ApplyEmailMoves DEF ApplyEmail, Exists
  <2> QED
    BY <1>1, <2>1
<1>15. ASSUME NEW r \in Request, MatchEmail(r) PROVE Private(a)'
  <2>1. user' = user /\ owner' = owner /\ req[r].email # None
    BY <1>0, <1>15, NoneIsNothing DEF MatchEmail, Known, Named
  <2>2. Rest(r)
    BY <1>0, <1>15, MatchEmailMoves
  <2>3. CASE NewClaim(r) /\ req'[r].held = a
    <3>1. user[a].email # None
      BY <1>0, <1>15, <2>1, <2>3, MatchEmailMoves
    <3> QED
      BY <2>1, <3>1 DEF Private
  <2>4. CASE ~NewClaim(r) \/ req'[r].held # a
    BY <1>1, <1>2, <2>1, <2>2, <2>4
  <2> QED
    BY <2>3, <2>4
<1>16. ASSUME NEW r \in Request, MarkVerified(r) PROVE Private(a)'
  <2>1. Rest(r) /\ owner' = owner /\ Exists(a) /\ req[r].pc = "verify"
        /\ req'[r].held = req[r].held /\ req'[r].subject = req[r].subject
    BY <1>0, <1>16, MarkVerifiedMoves DEF MarkVerified, Exists
  <2>2. \A s \in Subject : Claims(s, a)' => Claims(s, a)
    BY <2>1 DEF Claims
  <2> QED
    BY <2>1, <2>2, PrivateStays
<1>17. ASSUME NEW r \in Request, Attach(r) PROVE Private(a)'
  <2>1. Rest(r) /\ user' = user /\ req[r].pc = "attach" /\ ~NewClaim(r)
    BY <1>0, <1>17, AttachMoves DEF Attach
  <2>2. \A s \in Subject : owner'[s] \in {owner[s]} \cup
          (IF s = req[r].subject THEN {req[r].held} ELSE {})
    BY <1>0, <1>17, AttachMoves
  <2>3. \A s \in Subject : Claims(s, a)' => Claims(s, a)
    BY <2>1, <2>2 DEF Claims
  <2> QED
    BY <1>2, <2>1, <2>3, PrivateStays
<1>18. CASE UNCHANGED vars
  BY <1>2, <1>18, PrivateStays DEF vars, Claims
<1> QED
  BY <1>3, <1>4, <1>5, <1>6, <1>7, <1>8, <1>9, <1>10, <1>11, <1>12, <1>13, <1>14, <1>15, <1>16,
     <1>17, <1>18 DEF Next, Inserts, SeedAssign, Abort

LEMMA SteadyInit == Init => SteadyInv
<1> SUFFICES ASSUME Init
             PROVE  (\A r \in Request : SawRight(r)) /\ (\A a \in Account : Private(a))
  BY SubjectInit DEF SteadyInv
<1>1. \A r \in Request : req[r].pc = "idle"
  BY IdleIsAHandler DEF Init
<1>2. \A a \in Account : ~Exists(a)
  BY IdleIsAHandler DEF Init, Exists
<1> QED
  BY <1>1, <1>2 DEF SawRight, Private

LEMMA SteadyStep == SteadyInv /\ [Next]_vars => SteadyInv'
<1>1. SteadyInv /\ [Next]_vars => SubjectInv'
  BY SubjectInvStep DEF SteadyInv
<1> QED
  BY <1>1, SawRightStep, PrivateStep DEF SteadyInv

(* No sign-in with a provider moves the verified email of an account, or    *)
(* unverifies it, unless two sign-ins of one subject overlapped.            *)
THEOREM VerifiedForGood == Spec => VerifiedEmailsStay
<1>1. SteadyInv /\ [Next]_vars =>
        [\A a \in Steady : user[a].verified /\ user[a].email # None =>
           user'[a].email = user[a].email /\ user'[a].verified]_vars
  BY EmailsStay
<1> QED
  BY <1>1, SteadyInit, SteadyStep, PTL DEF Spec, VerifiedEmailsStay

-----------------------------------------------------------------------------
(* The console                                                              *)

Seeding == {"seek", "seed", "provision", "assign"}

(* A seed past the role found it there, and holds the administrator.        *)
Seeds(r) ==
  /\ req[r].pc \in Seeding => console = "role"
  /\ req[r].pc = "role" => console # "none"
  /\ req[r].pc \in {"provision", "assign"} /\ req[r].held \in Steady =>
       user[req[r].held].email = Admin

ConsoleInv ==
  /\ SteadyInv /\ EmailInv
  /\ \A r \in Request : Seeds(r)
  /\ superadmin # {} => console = "role"
  /\ \A a \in superadmin \cap Steady : user[a].email = Admin

LEMMA ConsoleGrows ==
  ASSUME [Next]_vars
  PROVE  /\ console = "role" => console' = "role"
         /\ console # "none" => console' # "none"
  BY DEF Next, vars, admin, Register, RegisterInsert, Seed, SeedApp, SeedRole, SeekAdmin,
     SeedInsert, SetPassword, SeedAssign, SignIn, SignInNew, CheckOwner, ApplyEmail, MatchEmail,
     CreateUser, MarkVerified, Attach, Abort

(* The administrator's email stays where it is.                             *)
LEMMA AdminStays ==
  ASSUME ConsoleInv, [Next]_vars, NEW a \in Steady', user[a].email = Admin
  PROVE  user'[a].email = Admin
<1>1. Base /\ SteadyInv /\ Admin # None
  BY AdminIsAnEmail, NoneIsNothing DEF ConsoleInv, SteadyInv, SubjectInv
<1> QED
  BY <1>1, SteadyShrinks, EmailsStay

LEMMA SeedsStays ==
  ASSUME ConsoleInv, [Next]_vars, NEW r \in Request, req'[r] = req[r]
  PROVE  Seeds(r)'
<1>1. Seeds(r) /\ Base
  BY DEF ConsoleInv, SteadyInv, SubjectInv
<1>2. req[r].held \in Steady' => req[r].held \in Steady
  BY <1>1, SteadyShrinks
<1> QED
  BY <1>1, <1>2, ConsoleGrows, AdminStays DEF Seeds

LEMMA SeedsStep ==
  ASSUME ConsoleInv, [Next]_vars, NEW q \in Request
  PROVE  Seeds(q)'
<1>0. Base /\ AccountsTypeOK /\ \A r \in Request : Seeds(r) /\ Known(r)
  BY DEF ConsoleInv, SteadyInv, SubjectInv, Base
<1> DEFINE Moves(r) == Seeds(r)' /\ \A p \in Request \ {r} : req'[p] = req[p]
           Apart(r) == req'[r].pc \notin Seeding \cup {"role"}
                       /\ \A p \in Request \ {r} : req'[p] = req[p]
<1>1. ASSUME NEW r \in Request, Apart(r) PROVE Moves(r)
  BY <1>1 DEF Seeds, Seeding
<1>2. ASSUME NEW r \in Request, NEW e \in Email, Register(r, e) PROVE Apart(r)
  BY <1>0, <1>2, RegisterMoves DEF Seeding
<1>3. ASSUME NEW r \in Request, NEW a \in Account, Inserts(r, a) PROVE Moves(r)
  <2>1. /\ req'[r].held = a /\ user'[a].email = req[r].email
        /\ \/ req[r].pc = "seed" /\ req'[r].pc = "provision"
           \/ req'[r].pc \in {"password", "attach"}
        /\ \A p \in Request \ {r} : req'[p] = req[p]
    BY <1>0, <1>3, InsertMoves
  <2>2. req[r].pc = "seed" => console' = "role" /\ user'[a].email = Admin
    BY <1>0, <2>1, ConsoleGrows DEF Seeds, Seeding, Known
  <2> QED
    BY <2>1, <2>2 DEF Seeds, Seeding
<1>4. ASSUME NEW r \in Request, Seed(r) PROVE Moves(r)
  <2>1. console' = console
    BY <1>4 DEF Seed, admin
  <2> QED
    BY <1>0, <1>4, <2>1, SeedMoves DEF Seeds, Seeding
<1>5. ASSUME NEW r \in Request, SeedApp(r) PROVE Moves(r)
  BY <1>0, <1>5, SeedAppMoves DEF Seeds, Seeding
<1>6. ASSUME NEW r \in Request, SeedRole(r) PROVE Moves(r)
  <2>1. Goto(r, [req[r] EXCEPT !.pc = "seek"]) /\ "seek" \in Steps /\ console' = "role"
    BY <1>6 DEF SeedRole, Steps
  <2> QED
    BY <1>0, <2>1, StepMoves DEF Seeds, Seeding
<1>7. ASSUME NEW r \in Request, SeekAdmin(r) PROVE Moves(r)
  <2>1. req[r].pc = "seek" /\ user' = user /\ console' = console
    BY <1>7 DEF SeekAdmin, admin
  <2>2. console' = "role"
    BY <1>0, <2>1 DEF Seeds, Seeding
  <2>3. req'[r].pc = "seed" \/ user'[req'[r].held].email = Admin
    BY <1>0, <1>7, <2>1, SeekAdminMoves DEF With
  <2>4. req'[r].pc \in {"seed", "assign"} /\ \A p \in Request \ {r} : req'[p] = req[p]
    BY <1>0, <1>7, SeekAdminMoves
  <2> QED
    BY <2>2, <2>3, <2>4 DEF Seeds, Seeding
<1>8. ASSUME NEW r \in Request, SetPassword(r) PROVE Moves(r)
  <2>1. user' = user /\ Seeds(r) /\ Known(r)
    BY <1>0, <1>8 DEF SetPassword
  <2>2. /\ \/ req'[r].pc = "idle"
           \/ req[r].pc = "provision" /\ req'[r].pc = "assign" /\ req'[r].held = req[r].held
        /\ \A p \in Request \ {r} : req'[p] = req[p]
    BY <1>0, <1>8, <2>1, SetPasswordMoves
  <2>3. req[r].pc = "provision" => console' = "role"
    BY <2>1, ConsoleGrows DEF Seeds, Seeding
  <2> QED
    BY <1>0, <2>1, <2>2, <2>3, SteadyShrinks DEF Seeds, Seeding
<1>9. ASSUME NEW r \in Request, Goto(r, Idle) PROVE Apart(r)
  BY <1>0, <1>9, EndMoves DEF Seeding
<1>10. ASSUME NEW r \in Request, NEW s \in Subject, NEW e \in Email \cup {None}, SignIn(r, s, e)
       PROVE Apart(r)
  BY <1>0, <1>10, SignInMoves DEF Seeding
<1>11. ASSUME NEW r \in Request, NEW s \in Subject, NEW e \in Email \cup {None},
              SignInNew(r, s, e)
       PROVE Apart(r)
  BY <1>0, <1>11, SignInNewMoves DEF Seeding
<1>12. ASSUME NEW r \in Request, CheckOwner(r) PROVE Apart(r)
  BY <1>0, <1>12, CheckOwnerMoves DEF Seeding
<1>13. ASSUME NEW r \in Request, MatchEmail(r) PROVE Apart(r)
  BY <1>0, <1>13, MatchEmailMoves DEF Seeding
<1>14. ASSUME NEW r \in Request, MarkVerified(r) PROVE Apart(r)
  BY <1>0, <1>14, MarkVerifiedMoves DEF Seeding
<1>15. CASE UNCHANGED vars
  BY <1>15, SeedsStays DEF vars
<1>16. ASSUME NEW r \in Request, Moves(r) PROVE Seeds(q)'
  BY <1>16, SeedsStays
<1> HIDE DEF Moves, Apart
<1> QED
  BY <1>1, <1>2, <1>3, <1>4, <1>5, <1>6, <1>7, <1>8, <1>9, <1>10, <1>11, <1>12, <1>13, <1>14,
     <1>15, <1>16 DEF Next, Inserts, SeedAssign, ApplyEmail, Attach, Abort

LEMMA ConsoleStep == ConsoleInv /\ [Next]_vars => ConsoleInv'
<1> SUFFICES ASSUME ConsoleInv, [Next]_vars PROVE ConsoleInv'
  OBVIOUS
<1>0. /\ SteadyInv' /\ EmailInv' /\ Base /\ superadmin \subseteq Account
      /\ \A r \in Request : Seeds(r) /\ Known(r)
  BY SteadyStep, EmailInvStep DEF ConsoleInv, SteadyInv, SubjectInv, Base, AccountsTypeOK
<1>1. CASE superadmin' = superadmin
  <2>1. superadmin' # {} => console' = "role"
    BY <1>1, ConsoleGrows DEF ConsoleInv
  <2>2. \A a \in superadmin' \cap Steady' : user'[a].email = Admin
    BY <1>0, <1>1, SteadyShrinks, AdminStays DEF ConsoleInv
  <2> QED
    BY <1>0, <2>1, <2>2, SeedsStep DEF ConsoleInv
<1>2. ASSUME NEW r \in Request, SeedAssign(r) PROVE ConsoleInv'
  <2>1. /\ req[r].pc = "assign" /\ superadmin' = superadmin \cup {req[r].held}
        /\ user' = user /\ console' = console
    BY <1>2 DEF SeedAssign
  <2>2. console' = "role"
    BY <1>0, <2>1 DEF Seeds, Seeding
  <2>3. req[r].held \in Steady => user[req[r].held].email = Admin
    BY <1>0, <2>1 DEF Seeds
  <2>4. \A a \in superadmin' \cap Steady' : user'[a].email = Admin
    BY <1>0, <2>1, <2>3, SteadyShrinks DEF ConsoleInv
  <2> QED
    BY <1>0, <2>2, <2>4, SeedsStep DEF ConsoleInv
<1> QED
  BY <1>1, <1>2 DEF Next, vars, admin, Register, RegisterInsert, Seed, SeedApp, SeedRole,
     SeekAdmin, SeedInsert, SetPassword, SignIn, SignInNew, CheckOwner, ApplyEmail, MatchEmail,
     CreateUser, MarkVerified, Attach, Abort

LEMMA ConsoleInit == Init => ConsoleInv
<1> SUFFICES ASSUME Init PROVE ConsoleInv
  OBVIOUS
<1>1. \A r \in Request : req[r].pc = "idle"
  BY IdleIsAHandler DEF Init
<1>2. superadmin = {}
  BY DEF Init
<1> QED
  BY <1>1, <1>2, SteadyInit, EmailInit DEF ConsoleInv, Seeds, Seeding

(* The console comes with its role before anyone holds it, and whoever does *)
(* has the administrator's email, one account only unless two handlers      *)
(* found that email free.                                                   *)
THEOREM TheAdministratorsConsole == Spec => []ConsoleIsTheAdministrators
<1>1. ConsoleInv => ConsoleIsTheAdministrators
  <2> SUFFICES ASSUME ConsoleInv, Admin \notin raced,
                      NEW a \in superadmin \cap Steady, NEW b \in superadmin \cap Steady
               PROVE  a = b
    BY DEF ConsoleInv, ConsoleIsTheAdministrators
  <2>1. user[a].email = Admin /\ user[b].email = Admin /\ a \in Account /\ b \in Account
    BY DEF ConsoleInv, Steady
  <2>2. EmailUniqueUnlessRaced
    BY EmailsApart DEF ConsoleInv
  <2> QED
    BY <2>1, <2>2, AdminIsAnEmail, NoneIsNothing DEF EmailUniqueUnlessRaced
<1> QED
  BY <1>1, ConsoleInit, ConsoleStep, PTL DEF Spec

=============================================================================
