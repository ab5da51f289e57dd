------------------------------ MODULE Accounts ------------------------------
(***************************************************************************)
(* How accounts come to be: RegistrationService.register, the federated     *)
(* linkOrCreateFederatedUser behind the Google and GitHub callbacks, and    *)
(* SeedService on the start of an api replica, over the tables users,       *)
(* credentials and identities, and the administration console the seed      *)
(* provides: its application, its role and who holds it.                    *)
(*                                                                         *)
(* Each is a chain of finds and flushes with an await between them, on      *)
(* several api replicas.  A find without an order may return any matching   *)
(* row.  The unique index of users is on (organization_id, email): the code *)
(* never sets organization_id and NULLs are distinct in it, so the database *)
(* accepts a second row with the same email.  A phone is looked up and      *)
(* stored as an email is; Email stands for either identifier.               *)
(***************************************************************************)
EXTENDS FiniteSets

CONSTANTS
  Account,   \* users rows that may ever be created
  Email,     \* normalised email addresses
  Subject,   \* (provider, subject) pairs that may sign in
  Request,   \* handlers in flight at once, over all replicas
  None,      \* no account, email or subject
  Admin      \* ADMIN_BOOTSTRAP_EMAIL

ASSUME NoneIsNothing == None \notin Account \cup Email \cup Subject
ASSUME AdminIsAnEmail == Admin \in Email

VARIABLES
  user,      \* user[a]: the row, or NoUser
  password,  \* accounts with a password credential
  owner,     \* owner[s]: the account the identity of subject s belongs to
  console,   \* what exists of the console: "none", its "app", also its "role"
  superadmin, \* accounts the console's role is assigned to
  req,       \* req[r]: where handler r is and what it has read
  raced,     \* history: emails and subjects two handlers worked on at once
  abandoned  \* history: accounts whose handler died before they could be opened

vars == <<user, password, owner, console, superadmin, req, raced, abandoned>>
admin == <<console, superadmin>>

NoUser == [email |-> None, verified |-> FALSE, status |-> "none"]
Row == [email : Email \cup {None}, verified : BOOLEAN,
        status : {"none", "pending", "active"}]
Steps == {"idle", "register", "app", "role", "seek", "seed", "password",
          "provision", "assign", "owned", "apply", "match", "create", "verify",
          "attach"}
Handler == [pc : Steps, email : Email \cup {None}, subject : Subject \cup {None},
            held : Account \cup {None}, saw : Row]
Idle == [pc |-> "idle", email |-> None, subject |-> None, held |-> None,
         saw |-> NoUser]

Exists(a) == user[a].status # "none"
With(e) == {a \in Account : Exists(a) /\ user[a].email = e}
OneOf(S) == IF S = {} THEN {None} ELSE S      \* findOne

(* Account a has a password or an identity. *)
Opens(a) == a \in password \/ \E s \in Subject : owner[s] = a

(* Handler r is about to give account a its password or its identity. *)
Opening(r, a) ==
  req[r].pc \in {"password", "provision", "attach"} /\ req[r].held = a

Goto(r, state) == req' = [req EXCEPT ![r] = state]
Insert(a, row) == ~Exists(a) /\ user' = [user EXCEPT ![a] = row]

(* Handlers about to give an account the email e, and sign-ins of subject s. *)
Giving(e) ==
  {q \in Request : req[q].email = e /\ req[q].pc \in {"register", "seed", "create", "apply"}}
SigningIn(s) == {q \in Request : req[q].subject = s}

-----------------------------------------------------------------------------
AccountsTypeOK ==
  /\ user \in [Account -> Row]
  /\ password \subseteq Account
  /\ owner \in [Subject -> Account \cup {None}]
  /\ console \in {"none", "app", "role"} /\ superadmin \subseteq Account
  /\ req \in [Request -> Handler]
  /\ raced \subseteq Email \cup Subject
  /\ abandoned \subseteq Account

Init ==
  /\ user = [a \in Account |-> NoUser]
  /\ password = {}
  /\ owner = [s \in Subject |-> None]
  /\ console = "none" /\ superadmin = {}
  /\ req = [r \in Request |-> Idle]
  /\ raced = {}
  /\ abandoned = {}

(* History: e was found free while another handler is about to take it. *)
NoteEmail(e) == raced' = raced \cup {f \in {e} \ {None} : Giving(f) # {}}
NoteSubject(s) == raced' = raced \cup {t \in {s} : SigningIn(t) # {}}

-----------------------------------------------------------------------------
(* Mutant: register inserts without looking for the email. *)
RegisterUnchecked(r, e) ==
  /\ req[r].pc = "idle"
  /\ Goto(r, [Idle EXCEPT !.pc = "register", !.email = e])
  /\ NoteEmail(e)
  /\ UNCHANGED <<user, password, owner, abandoned, admin>>

(* register: nobody has the email. *)
Register(r, e) ==
  /\ req[r].pc = "idle"
  /\ With(e) = {}
  /\ Goto(r, [Idle EXCEPT !.pc = "register", !.email = e])
  /\ NoteEmail(e)
  /\ UNCHANGED <<user, password, owner, abandoned, admin>>

RegisterInsert(r, a) ==
  /\ req[r].pc = "register"
  /\ Insert(a, [email |-> req[r].email, verified |-> FALSE, status |-> "pending"])
  /\ Goto(r, [req[r] EXCEPT !.pc = "password", !.held = a])
  /\ UNCHANGED <<password, owner, raced, abandoned, admin>>

(* The seed looks for the application of the console. *)
Seed(r) ==
  /\ req[r].pc = "idle"
  /\ Goto(r, [Idle EXCEPT !.pc = IF console = "none" THEN "app" ELSE "role"])
  /\ UNCHANGED <<user, password, owner, raced, abandoned, admin>>

(* ensureAdminApp: the insert; a second one breaks the unique client_id and *)
(* the start of the replica fails.                                          *)
SeedApp(r) ==
  /\ req[r].pc = "app"
  /\ console' = IF console = "none" THEN "app" ELSE console
  /\ Goto(r, IF console = "none" THEN [req[r] EXCEPT !.pc = "role"] ELSE Idle)
  /\ UNCHANGED <<user, password, owner, superadmin, raced, abandoned>>

(* ensureSuperadminRole: found, or inserted once by its unique name. *)
SeedRole(r) ==
  /\ req[r].pc = "role"
  /\ console' = "role"
  /\ Goto(r, [req[r] EXCEPT !.pc = "seek"])
  /\ UNCHANGED <<user, password, owner, superadmin, raced, abandoned>>

(* ensureAdminUser: an account with the administrator's email is left as it *)
(* is, with or without a password; or nobody has the email.                 *)
SeekAdmin(r) ==
  /\ req[r].pc = "seek"
  /\ \E a \in OneOf(With(Admin)) :
       IF a = None
       THEN Goto(r, [Idle EXCEPT !.pc = "seed", !.email = Admin]) /\ NoteEmail(Admin)
       ELSE Goto(r, [Idle EXCEPT !.pc = "assign", !.held = a]) /\ UNCHANGED raced
  /\ UNCHANGED <<user, password, owner, abandoned, admin>>

SeedInsert(r, a) ==
  /\ req[r].pc = "seed"
  /\ Insert(a, [email |-> Admin, verified |-> TRUE, status |-> "active"])
  /\ Goto(r, [req[r] EXCEPT !.pc = "provision", !.held = a])
  /\ UNCHANGED <<password, owner, raced, abandoned, admin>>

(* setPassword, for register or the seed, in a transaction of its own. *)
SetPassword(r) ==
  /\ req[r].pc \in {"password", "provision"}
  /\ password' = password \cup {req[r].held}
  /\ Goto(r, IF req[r].pc = "provision"
             THEN [Idle EXCEPT !.pc = "assign", !.held = req[r].held] ELSE Idle)
  /\ UNCHANGED <<user, owner, raced, abandoned, admin>>

(* The role is assigned to the account, if it has not got it. *)
SeedAssign(r) ==
  /\ req[r].pc = "assign"
  /\ superadmin' = superadmin \cup {req[r].held}
  /\ Goto(r, Idle)
  /\ UNCHANGED <<user, password, owner, console, raced, abandoned>>

-----------------------------------------------------------------------------
(* linkOrCreateFederatedUser: subject s signs in with verified email e, or  *)
(* with none.  An identity is known: its account is read.                   *)
SignIn(r, s, e) ==
  /\ req[r].pc = "idle"
  /\ owner[s] # None
  /\ Goto(r, IF e = None THEN Idle
             ELSE [pc |-> "owned", email |-> e, subject |-> s,
                   held |-> owner[s], saw |-> user[owner[s]]])
  /\ NoteSubject(s)
  /\ UNCHANGED <<user, password, owner, abandoned, admin>>

(* No identity is known: look for an account with the verified email. *)
SignInNew(r, s, e) ==
  /\ req[r].pc = "idle"
  /\ owner[s] = None
  /\ Goto(r, [Idle EXCEPT !.pc = IF e = None THEN "create" ELSE "match",
                          !.email = e, !.subject = s])
  /\ NoteSubject(s)
  /\ UNCHANGED <<user, password, owner, abandoned, admin>>

(* Mutant: the verified email replaces whatever the account has. *)
CanApplyAny(r, holder) == holder \in {None, req[r].held}

(* canApplyVerifiedEmail: the account has no other email and findOne by the *)
(* email gives nobody else.                                                 *)
CanApply(r, holder) ==
  req[r].saw.email \in {None, req[r].email} /\ holder \in {None, req[r].held}

(* There is something to apply, or the account is left as it is. *)
CheckOwner(r) ==
  /\ req[r].pc = "owned"
  /\ \E holder \in OneOf(With(req[r].email)) :
       IF CanApply(r, holder)
          /\ (req[r].saw.email # req[r].email \/ ~req[r].saw.verified)
       THEN Goto(r, [req[r] EXCEPT !.pc = "apply"]) /\ NoteEmail(req[r].email)
       ELSE Goto(r, Idle) /\ UNCHANGED raced
  /\ UNCHANGED <<user, password, owner, abandoned, admin>>

ApplyEmail(r) ==
  /\ req[r].pc = "apply"
  /\ user' = [user EXCEPT ![req[r].held].email = req[r].email,
                          ![req[r].held].verified = TRUE]
  /\ Goto(r, Idle)
  /\ UNCHANGED <<password, owner, raced, abandoned, admin>>

(* Mutant: the lookup by email is skipped and an account always created. *)
MatchNobody(r) ==
  /\ req[r].pc = "match"
  /\ Goto(r, [req[r] EXCEPT !.pc = "create"]) /\ NoteEmail(req[r].email)
  /\ UNCHANGED <<user, password, owner, abandoned, admin>>

(* An account with the verified email is linked, after it is marked         *)
(* verified; without one a new account is created.                          *)
MatchEmail(r) ==
  /\ req[r].pc = "match"
  /\ \E a \in OneOf(With(req[r].email)) :
       IF a = None
       THEN Goto(r, [req[r] EXCEPT !.pc = "create"]) /\ NoteEmail(req[r].email)
       ELSE /\ Goto(r, [req[r] EXCEPT !.held = a,
                          !.pc = IF user[a].verified THEN "attach" ELSE "verify"])
            /\ UNCHANGED raced
  /\ UNCHANGED <<user, password, owner, abandoned, admin>>

(* Mutant: the account is created and handed back without an identity. *)
CreateUnlinked(r, a) ==
  LET e == req[r].email IN
  /\ req[r].pc = "create"
  /\ Insert(a, [email |-> e, verified |-> e # None, status |-> "active"])
  /\ Goto(r, Idle)
  /\ UNCHANGED <<password, owner, raced, abandoned, admin>>

CreateUser(r, a) ==
  LET e == req[r].email IN
  /\ req[r].pc = "create"
  /\ Insert(a, [email |-> e, verified |-> e # None, status |-> "active"])
  /\ Goto(r, [req[r] EXCEPT !.pc = "attach", !.held = a])
  /\ UNCHANGED <<password, owner, raced, abandoned, admin>>

MarkVerified(r) ==
  /\ req[r].pc = "verify"
  /\ user' = [user EXCEPT ![req[r].held].verified = TRUE]
  /\ Goto(r, [req[r] EXCEPT !.pc = "attach"])
  /\ UNCHANGED <<password, owner, raced, abandoned, admin>>

(* The identity is inserted; a second one for the subject breaks the unique *)
(* constraint and the request fails.                                        *)
Attach(r) ==
  /\ req[r].pc = "attach"
  /\ owner' = [owner EXCEPT ![req[r].subject] = IF @ = None THEN req[r].held ELSE @]
  /\ Goto(r, Idle)
  /\ UNCHANGED <<user, password, raced, abandoned, admin>>

(* An error or a restart ends a handler between two awaits. *)
Abort(r) ==
  /\ req[r].pc # "idle"
  /\ Goto(r, Idle)
  /\ abandoned' = abandoned \cup {a \in Account : Opening(r, a) /\ ~Opens(a)}
  /\ UNCHANGED <<user, password, owner, raced, admin>>

Next ==
  \E r \in Request :
    \/ \E e \in Email : Register(r, e)
    \/ Seed(r) \/ SeedApp(r) \/ SeedRole(r) \/ SeekAdmin(r) \/ SetPassword(r) \/ SeedAssign(r)
    \/ \E s \in Subject, e \in Email \cup {None} : SignIn(r, s, e) \/ SignInNew(r, s, e)
    \/ CheckOwner(r) \/ ApplyEmail(r) \/ MatchEmail(r) \/ MarkVerified(r) \/ Attach(r)
    \/ \E a \in Account : RegisterInsert(r, a) \/ SeedInsert(r, a) \/ CreateUser(r, a)
    \/ Abort(r)

Spec == Init /\ [][Next]_vars

-----------------------------------------------------------------------------
(* Properties *)

(* Registration, seeding and federated sign-in give an email to one account *)
(* only, unless two of them found it free before either wrote.              *)
EmailUniqueUnlessRaced ==
  \A a, b \in Account :
    user[a].email = user[b].email /\ user[a].email \notin {None} \cup raced => a = b

Reachable(a) == Opens(a) \/ \E r \in Request : Opening(r, a)

(* Nobody is left with an account that no password and no identity opens,   *)
(* unless two sign-ins of one new subject overlapped or the handler that    *)
(* made the account died.                                                   *)
EveryAccountHasADoor ==
  raced \cap Subject = {} =>
    \A a \in Account \ abandoned : Exists(a) => Reachable(a)

(* Accounts no subject of which had two sign-ins at once. *)
Steady == Account \ {owner[s] : s \in raced \cap Subject}

(* Signing in with a provider never moves a verified email: an account that *)
(* has shown an email is its own keeps it, unless two sign-ins of its       *)
(* subject overlapped.                                                      *)
VerifiedEmailsStay ==
  [][\A a \in Steady :
       user[a].verified /\ user[a].email # None =>
         user'[a].email = user[a].email /\ user'[a].verified]_vars

(* The console is the administrator's: whatever registrations and sign-ins  *)
(* do to its account, whoever holds the role has the administrator's email  *)
(* (unless two sign-ins of its subject overlapped), and one account only    *)
(* has it unless two handlers found the email free.                        *)
ConsoleIsTheAdministrators ==
  /\ superadmin # {} => console = "role"
  /\ \A a \in superadmin \cap Steady : user[a].email = Admin
  /\ Admin \notin raced => \A a, b \in superadmin \cap Steady : a = b
=============================================================================
