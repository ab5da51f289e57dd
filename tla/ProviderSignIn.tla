--------------------------- MODULE ProviderSignIn ---------------------------
(***************************************************************************)
(* Sign-in of one person with Google or GitHub, by redirects only:          *)
(* buildAuthUrl and handleCallback of GoogleService and GithubService, with *)
(* the application rows of AdminService they rest on.                       *)
(*                                                                         *)
(* A flow is one state entry in Redis.  The provider, outside src/, gives a *)
(* code for each consent, bound to the flow's code_challenge, and exchanges *)
(* it once.  Handlers of several api replicas overlap; one action is the    *)
(* code between two awaits on something others may change.                  *)
(*                                                                         *)
(* Which account the person gets, and how it is found, is in Accounts; here *)
(* there is one, and what matters of it is whether it may sign in.  The     *)
(* status of the application is not in its row: these two services never    *)
(* read it.                                                                *)
(***************************************************************************)
EXTENDS Integers, Sequences, FiniteSets

CONSTANTS
  Flow,      \* states (uuids) that may ever be made
  Code,      \* authorization codes the provider may ever give
  Request,   \* handlers in flight at once, over all replicas
  Redirect,  \* dashboard addresses
  Email,     \* email addresses
  Mailbox,   \* what GET /user/emails may answer: sequences of EmailRecord
  Update,    \* what administrators may ask updateApplication for
  None       \* no flow, code, email or value

ASSUME NoneIsNoValue == None \notin Flow \cup Code \cup Redirect \cup Email

Provider == {"google", "github"}
EmailRecord == [email : Email, primary : BOOLEAN, verified : BOOLEAN]

ASSUME MailboxesAreLists == Mailbox \subseteq Seq(EmailRecord)

VARIABLES
  app,      \* the application's row, or Gone after its deletion
  begun,    \* begun[f]: what flow f was begun for, or NotBegun
  live,     \* flows whose state entry is in Redis
  given,    \* given[k]: the flow whose consent code k was given for
  spent,    \* codes exchanged
  account,  \* "none", "active" or "blocked"
  mailbox,  \* the emails the provider knows the person by
  req,      \* req[r]: where handler r is and what it remembers
  opened,   \* history: opened[f]: token sets handed out for flow f
  raced,    \* history: flows two handlers found before either deleted them
  edited,   \* history: flows whose application was changed after they began
  late      \* history: handlers past their look at the account at a block

vars == <<app, begun, live, given, spent, account, mailbox, req, opened, raced,
          edited, late>>
provider == <<given, spent, mailbox>>

Row == [redirects : SUBSET Redirect, grants : SUBSET Provider]
Gone == [redirects |-> {}, grants |-> {}, gone |-> TRUE]

(* What an update asks for, and the columns it has changed in memory: Unset *)
(* is a column left alone.                                                 *)
Unset == {None}
Untouched == [redirects |-> Unset, grants |-> Unset]
Patch == [redirects : (SUBSET Redirect) \cup {Unset},
          grants : (SUBSET Provider) \cup {Unset}]

ASSUME UpdatesArePatches == Update \subseteq Patch

NotBegun == [redirect |-> None, provider |-> None]
Begun == [redirect : Redirect, provider : Provider] \cup {NotBegun}

NoClaims == [email |-> None, verified |-> FALSE]
Claims == [email : Email \cup {None}, verified : BOOLEAN]

Steps == {"idle", "store", "delete", "exchange", "app", "link", "issue",
          "update", "remove"}
Handler == [pc : Steps, flow : Flow \cup {None}, code : Code \cup {None},
            claims : Claims, patch : Patch]
Idle == [pc |-> "idle", flow |-> None, code |-> None, claims |-> NoClaims,
         patch |-> Untouched]

Goto(r, state) == req' = [req EXCEPT ![r] = state]
Step(r, pc) == Goto(r, [req[r] EXCEPT !.pc = pc])
For(f) == begun[f].provider

-----------------------------------------------------------------------------
ProviderSignInTypeOK ==
  /\ app \in Row \cup {Gone}
  /\ begun \in [Flow -> Begun]
  /\ live \subseteq Flow
  /\ given \in [Code -> Flow \cup {None}] /\ spent \subseteq Code
  /\ account \in {"none", "active", "blocked"}
  /\ mailbox \in Mailbox
  /\ req \in [Request -> Handler]
  /\ opened \in [Flow -> Nat]
  /\ raced \subseteq Flow /\ edited \subseteq Flow /\ late \subseteq Request

(* createApplication has made the row, with every address and both grants. *)
Init ==
  /\ app = [redirects |-> Redirect, grants |-> Provider]
  /\ begun = [f \in Flow |-> NotBegun] /\ live = {}
  /\ given = [k \in Code |-> None] /\ spent = {}
  /\ account \in {"none", "active"}
  /\ mailbox \in Mailbox
  /\ req = [r \in Request |-> Idle]
  /\ opened = [f \in Flow |-> 0]
  /\ raced = {} /\ edited = {} /\ late = {}

-----------------------------------------------------------------------------
(* Mutant: the redirect address is not compared with the registered ones. *)
BuildAuthUrlAnywhere(r, f, u, p) ==
  /\ req[r].pc = "idle"
  /\ begun[f] = NotBegun
  /\ app # Gone /\ p \in app.grants
  /\ begun' = [begun EXCEPT ![f] = [redirect |-> u, provider |-> p]]
  /\ Goto(r, [Idle EXCEPT !.pc = "store", !.flow = f])
  /\ UNCHANGED <<app, live, provider, account, opened, raced, edited, late>>

(* buildAuthUrl: the application is read and allows the grant and the       *)
(* address ...                                                             *)
BuildAuthUrl(r, f, u, p) ==
  /\ req[r].pc = "idle"
  /\ begun[f] = NotBegun
  /\ app # Gone /\ p \in app.grants /\ u \in app.redirects
  /\ begun' = [begun EXCEPT ![f] = [redirect |-> u, provider |-> p]]
  /\ Goto(r, [Idle EXCEPT !.pc = "store", !.flow = f])
  /\ UNCHANGED <<app, live, provider, account, opened, raced, edited, late>>

(* ... and the state is stored for 300 seconds. *)
StoreState(r) ==
  /\ req[r].pc = "store"
  /\ live' = live \cup {req[r].flow}
  /\ Goto(r, Idle)
  /\ UNCHANGED <<app, begun, provider, account, opened, raced, edited, late>>

Lapse(f) ==
  /\ f \in live
  /\ live' = live \ {f}
  /\ UNCHANGED <<app, begun, provider, account, req, opened, raced, edited, late>>

(* The person opens the URL of a flow, as often as they like, and consents. *)
Consent(f, k) ==
  /\ given[k] = None
  /\ begun[f] # NotBegun /\ \A r \in Request : ~(req[r].pc = "store" /\ req[r].flow = f)
  /\ given' = [given EXCEPT ![k] = f]
  /\ UNCHANGED <<app, begun, live, spent, account, mailbox, req, opened, raced,
                 edited, late>>

-----------------------------------------------------------------------------
(* handleCallback: the state is found ... *)
FindState(r, f, k) ==
  /\ req[r].pc = "idle"
  /\ f \in live /\ given[k] # None
  /\ Goto(r, [Idle EXCEPT !.pc = "delete", !.flow = f, !.code = k])
  /\ raced' = raced \cup {g \in {f} : \E q \in Request :
                            req[q].pc = "delete" /\ req[q].flow = g}
  /\ UNCHANGED <<app, begun, live, provider, account, opened, edited, late>>

(* Mutant: the state is left to expire. *)
DeleteForgotten(r) ==
  /\ req[r].pc = "delete"
  /\ Step(r, "exchange")
  /\ UNCHANGED <<app, begun, live, provider, account, opened, raced, edited, late>>

(* ... and deleted; how many entries went is not looked at. *)
DeleteState(r) ==
  /\ req[r].pc = "delete"
  /\ live' = live \ {req[r].flow}
  /\ Step(r, "exchange")
  /\ UNCHANGED <<app, begun, provider, account, opened, raced, edited, late>>

Verified(box) == {i \in DOMAIN box : box[i].verified}
First(S) == CHOOSE i \in S : \A j \in S : i <= j

(* Mutant: the primary address is taken when none is verified. *)
PickPrimary(box) ==
  LET primary == {i \in DOMAIN box : box[i].primary}
      S == IF primary # {} THEN primary ELSE Verified(box)
  IN IF S = {} THEN None ELSE box[First(S)].email

(* pickGithubVerifiedEmail: the primary address if it is verified, or else  *)
(* the first verified one.                                                 *)
PickVerified(box) ==
  LET primary == {i \in Verified(box) : box[i].primary}
      S == IF primary # {} THEN primary ELSE Verified(box)
  IN IF S = {} THEN None ELSE box[First(S)].email

(* fetchProfile: a verified address, or the public one of the profile. *)
GithubClaims ==
  LET e == PickVerified(mailbox) IN
  IF e # None THEN {[email |-> e, verified |-> TRUE]}
  ELSE [email : {mailbox[i].email : i \in DOMAIN mailbox} \cup {None}, verified : {FALSE}]

(* verifyIdToken: Google's address and its word for it. *)
GoogleClaims ==
  IF mailbox = <<>> THEN {NoClaims}
  ELSE {[email |-> mailbox[1].email, verified |-> mailbox[1].verified]}

ClaimsFor(p) == IF p = "github" THEN GithubClaims ELSE GoogleClaims

(* Mutant: every flow is begun with the same code_verifier. *)
ExchangeUnbound(r) ==
  LET k == req[r].code IN
  /\ req[r].pc = "exchange"
  /\ k \notin spent
  /\ spent' = spent \cup {k}
  /\ \E claims \in ClaimsFor(For(req[r].flow)) :
       Goto(r, [req[r] EXCEPT !.pc = "app", !.code = None, !.claims = claims])
  /\ UNCHANGED <<app, begun, live, given, account, mailbox, opened, raced, edited, late>>

(* exchangeCode and what the provider then says of the person.  The code is *)
(* fresh and the flow's code_verifier answers its challenge.                *)
Exchange(r) ==
  LET k == req[r].code IN
  /\ req[r].pc = "exchange"
  /\ k \notin spent /\ given[k] = req[r].flow
  /\ spent' = spent \cup {k}
  /\ \E claims \in ClaimsFor(For(req[r].flow)) :
       Goto(r, [req[r] EXCEPT !.pc = "app", !.code = None, !.claims = claims])
  /\ UNCHANGED <<app, begun, live, given, account, mailbox, opened, raced, edited, late>>

(* The application still exists; nothing else of its row is looked at. *)
FindApp(r) ==
  /\ req[r].pc = "app"
  /\ app # Gone
  /\ Step(r, "link")
  /\ UNCHANGED <<app, begun, live, provider, account, opened, raced, edited, late>>

(* Mutant: whether the account may sign in is not asked. *)
LinkAnyone(r) ==
  /\ req[r].pc = "link"
  /\ account' = IF account = "none" THEN "active" ELSE account
  /\ Goto(r, [req[r] EXCEPT !.pc = "issue", !.claims = NoClaims])
  /\ UNCHANGED <<app, begun, live, provider, opened, raced, edited, late>>

(* linkOrCreateFederatedUser, then isLoginable on the account it returns. *)
Link(r) ==
  /\ req[r].pc = "link"
  /\ account' = IF account = "none" THEN "active" ELSE account
  /\ Goto(r, IF account = "blocked" THEN Idle
             ELSE [req[r] EXCEPT !.pc = "issue", !.claims = NoClaims])
  /\ UNCHANGED <<app, begun, live, provider, opened, raced, edited, late>>

(* issueTokenSet and the redirect to the address of the flow. *)
Issue(r) ==
  /\ req[r].pc = "issue"
  /\ app # Gone
  /\ opened' = [opened EXCEPT ![req[r].flow] = @ + 1]
  /\ Goto(r, Idle)
  /\ late' = late \ {r}
  /\ UNCHANGED <<app, begun, live, provider, account, raced, edited>>

(* An error answer (a refused exchange, an application gone, a foreign key  *)
(* broken) or a restart ends a handler.                                     *)
Abort(r) ==
  /\ req[r].pc # "idle"
  /\ Goto(r, Idle)
  /\ late' = late \ {r}
  /\ UNCHANGED <<app, begun, live, provider, account, opened, raced, edited>>

-----------------------------------------------------------------------------
(* updateApplication: the row is read and what differs is changed in memory. *)
ReadForUpdate(r, want) ==
  LET Differs(new, old) == IF new = old THEN Unset ELSE new IN
  /\ req[r].pc = "idle"
  /\ app # Gone
  /\ Goto(r, [Idle EXCEPT !.pc = "update", !.patch =
       [redirects |-> Differs(want.redirects, app.redirects),
        grants |-> Differs(want.grants, app.grants)]])
  /\ UNCHANGED <<app, begun, live, provider, account, opened, raced, edited, late>>

Changed == {f \in Flow : begun[f] # NotBegun}

(* The flush writes the columns changed, on a row that may since have gone. *)
FlushUpdate(r) ==
  LET patch == req[r].patch
      Or(new, old) == IF new = Unset THEN old ELSE new IN
  /\ req[r].pc = "update"
  /\ app' = IF app = Gone THEN Gone
            ELSE [redirects |-> Or(patch.redirects, app.redirects),
                  grants |-> Or(patch.grants, app.grants)]
  /\ edited' = edited \cup Changed
  /\ Goto(r, Idle)
  /\ UNCHANGED <<begun, live, provider, account, opened, raced, late>>

(* deleteApplication: the row is read, then deleted. *)
ReadForDelete(r) ==
  /\ req[r].pc = "idle"
  /\ app # Gone
  /\ Goto(r, [Idle EXCEPT !.pc = "remove"])
  /\ UNCHANGED <<app, begun, live, provider, account, opened, raced, edited, late>>

FlushDelete(r) ==
  /\ req[r].pc = "remove"
  /\ app' = Gone
  /\ Goto(r, Idle)
  /\ UNCHANGED <<begun, live, provider, account, opened, raced, edited, late>>

(* updateUserStatus; its own steps are in Login. *)
UpdateUserStatus(s) ==
  /\ account # "none"
  /\ account' = s
  /\ late' = IF s = "blocked" THEN {r \in Request : req[r].pc = "issue"} ELSE late
  /\ UNCHANGED <<app, begun, live, provider, req, opened, raced, edited>>

-----------------------------------------------------------------------------
AppStep(r) ==
  \/ \E want \in Update : ReadForUpdate(r, want)
  \/ FlushUpdate(r) \/ ReadForDelete(r) \/ FlushDelete(r)

Next ==
  \/ \E f \in Flow : Lapse(f) \/ \E k \in Code : Consent(f, k)
  \/ \E s \in {"active", "blocked"} : UpdateUserStatus(s)
  \/ \E r \in Request :
       \/ \E f \in Flow, u \in Redirect, p \in Provider : BuildAuthUrl(r, f, u, p)
       \/ \E f \in Flow, k \in Code : FindState(r, f, k)
       \/ StoreState(r) \/ DeleteState(r) \/ Exchange(r) \/ FindApp(r)
       \/ Link(r) \/ Issue(r) \/ Abort(r) \/ AppStep(r)

Spec == Init /\ [][Next]_vars

-----------------------------------------------------------------------------
(* Properties *)

(* A flow signs the person in once, however often its callback is delivered *)
(* and its URL consented to, unless two callbacks found the state before    *)
(* either deleted it.                                                       *)
FlowOpensOnceUnlessRaced == \A f \in Flow \ raced : opened[f] <= 1

(* No token set without a consent given for that very flow: one at most for *)
(* each code of the flow, even when callbacks race and codes and states of  *)
(* several flows are mixed.                                                 *)
OneTokenSetPerConsent ==
  \A f \in Flow : opened[f] <= Cardinality({k \in spent : given[k] = f})

(* Handler r hands out a token set in this step. *)
Opening(r) ==
  /\ req[r].pc = "issue" /\ req'[r].pc = "idle"
  /\ opened'[req[r].flow] > opened[req[r].flow]

(* Tokens go to an address that is registered for the application, with a   *)
(* grant it allows, unless an update came after the flow had begun.         *)
TokensGoToRegistered ==
  [][\A r \in Request : Opening(r) =>
       LET f == req[r].flow IN
       \/ f \in edited
       \/ begun[f].redirect \in app.redirects /\ For(f) \in app.grants]_vars

(* A person whose account is blocked is not signed in, unless the block     *)
(* came after the handler had looked at the account.                        *)
BlockedStayOut ==
  [][\A r \in Request : Opening(r) => account = "active" \/ r \in late]_vars

(* The provider vouches for an address a sign-in calls verified; and a      *)
(* GitHub sign-in with no verified address has none to find.                *)
ClaimsAreVouchedFor ==
  LET vouched == {mailbox[i].email : i \in Verified(mailbox)} IN
  \A r \in Request : req[r].pc \in {"app", "link"} =>
    /\ req[r].claims.verified => req[r].claims.email \in vouched
    /\ ~req[r].claims.verified /\ For(req[r].flow) = "github" => vouched = {}
=============================================================================
