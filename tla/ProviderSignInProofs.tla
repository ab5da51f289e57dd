------------------------ MODULE ProviderSignInProofs ------------------------
(***************************************************************************)
(* Theorems about ProviderSignIn, for any flows, codes, handlers, addresses,*)
(* emails, mailboxes and updates.                                           *)
(***************************************************************************)
EXTENDS ProviderSignIn, FiniteSetTheorems, WellFoundedInduction, TLAPS

(* Where a handler has the consent of its flow, and where it has the flow. *)
Signed == {"app", "link", "issue"}
Called == {"delete", "exchange"} \cup Signed
Storing == {"store"} \cup Called

(* A handler that has a flow has one that was begun, and a callback a code. *)
Held(r) ==
  /\ req[r].pc \in Storing => req[r].flow \in Flow /\ begun[req[r].flow] # NotBegun
  /\ req[r].pc \in {"delete", "exchange"} => req[r].code \in Code

(* Before it is begun a flow has no state entry and opened nothing. *)
Known(f) == begun[f] = NotBegun => f \notin live /\ opened[f] = 0

Base ==
  /\ ProviderSignInTypeOK
  /\ \A r \in Request : Held(r)
  /\ \A f \in Flow : Known(f)

-----------------------------------------------------------------------------
(* What the mailbox gives *)

(* A set of naturals that is not empty has a first.                         *)
LEMMA FirstIsIn ==
  ASSUME NEW S \in SUBSET Nat, S # {}
  PROVE  First(S) \in S
<1> DEFINE R == {ss \in Nat \X Nat : ss[1] < ss[2]}
<1>1. IsWellFoundedOn(R, Nat)
  BY NatLessThanWellFounded DEF OpToRel
<1>2. PICK n \in S : \A m \in S : ~(<<m, n>> \in R)
  BY <1>1, WFMin
<1>3. ASSUME NEW m \in S PROVE n <= m
  <2>1. <<m, n>> \in Nat \X Nat /\ <<m, n>>[1] = m /\ <<m, n>>[2] = n
    OBVIOUS
  <2>2. ~(m < n)
    BY <1>2, <2>1
  <2> QED
    BY <2>2
<1> QED
  BY <1>3 DEF First

LEMMA MailboxIsAList ==
  ASSUME ProviderSignInTypeOK
  PROVE  /\ mailbox \in Seq(EmailRecord) /\ DOMAIN mailbox \subseteq Nat
         /\ \A i \in DOMAIN mailbox : mailbox[i].email \in Email /\ mailbox[i].verified \in BOOLEAN
         /\ mailbox # <<>> => 1 \in DOMAIN mailbox
<1>1. mailbox \in Seq(EmailRecord)
  BY MailboxesAreLists DEF ProviderSignInTypeOK
<1>2. DOMAIN mailbox = 1 .. Len(mailbox) /\ \A i \in DOMAIN mailbox : mailbox[i] \in EmailRecord
  BY <1>1
<1> QED
  BY <1>1, <1>2 DEF EmailRecord

(* pickGithubVerifiedEmail finds a verified address if there is one.        *)
LEMMA PickIsVerified ==
  ASSUME ProviderSignInTypeOK
  PROVE  LET e == PickVerified(mailbox) IN
         /\ e # None => e \in {mailbox[i].email : i \in Verified(mailbox)}
         /\ e = None => Verified(mailbox) = {}
         /\ e \in Email \cup {None}
<1> DEFINE primary == {i \in Verified(mailbox) : mailbox[i].primary}
           S == IF primary # {} THEN primary ELSE Verified(mailbox)
<1>1. PickVerified(mailbox) = IF S = {} THEN None ELSE mailbox[First(S)].email
  BY DEF PickVerified
<1>2. S \subseteq Verified(mailbox) /\ (S = {} => Verified(mailbox) = {})
  OBVIOUS
<1>3. Verified(mailbox) \subseteq DOMAIN mailbox /\ S \in SUBSET Nat
  BY <1>2, MailboxIsAList DEF Verified
<1> HIDE DEF S
<1>4. CASE S = {}
  BY <1>1, <1>2, <1>4
<1>5. CASE S # {}
  <2>1. First(S) \in S
    BY <1>3, <1>5, FirstIsIn
  <2>2. First(S) \in Verified(mailbox) /\ mailbox[First(S)].email \in Email
    BY <2>1, <1>2, <1>3, MailboxIsAList
  <2> QED
    BY <1>1, <1>5, <2>2, NoneIsNoValue
<1> QED
  BY <1>4, <1>5

Vouched == {mailbox[i].email : i \in Verified(mailbox)}

(* What a provider says is a claim; a verified address is one it vouches    *)
(* for, and GitHub names no other while it has one.                         *)
LEMMA ClaimsAreTrue ==
  ASSUME ProviderSignInTypeOK, NEW p, NEW c \in ClaimsFor(p)
  PROVE  /\ c \in Claims
         /\ c.verified => c.email \in Vouched
         /\ ~c.verified /\ p = "github" => Vouched = {}
<1>1. CASE p = "github"
  <2>1. c \in GithubClaims
    BY <1>1 DEF ClaimsFor
  <2>2. CASE PickVerified(mailbox) # None
    <3>1. c = [email |-> PickVerified(mailbox), verified |-> TRUE]
      BY <2>1, <2>2 DEF GithubClaims
    <3> QED
      BY <3>1, <2>2, PickIsVerified DEF Claims, Vouched
  <2>3. CASE PickVerified(mailbox) = None
    <3>1. c \in [email : {mailbox[i].email : i \in DOMAIN mailbox} \cup {None}, verified : {FALSE}]
      BY <2>1, <2>3 DEF GithubClaims
    <3>2. c \in Claims /\ c.verified = FALSE
      BY <3>1, MailboxIsAList DEF Claims
    <3> QED
      BY <3>2, <2>3, PickIsVerified DEF Vouched
  <2> QED
    BY <2>2, <2>3
<1>2. CASE p # "github"
  <2>1. c \in GoogleClaims
    BY <1>2 DEF ClaimsFor
  <2>2. CASE mailbox = <<>>
    <3>1. c = NoClaims
      BY <2>1, <2>2 DEF GoogleClaims
    <3> QED
      BY <3>1, <1>2 DEF NoClaims, Claims
  <2>3. CASE mailbox # <<>>
    <3>1. c = [email |-> mailbox[1].email, verified |-> mailbox[1].verified]
      BY <2>1, <2>3 DEF GoogleClaims
    <3> QED
      BY <3>1, <2>3, <1>2, MailboxIsAList DEF Claims, Vouched, Verified
  <2> QED
    BY <2>2, <2>3
<1> QED
  BY <1>1, <1>2

-----------------------------------------------------------------------------
(* What the steps change *)

LEMMA HandlerFields ==
  ASSUME ProviderSignInTypeOK, NEW r \in Request
  PROVE  /\ req[r] \in Handler /\ req[r].pc \in Steps
         /\ req[r].flow \in Flow \cup {None} /\ req[r].code \in Code \cup {None}
         /\ req[r].claims \in Claims /\ req[r].patch \in Patch
  BY DEF ProviderSignInTypeOK, Handler

LEMMA IdleIsAHandler ==
  /\ Untouched \in Patch /\ NoClaims \in Claims
  /\ Idle \in Handler /\ Idle.pc = "idle" /\ Idle.flow = None /\ Idle.code = None
  /\ Idle.claims = NoClaims /\ Idle.patch = Untouched
<1>1. Untouched \in Patch /\ NoClaims \in Claims
  BY DEF Untouched, Unset, Patch, NoClaims, Claims
<1> QED
  BY <1>1 DEF Idle, Handler, Steps

LEMMA GotoMoves ==
  ASSUME ProviderSignInTypeOK, NEW r \in Request, NEW h \in Handler, Goto(r, h)
  PROVE  /\ req' \in [Request -> Handler] /\ req'[r] = h
         /\ \A q \in Request \ {r} : req'[q] = req[q]
  BY DEF ProviderSignInTypeOK, Goto

(* A handler that goes on from where it is. *)
LEMMA StepMoves ==
  ASSUME ProviderSignInTypeOK, NEW r \in Request, NEW pc \in Steps, Step(r, pc)
  PROVE  /\ req' \in [Request -> Handler] /\ req'[r].pc = pc
         /\ req'[r].flow = req[r].flow /\ req'[r].code = req[r].code
         /\ req'[r].claims = req[r].claims /\ req'[r].patch = req[r].patch
         /\ \A q \in Request \ {r} : req'[q] = req[q]
<1> DEFINE h == [req[r] EXCEPT !.pc = pc]
<1>1. /\ h \in Handler /\ h.pc = pc /\ h.flow = req[r].flow /\ h.code = req[r].code
      /\ h.claims = req[r].claims /\ h.patch = req[r].patch
  BY HandlerFields DEF Handler
<1> HIDE DEF h
<1>2. Goto(r, h)
  BY DEF Step, h
<1> QED
  BY <1>1, <1>2, GotoMoves

LEMMA EndMoves ==
  ASSUME ProviderSignInTypeOK, NEW r \in Request, Goto(r, Idle)
  PROVE  /\ req' \in [Request -> Handler] /\ req'[r] = Idle /\ req'[r].pc = "idle"
         /\ \A q \in Request \ {r} : req'[q] = req[q]
  BY IdleIsAHandler, GotoMoves

LEMMA BuildAuthUrlMoves ==
  ASSUME ProviderSignInTypeOK, NEW r \in Request, NEW f \in Flow, NEW u \in Redirect,
         NEW p \in Provider, BuildAuthUrl(r, f, u, p)
  PROVE  /\ req' \in [Request -> Handler] /\ req'[r].pc = "store" /\ req'[r].flow = f
         /\ \A q \in Request \ {r} : req'[q] = req[q]
         /\ begun' \in [Flow -> Begun] /\ begun'[f] = [redirect |-> u, provider |-> p]
         /\ begun'[f] # NotBegun
         /\ \A g \in Flow \ {f} : begun'[g] = begun[g]
<1> DEFINE h == [Idle EXCEPT !.pc = "store", !.flow = f]
<1>1. h \in Handler /\ h.pc = "store" /\ h.flow = f
  BY IdleIsAHandler DEF Idle, Handler, Steps
<1> HIDE DEF h
<1>2. Goto(r, h)
  BY DEF BuildAuthUrl, h
<1>3. [redirect |-> u, provider |-> p] \in Begun /\ [redirect |-> u, provider |-> p] # NotBegun
  BY NoneIsNoValue DEF Begun, NotBegun
<1>4. begun \in [Flow -> Begun] /\ begun' = [begun EXCEPT ![f] = [redirect |-> u, provider |-> p]]
  BY DEF BuildAuthUrl, ProviderSignInTypeOK
<1> QED
  BY <1>1, <1>2, <1>3, <1>4, GotoMoves

LEMMA FindStateMoves ==
  ASSUME ProviderSignInTypeOK, NEW r \in Request, NEW f \in Flow, NEW k \in Code,
         FindState(r, f, k)
  PROVE  /\ req' \in [Request -> Handler] /\ req'[r].pc = "delete" /\ req'[r].flow = f
         /\ req'[r].code = k
         /\ \A q \in Request \ {r} : req'[q] = req[q]
<1> DEFINE h == [Idle EXCEPT !.pc = "delete", !.flow = f, !.code = k]
<1>1. h \in Handler /\ h.pc = "delete" /\ h.flow = f /\ h.code = k
  BY IdleIsAHandler DEF Idle, Handler, Steps
<1> HIDE DEF h
<1>2. Goto(r, h)
  BY DEF FindState, h
<1> QED
  BY <1>1, <1>2, GotoMoves

LEMMA ExchangeMoves ==
  ASSUME ProviderSignInTypeOK, NEW r \in Request, Exchange(r)
  PROVE  /\ req' \in [Request -> Handler] /\ req'[r].pc = "app" /\ req'[r].flow = req[r].flow
         /\ req'[r].claims \in ClaimsFor(For(req[r].flow))
         /\ \A q \in Request \ {r} : req'[q] = req[q]
<1>1. PICK c \in ClaimsFor(For(req[r].flow)) :
        Goto(r, [req[r] EXCEPT !.pc = "app", !.code = None, !.claims = c])
  BY DEF Exchange
<1>2. c \in Claims
  BY ClaimsAreTrue
<1> DEFINE h == [req[r] EXCEPT !.pc = "app", !.code = None, !.claims = c]
<1>3. h \in Handler /\ h.pc = "app" /\ h.flow = req[r].flow /\ h.claims = c
  BY <1>2, HandlerFields DEF Handler, Steps
<1> HIDE DEF h
<1>4. Goto(r, h)
  BY <1>1 DEF h
<1> QED
  BY <1>3, <1>4, GotoMoves

LEMMA LinkMoves ==
  ASSUME ProviderSignInTypeOK, NEW r \in Request, Link(r)
  PROVE  /\ req' \in [Request -> Handler]
         /\ \/ account = "blocked" /\ req'[r].pc = "idle"
            \/ account # "blocked" /\ req'[r].pc = "issue" /\ req'[r].flow = req[r].flow
         /\ \A q \in Request \ {r} : req'[q] = req[q]
<1> DEFINE h == [req[r] EXCEPT !.pc = "issue", !.claims = NoClaims]
<1>1. h \in Handler /\ h.pc = "issue" /\ h.flow = req[r].flow
  BY HandlerFields, IdleIsAHandler DEF Handler, Steps
<1>2. Goto(r, IF account = "blocked" THEN Idle ELSE h)
  BY DEF Link
<1> HIDE DEF h
<1>3. CASE account = "blocked"
  BY <1>2, <1>3, EndMoves
<1>4. CASE account # "blocked"
  BY <1>1, <1>2, <1>4, GotoMoves
<1> QED
  BY <1>3, <1>4

LEMMA ReadForUpdateMoves ==
  ASSUME ProviderSignInTypeOK, NEW r \in Request, NEW want \in Update, ReadForUpdate(r, want)
  PROVE  /\ req' \in [Request -> Handler] /\ req'[r].pc = "update"
         /\ \A q \in Request \ {r} : req'[q] = req[q]
<1> DEFINE Differs(new, old) == IF new = old THEN Unset ELSE new
           patch == [redirects |-> Differs(want.redirects, app.redirects),
                     grants |-> Differs(want.grants, app.grants)]
           h == [Idle EXCEPT !.pc = "update", !.patch = patch]
<1>1. want \in Patch
  BY UpdatesArePatches
<1>2. patch \in Patch
  BY <1>1 DEF Patch
<1> HIDE DEF patch
<1>3. h \in Handler /\ h.pc = "update"
  BY <1>2, IdleIsAHandler DEF Idle, Handler, Steps
<1> HIDE DEF h
<1>4. Goto(r, h)
  BY DEF ReadForUpdate, h, patch
<1> QED
  BY <1>3, <1>4, GotoMoves

LEMMA ReadForDeleteMoves ==
  ASSUME ProviderSignInTypeOK, NEW r \in Request, ReadForDelete(r)
  PROVE  /\ req' \in [Request -> Handler] /\ req'[r].pc = "remove"
         /\ \A q \in Request \ {r} : req'[q] = req[q]
<1> DEFINE h == [Idle EXCEPT !.pc = "remove"]
<1>1. h \in Handler /\ h.pc = "remove"
  BY IdleIsAHandler DEF Idle, Handler, Steps
<1> HIDE DEF h
<1>2. Goto(r, h)
  BY DEF ReadForDelete, h
<1> QED
  BY <1>1, <1>2, GotoMoves

(* The row after an update is a row. *)
LEMMA UpdatedIsARow ==
  ASSUME ProviderSignInTypeOK, NEW r \in Request, FlushUpdate(r)
  PROVE  app' \in Row \cup {Gone}
<1> DEFINE patch == req[r].patch
           Or(new, old) == IF new = Unset THEN old ELSE new
           row == [redirects |-> Or(patch.redirects, app.redirects),
                   grants |-> Or(patch.grants, app.grants)]
<1>1. CASE app = Gone
  BY <1>1 DEF FlushUpdate
<1>2. CASE app # Gone
  <2>1. app \in Row /\ patch \in Patch
    BY <1>2, HandlerFields DEF ProviderSignInTypeOK
  <2>2. row \in Row
    BY <2>1 DEF Row, Patch
  <2>3. app' = row
    BY <1>2 DEF FlushUpdate
  <2> QED
    BY <2>2, <2>3
<1> QED
  BY <1>1, <1>2

(* What no step takes back. *)
LEMMA Grows ==
  ASSUME Base, [Next]_vars
  PROVE  /\ mailbox' = mailbox
         /\ raced \subseteq raced' /\ edited \subseteq edited' /\ spent \subseteq spent'
         /\ \A f \in Flow : begun[f] # NotBegun => begun'[f] = begun[f]
         /\ \A k \in Code : given[k] # None => given'[k] = given[k]
<1>0. begun \in [Flow -> Begun] /\ given \in [Code -> Flow \cup {None}]
  BY DEF Base, ProviderSignInTypeOK
<1>1. ASSUME NEW r \in Request, NEW f \in Flow, NEW u \in Redirect, NEW p \in Provider,
             BuildAuthUrl(r, f, u, p)
      PROVE  \A g \in Flow : begun[g] # NotBegun => begun'[g] = begun[g]
  BY <1>0, <1>1 DEF BuildAuthUrl
<1>2. ASSUME NEW f \in Flow, NEW k \in Code, Consent(f, k)
      PROVE  \A j \in Code : given[j] # None => given'[j] = given[j]
  BY <1>0, <1>2 DEF Consent
<1> QED
  BY <1>1, <1>2 DEF Next, vars, provider, Lapse, Consent, UpdateUserStatus, BuildAuthUrl, FindState,
     StoreState, DeleteState, Exchange, FindApp, Link, Issue, Abort, AppStep, ReadForUpdate,
     FlushUpdate, ReadForDelete, FlushDelete

LEMMA TypeStep ==
  ASSUME Base, [Next]_vars
  PROVE  ProviderSignInTypeOK'
<1> USE DEF Base
<1>1. ASSUME NEW f \in Flow, Lapse(f) PROVE ProviderSignInTypeOK'
  BY <1>1 DEF Lapse, ProviderSignInTypeOK, provider
<1>2. ASSUME NEW f \in Flow, NEW k \in Code, Consent(f, k) PROVE ProviderSignInTypeOK'
  BY <1>2 DEF Consent, ProviderSignInTypeOK
<1>3. ASSUME NEW s \in {"active", "blocked"}, UpdateUserStatus(s) PROVE ProviderSignInTypeOK'
  BY <1>3 DEF UpdateUserStatus, ProviderSignInTypeOK, provider
<1>4. ASSUME NEW r \in Request, NEW f \in Flow, NEW u \in Redirect, NEW p \in Provider,
             BuildAuthUrl(r, f, u, p)
      PROVE  ProviderSignInTypeOK'
  <2>1. req' \in [Request -> Handler] /\ begun' \in [Flow -> Begun]
    BY <1>4, BuildAuthUrlMoves
  <2> QED
    BY <2>1, <1>4 DEF BuildAuthUrl, ProviderSignInTypeOK, provider
<1>5. ASSUME NEW r \in Request, NEW f \in Flow, NEW k \in Code, FindState(r, f, k)
      PROVE  ProviderSignInTypeOK'
  <2>1. req' \in [Request -> Handler]
    BY <1>5, FindStateMoves
  <2> QED
    BY <2>1, <1>5 DEF FindState, ProviderSignInTypeOK, provider
<1>6. ASSUME NEW r \in Request, StoreState(r) PROVE ProviderSignInTypeOK'
  <2>1. req' \in [Request -> Handler] /\ req[r].flow \in Flow
    BY <1>6, EndMoves DEF StoreState, Held, Storing
  <2> QED
    BY <2>1, <1>6 DEF StoreState, ProviderSignInTypeOK, provider
<1>7. ASSUME NEW r \in Request, DeleteState(r) PROVE ProviderSignInTypeOK'
  <2>1. req' \in [Request -> Handler]
    BY <1>7, StepMoves DEF DeleteState, Steps
  <2> QED
    BY <2>1, <1>7 DEF DeleteState, ProviderSignInTypeOK, provider
<1>8. ASSUME NEW r \in Request, Exchange(r) PROVE ProviderSignInTypeOK'
  <2>1. req' \in [Request -> Handler] /\ req[r].code \in Code
    BY <1>8, ExchangeMoves DEF Exchange, Held
  <2> QED
    BY <2>1, <1>8 DEF Exchange, ProviderSignInTypeOK
<1>9. ASSUME NEW r \in Request, FindApp(r) PROVE ProviderSignInTypeOK'
  <2>1. req' \in [Request -> Handler]
    BY <1>9, StepMoves DEF FindApp, Steps
  <2> QED
    BY <2>1, <1>9 DEF FindApp, ProviderSignInTypeOK, provider
<1>10. ASSUME NEW r \in Request, Link(r) PROVE ProviderSignInTypeOK'
  <2>1. req' \in [Request -> Handler]
    BY <1>10, LinkMoves
  <2> QED
    BY <2>1, <1>10 DEF Link, ProviderSignInTypeOK, provider
<1>11. ASSUME NEW r \in Request, Issue(r) PROVE ProviderSignInTypeOK'
  <2>1. req' \in [Request -> Handler] /\ req[r].flow \in Flow
    BY <1>11, EndMoves DEF Issue, Held, Storing, Called, Signed
  <2>2. opened' \in [Flow -> Nat]
    BY <2>1, <1>11 DEF Issue, ProviderSignInTypeOK
  <2> QED
    BY <2>1, <2>2, <1>11 DEF Issue, ProviderSignInTypeOK, provider
<1>12. ASSUME NEW r \in Request, Abort(r) PROVE ProviderSignInTypeOK'
  <2>1. req' \in [Request -> Handler]
    BY <1>12, EndMoves DEF Abort
  <2> QED
    BY <2>1, <1>12 DEF Abort, ProviderSignInTypeOK, provider
<1>13. ASSUME NEW r \in Request, NEW want \in Update, ReadForUpdate(r, want)
       PROVE  ProviderSignInTypeOK'
  <2>1. req' \in [Request -> Handler]
    BY <1>13, ReadForUpdateMoves
  <2> QED
    BY <2>1, <1>13 DEF ReadForUpdate, ProviderSignInTypeOK, provider
<1>14. ASSUME NEW r \in Request, FlushUpdate(r) PROVE ProviderSignInTypeOK'
  <2>1. req' \in [Request -> Handler] /\ app' \in Row \cup {Gone}
    BY <1>14, EndMoves, UpdatedIsARow DEF FlushUpdate
  <2> QED
    BY <2>1, <1>14 DEF FlushUpdate, ProviderSignInTypeOK, provider, Changed
<1>15. ASSUME NEW r \in Request, ReadForDelete(r) PROVE ProviderSignInTypeOK'
  <2>1. req' \in [Request -> Handler]
    BY <1>15, ReadForDeleteMoves
  <2> QED
    BY <2>1, <1>15 DEF ReadForDelete, ProviderSignInTypeOK, provider
<1>16. ASSUME NEW r \in Request, FlushDelete(r) PROVE ProviderSignInTypeOK'
  <2>1. req' \in [Request -> Handler]
    BY <1>16, EndMoves DEF FlushDelete
  <2> QED
    BY <2>1, <1>16 DEF FlushDelete, ProviderSignInTypeOK, provider
<1>17. CASE UNCHANGED vars
  BY <1>17 DEF vars, ProviderSignInTypeOK
<1> QED
  BY <1>1, <1>2, <1>3, <1>4, <1>5, <1>6, <1>7, <1>8, <1>9, <1>10, <1>11, <1>12, <1>13, <1>14,
     <1>15, <1>16, <1>17 DEF Next, AppStep

LEMMA HeldStep ==
  ASSUME Base, [Next]_vars, NEW q \in Request
  PROVE  Held(q)'
<1>1. CASE req'[q] = req[q]
  BY <1>1, Grows DEF Base, Held
<1>2. ASSUME NEW r \in Request, NEW f \in Flow, NEW u \in Redirect, NEW p \in Provider,
             BuildAuthUrl(r, f, u, p)
      PROVE  Held(q)'
  BY <1>1, <1>2, BuildAuthUrlMoves DEF Base, Held
<1>3. ASSUME NEW r \in Request, NEW f \in Flow, NEW k \in Code, FindState(r, f, k)
      PROVE  Held(q)'
  <2>1. begun[f] # NotBegun
    BY <1>3 DEF FindState, Base, Known
  <2> QED
    BY <1>1, <1>3, <2>1, FindStateMoves, Grows DEF Base, Held
<1>4. ASSUME NEW r \in Request, DeleteState(r) PROVE Held(q)'
  <2>1. /\ \A p \in Request \ {r} : req'[p] = req[p]
        /\ req'[r].flow = req[r].flow /\ req'[r].code = req[r].code
    BY <1>4, StepMoves DEF DeleteState, Steps, Base
  <2> QED
    BY <1>1, <1>4, <2>1, Grows DEF Base, Held, DeleteState, Storing, Called
<1>5. ASSUME NEW r \in Request, Exchange(r) PROVE Held(q)'
  <2>1. /\ \A p \in Request \ {r} : req'[p] = req[p]
        /\ req'[r].flow = req[r].flow /\ req'[r].pc = "app" /\ req[r].pc = "exchange"
    BY <1>5, ExchangeMoves DEF Base, Exchange
  <2> QED
    BY <1>1, <2>1, Grows DEF Base, Held, Storing, Called
<1>6. ASSUME NEW r \in Request, FindApp(r) PROVE Held(q)'
  <2>1. /\ \A p \in Request \ {r} : req'[p] = req[p]
        /\ req'[r].flow = req[r].flow /\ req'[r].pc = "link"
    BY <1>6, StepMoves DEF FindApp, Steps, Base
  <2> QED
    BY <1>1, <1>6, <2>1, Grows DEF Base, Held, FindApp, Storing, Called, Signed
<1>7. ASSUME NEW r \in Request, Link(r) PROVE Held(q)'
  BY <1>1, <1>7, LinkMoves, Grows DEF Base, Held, Link, Storing, Called, Signed
<1>8. ASSUME NEW r \in Request, StoreState(r) \/ Issue(r) \/ Abort(r) \/ FlushUpdate(r) \/ FlushDelete(r)
      PROVE  Held(q)'
  <2>1. Goto(r, Idle)
    BY <1>8 DEF StoreState, Issue, Abort, FlushUpdate, FlushDelete
  <2> QED
    BY <1>1, <2>1, EndMoves DEF Base, Held, Storing, Called, Signed
<1>9. ASSUME NEW r \in Request, NEW want \in Update, ReadForUpdate(r, want) PROVE Held(q)'
  BY <1>1, <1>9, ReadForUpdateMoves DEF Base, Held, Storing, Called, Signed
<1>10. ASSUME NEW r \in Request, ReadForDelete(r) PROVE Held(q)'
  BY <1>1, <1>10, ReadForDeleteMoves DEF Base, Held, Storing, Called, Signed
<1> QED
  BY <1>1, <1>2, <1>3, <1>4, <1>5, <1>6, <1>7, <1>8, <1>9, <1>10
  DEF Next, vars, AppStep, Lapse, Consent, UpdateUserStatus

LEMMA KnownStep ==
  ASSUME Base, [Next]_vars, NEW f \in Flow
  PROVE  Known(f)'
<1>1. CASE begun[f] # NotBegun
  BY <1>1, Grows DEF Known
<1>2. ASSUME begun[f] = NotBegun, NEW r \in Request, StoreState(r) \/ Issue(r)
      PROVE  Known(f)'
  <2>1. req[r].flow # f /\ req[r].flow \in Flow
    BY <1>2 DEF StoreState, Issue, Base, Held, Storing, Called, Signed
  <2> QED
    BY <1>2, <2>1 DEF StoreState, Issue, Base, Known, ProviderSignInTypeOK
<1>3. CASE f \notin live' /\ opened'[f] = 0
  BY <1>3 DEF Known
<1> QED
  BY <1>1, <1>2, <1>3 DEF Base, Known, Next, vars, AppStep, Lapse, Consent, UpdateUserStatus,
     BuildAuthUrl, FindState, DeleteState, Exchange, FindApp, Link, Abort, ReadForUpdate,
     FlushUpdate, ReadForDelete, FlushDelete

LEMMA BaseInit == Init => Base
  BY IdleIsAHandler DEF Init, Base, Held, Known, Storing, Called, Signed, ProviderSignInTypeOK, Row,
     Begun

LEMMA BaseStep == Base /\ [Next]_vars => Base'
  BY TypeStep, HeldStep, KnownStep DEF Base

LEMMA BaseInvariant == Spec => []Base
  BY BaseInit, BaseStep, PTL DEF Spec

(* Every value the rows, the flows and the handlers reach is one the code   *)
(* can store, whatever an update asks for.                                  *)
THEOREM TypeCorrect == Spec => []ProviderSignInTypeOK
<1>1. Base => ProviderSignInTypeOK
  BY DEF Base
<1> QED
  BY <1>1, BaseInvariant, PTL

-----------------------------------------------------------------------------
(* A flow opens once *)

Storer(r, f) == req[r].pc = "store" /\ req[r].flow = f
Callback(r, f) == req[r].pc \in Called /\ req[r].flow = f

(* Until the state of a flow is stored, the handler that will has it alone. *)
Fresh(f) ==
  \A q, r \in Request :
    Storer(r, f) => /\ f \notin live /\ opened[f] = 0
                    /\ Storer(q, f) \/ Callback(q, f) => q = r

(* A flow nobody raced for has one callback, which takes the state away     *)
(* before it goes on; and is over once it opened.                           *)
Once(f) ==
  /\ \A q, r \in Request : Callback(q, f) /\ Callback(r, f) => q = r
  /\ \A r \in Request : Callback(r, f) =>
       opened[f] = 0 /\ (req[r].pc # "delete" => f \notin live)
  /\ opened[f] > 0 => f \notin live
  /\ opened[f] <= 1

FlowInv ==
  /\ Base
  /\ \A f \in Flow : Fresh(f)
  /\ \A f \in Flow \ raced : Once(f)

(* No handler takes the flow up in this step. *)
NobodyNew(f) ==
  \A r \in Request : /\ Storer(r, f)' => Storer(r, f)
                     /\ Callback(r, f)' => Callback(r, f)

LEMMA FreshStays ==
  ASSUME NEW f \in Flow, Fresh(f), NobodyNew(f), live' \subseteq live, opened'[f] = opened[f]
  PROVE  Fresh(f)'
  BY DEF Fresh, NobodyNew

LEMMA OnceStays ==
  ASSUME NEW f \in Flow, Once(f), NobodyNew(f), live' \subseteq live, opened'[f] = opened[f],
         \A r \in Request : Callback(r, f) /\ req[r].pc = "delete" /\ req'[r].pc # "delete" =>
                             f \notin live' \/ ~Callback(r, f)'
  PROVE  Once(f)'
<1>1. ASSUME NEW r \in Request, Callback(r, f)'
      PROVE  opened'[f] = 0 /\ (req'[r].pc # "delete" => f \notin live')
  BY <1>1 DEF Once, NobodyNew
<1>2. \A q, r \in Request : Callback(q, f)' /\ Callback(r, f)' => q = r
  BY DEF Once, NobodyNew
<1> QED
  BY <1>1, <1>2 DEF Once

(* A handler that has no flow after its step. *)
LEMMA NobodyNewLeaves ==
  ASSUME Base, NEW r \in Request, NEW f \in Flow, req'[r].pc \notin Storing,
         \A q \in Request \ {r} : req'[q] = req[q]
  PROVE  NobodyNew(f) /\ ~Callback(r, f)'
  BY DEF NobodyNew, Storer, Callback, Storing

(* A callback that goes on with its flow. *)
LEMMA NobodyNewGoesOn ==
  ASSUME Base, NEW r \in Request, NEW f \in Flow, req[r].pc \in Called,
         req'[r].pc \in Called, req'[r].flow = req[r].flow,
         \A q \in Request \ {r} : req'[q] = req[q]
  PROVE  NobodyNew(f)
  BY DEF NobodyNew, Storer, Callback, Called, Signed

(* A step that leaves the state entries and what flows opened alone: one    *)
(* handler leaves, or goes on after the deletion, or none moves.            *)
LEMMA FlowQuiet ==
  ASSUME FlowInv, NEW f \in Flow, live' \subseteq live, opened'[f] = opened[f], raced \subseteq raced',
         \/ UNCHANGED req
         \/ \E r \in Request :
              /\ \A q \in Request \ {r} : req'[q] = req[q]
              /\ \/ req'[r].pc \notin Storing
                 \/ /\ req[r].pc \in Called /\ req'[r].pc \in Called
                    /\ req'[r].flow = req[r].flow
                    /\ req[r].pc = "delete" => req[r].flow \notin live'
  PROVE  Fresh(f)' /\ (f \notin raced' => Once(f)')
<1>0. Base /\ Fresh(f) /\ (f \notin raced' => Once(f))
  BY DEF FlowInv
<1>1. CASE UNCHANGED req
  <2>1. NobodyNew(f) /\ \A r \in Request : req'[r].pc = req[r].pc
    BY <1>1 DEF NobodyNew, Storer, Callback
  <2> QED
    BY <1>0, <2>1, FreshStays, OnceStays
<1>2. ASSUME NEW r \in Request, \A q \in Request \ {r} : req'[q] = req[q],
             req'[r].pc \notin Storing
      PROVE  Fresh(f)' /\ (f \notin raced' => Once(f)')
  <2>1. NobodyNew(f) /\ ~Callback(r, f)'
    BY <1>0, <1>2, NobodyNewLeaves
  <2> QED
    BY <1>0, <1>2, <2>1, FreshStays, OnceStays
<1>3. ASSUME NEW r \in Request, \A q \in Request \ {r} : req'[q] = req[q],
             req[r].pc \in Called, req'[r].pc \in Called, req'[r].flow = req[r].flow,
             req[r].pc = "delete" => req[r].flow \notin live'
      PROVE  Fresh(f)' /\ (f \notin raced' => Once(f)')
  <2>1. NobodyNew(f)
    BY <1>0, <1>3, NobodyNewGoesOn
  <2>2. \A q \in Request : Callback(q, f) /\ req[q].pc = "delete" /\ req'[q].pc # "delete" =>
                            f \notin live'
    BY <1>3 DEF Callback
  <2> QED
    BY <1>0, <2>1, <2>2, FreshStays, OnceStays
<1> QED
  BY <1>1, <1>2, <1>3

LEMMA BuildKeepsFlows ==
  ASSUME FlowInv, NEW f \in Flow, NEW r \in Request, NEW g \in Flow, NEW u \in Redirect,
         NEW p \in Provider, BuildAuthUrl(r, g, u, p)
  PROVE  Fresh(f)' /\ (f \notin raced' => Once(f)')
<1>0. Base /\ Fresh(f) /\ (f \notin raced => Once(f)) /\ raced' = raced
  BY DEF FlowInv, BuildAuthUrl
<1>1. /\ req'[r].pc = "store" /\ req'[r].flow = g /\ \A q \in Request \ {r} : req'[q] = req[q]
      /\ live' = live /\ opened' = opened /\ begun[g] = NotBegun
  BY <1>0, BuildAuthUrlMoves DEF Base, BuildAuthUrl
<1>2. CASE f # g
  <2>1. NobodyNew(f)
    BY <1>1, <1>2 DEF NobodyNew, Storer, Callback, Called, Signed
  <2>2. ~Callback(r, f)'
    BY <1>1 DEF Callback, Called, Signed
  <2> QED
    BY <1>0, <1>1, <2>1, <2>2, FreshStays, OnceStays
<1>3. CASE f = g
  <2>1. \A q \in Request : ~Storer(q, f) /\ ~Callback(q, f)
    BY <1>0, <1>1, <1>3 DEF Base, Held, Storing, Storer, Callback
  <2>2. \A q \in Request : ~Callback(q, f)' /\ (Storer(q, f)' => q = r)
    BY <1>1, <2>1 DEF Storer, Callback, Called, Signed
  <2>3. f \notin live' /\ opened'[f] = 0
    BY <1>0, <1>1, <1>3 DEF Base, Known
  <2> QED
    BY <2>2, <2>3 DEF Fresh, Once
<1> QED
  BY <1>2, <1>3

LEMMA StoreKeepsFlows ==
  ASSUME FlowInv, NEW f \in Flow, NEW r \in Request, StoreState(r)
  PROVE  Fresh(f)' /\ (f \notin raced' => Once(f)')
<1>0. Base /\ Fresh(f) /\ (f \notin raced => Once(f)) /\ raced' = raced
  BY DEF FlowInv, StoreState
<1>1. /\ req'[r].pc = "idle" /\ \A q \in Request \ {r} : req'[q] = req[q]
      /\ live' = live \cup {req[r].flow} /\ opened' = opened
  BY <1>0, EndMoves DEF Base, StoreState
<1>2. NobodyNew(f) /\ ~Callback(r, f)' /\ ~Storer(r, f)'
  BY <1>0, <1>1, NobodyNewLeaves DEF Storing, Called, Signed, Storer
<1>3. CASE req[r].flow # f
  <2>1. Fresh(f)'
    BY <1>0, <1>1, <1>2, <1>3 DEF Fresh, NobodyNew
  <2>2. f \in live' <=> f \in live
    BY <1>1, <1>3
  <2>3. ASSUME f \notin raced' PROVE Once(f)'
    <3>1. \A q \in Request : Callback(q, f)' => Callback(q, f) /\ req'[q] = req[q]
      BY <1>1, <1>2 DEF NobodyNew
    <3> QED
      BY <1>0, <1>1, <2>2, <2>3, <3>1 DEF Once
  <2> QED
    BY <2>1, <2>3
<1>4. CASE req[r].flow = f
  <2>1. Storer(r, f)
    BY <1>4 DEF Storer, StoreState
  <2>2. opened[f] = 0 /\ \A q \in Request : Storer(q, f) \/ Callback(q, f) => q = r
    BY <1>0, <2>1 DEF Fresh
  <2>3. \A q \in Request : ~Storer(q, f)' /\ ~Callback(q, f)'
    BY <1>2, <2>2 DEF NobodyNew
  <2> QED
    BY <1>1, <2>2, <2>3 DEF Fresh, Once
<1> QED
  BY <1>3, <1>4

LEMMA FindKeepsFlows ==
  ASSUME FlowInv, NEW f \in Flow, NEW r \in Request, NEW g \in Flow, NEW k \in Code,
         FindState(r, g, k)
  PROVE  Fresh(f)' /\ (f \notin raced' => Once(f)')
<1>0. Base /\ Fresh(f) /\ (f \notin raced => Once(f)) /\ raced \subseteq raced'
  BY DEF FlowInv, FindState
<1>1. /\ req'[r].pc = "delete" /\ req'[r].flow = g /\ \A q \in Request \ {r} : req'[q] = req[q]
      /\ live' = live /\ opened' = opened /\ g \in live /\ req[r].pc = "idle"
  BY <1>0, FindStateMoves DEF Base, FindState
<1>2. ~Storer(r, f)'
  BY <1>1 DEF Storer
<1>3. CASE f # g
  <2>1. NobodyNew(f)
    BY <1>1, <1>2, <1>3 DEF NobodyNew, Storer, Callback
  <2>2. ~Callback(r, f)'
    BY <1>1, <1>3 DEF Callback
  <2> QED
    BY <1>0, <1>1, <2>1, <2>2, FreshStays, OnceStays
<1>4. CASE f = g
  <2>1. \A q \in Request : ~Storer(q, f)
    BY <1>0, <1>1, <1>4 DEF Fresh
  <2>2. Fresh(f)'
    BY <1>1, <1>2, <2>1 DEF Fresh, Storer
  <2>3. ASSUME f \notin raced' PROVE Once(f)'
    <3>1. \A q \in Request : ~(req[q].pc = "delete" /\ req[q].flow = f)
      BY <2>3, <1>4 DEF FindState
    <3>2. \A q \in Request : ~Callback(q, f)
      BY <1>0, <1>1, <1>4, <2>3, <3>1 DEF Once, Callback
    <3>3. \A q \in Request : Callback(q, f)' => q = r
      BY <1>1, <3>2 DEF Callback
    <3>4. opened[f] <= 1 /\ ~(opened[f] > 0) /\ opened[f] \in Nat
      BY <1>0, <1>1, <1>4, <2>3 DEF Once, Base, ProviderSignInTypeOK
    <3> QED
      BY <1>1, <3>3, <3>4 DEF Once
  <2> QED
    BY <2>2, <2>3
<1> QED
  BY <1>3, <1>4

LEMMA IssueKeepsFlows ==
  ASSUME FlowInv, NEW f \in Flow, NEW r \in Request, Issue(r)
  PROVE  Fresh(f)' /\ (f \notin raced' => Once(f)')
<1>0. Base /\ Fresh(f) /\ (f \notin raced => Once(f)) /\ raced' = raced
  BY DEF FlowInv, Issue
<1>1. /\ req'[r].pc = "idle" /\ \A q \in Request \ {r} : req'[q] = req[q]
      /\ live' = live /\ opened' = [opened EXCEPT ![req[r].flow] = @ + 1]
      /\ opened \in [Flow -> Nat]
  BY <1>0, EndMoves DEF Base, Issue, ProviderSignInTypeOK
<1>2. NobodyNew(f) /\ ~Callback(r, f)'
  BY <1>0, <1>1, NobodyNewLeaves DEF Storing, Called, Signed
<1>3. CASE req[r].flow # f
  <2>1. opened'[f] = opened[f]
    BY <1>1, <1>3
  <2> QED
    BY <1>0, <1>1, <1>2, <2>1, FreshStays, OnceStays
<1>4. CASE req[r].flow = f
  <2>1. Callback(r, f) /\ req[r].pc # "delete"
    BY <1>4 DEF Callback, Called, Signed, Issue
  <2>2. \A q \in Request : ~Storer(q, f)'
    BY <1>0, <1>2, <2>1 DEF Fresh, NobodyNew, Storer, Callback, Called, Signed
  <2>3. Fresh(f)'
    BY <2>2 DEF Fresh
  <2>4. ASSUME f \notin raced' PROVE Once(f)'
    <3>1. f \notin live /\ opened[f] = 0 /\ \A q \in Request : Callback(q, f) => q = r
      BY <1>0, <2>1, <2>4 DEF Once
    <3>2. opened'[f] = 1 /\ \A q \in Request : ~Callback(q, f)'
      BY <1>1, <1>2, <1>4, <3>1 DEF NobodyNew
    <3> QED
      BY <1>1, <3>1, <3>2 DEF Once
  <2> QED
    BY <2>3, <2>4
<1> QED
  BY <1>3, <1>4

LEMMA FlowStep ==
  ASSUME FlowInv, [Next]_vars, NEW f \in Flow
  PROVE  Fresh(f)' /\ (f \notin raced' => Once(f)')
<1>0. Base /\ raced \subseteq raced'
  BY Grows DEF FlowInv
<1>1. ASSUME NEW g \in Flow, Lapse(g) PROVE Fresh(f)' /\ (f \notin raced' => Once(f)')
  BY <1>0, <1>1, FlowQuiet DEF Lapse
<1>2. ASSUME NEW g \in Flow, NEW k \in Code, Consent(g, k)
      PROVE  Fresh(f)' /\ (f \notin raced' => Once(f)')
  BY <1>0, <1>2, FlowQuiet DEF Consent
<1>3. ASSUME NEW s \in {"active", "blocked"}, UpdateUserStatus(s)
      PROVE  Fresh(f)' /\ (f \notin raced' => Once(f)')
  BY <1>0, <1>3, FlowQuiet DEF UpdateUserStatus
<1>4. ASSUME NEW r \in Request, DeleteState(r) PROVE Fresh(f)' /\ (f \notin raced' => Once(f)')
  <2>1. /\ req'[r].pc = "exchange" /\ req'[r].flow = req[r].flow
        /\ \A q \in Request \ {r} : req'[q] = req[q]
    BY <1>0, <1>4, StepMoves DEF Base, DeleteState, Steps
  <2> QED
    BY <1>0, <1>4, <2>1, FlowQuiet DEF DeleteState, Called
<1>5. ASSUME NEW r \in Request, Exchange(r) PROVE Fresh(f)' /\ (f \notin raced' => Once(f)')
  <2>1. /\ req'[r].pc = "app" /\ req'[r].flow = req[r].flow
        /\ \A q \in Request \ {r} : req'[q] = req[q]
        /\ req[r].pc = "exchange" /\ live' = live /\ opened' = opened
    BY <1>0, <1>5, ExchangeMoves DEF Base, Exchange
  <2> QED
    BY <1>0, <2>1, FlowQuiet DEF Called, Signed
<1>6. ASSUME NEW r \in Request, FindApp(r) PROVE Fresh(f)' /\ (f \notin raced' => Once(f)')
  <2>1. /\ req'[r].pc = "link" /\ req'[r].flow = req[r].flow
        /\ \A q \in Request \ {r} : req'[q] = req[q]
    BY <1>0, <1>6, StepMoves DEF Base, FindApp, Steps
  <2> QED
    BY <1>0, <1>6, <2>1, FlowQuiet DEF FindApp, Called, Signed
<1>7. ASSUME NEW r \in Request, Link(r) PROVE Fresh(f)' /\ (f \notin raced' => Once(f)')
  <2>1. /\ \/ req'[r].pc = "idle"
           \/ req'[r].pc = "issue" /\ req'[r].flow = req[r].flow
        /\ \A q \in Request \ {r} : req'[q] = req[q]
    BY <1>0, <1>7, LinkMoves DEF Base
  <2> QED
    BY <1>0, <1>7, <2>1, FlowQuiet DEF Link, Storing, Called, Signed
<1>8. ASSUME NEW r \in Request, Abort(r) \/ FlushUpdate(r) \/ FlushDelete(r)
      PROVE  Fresh(f)' /\ (f \notin raced' => Once(f)')
  <2>1. Goto(r, Idle) /\ live' = live /\ opened' = opened
    BY <1>8 DEF Abort, FlushUpdate, FlushDelete
  <2>2. req'[r].pc = "idle" /\ \A q \in Request \ {r} : req'[q] = req[q]
    BY <1>0, <2>1, EndMoves DEF Base
  <2> QED
    BY <1>0, <2>1, <2>2, FlowQuiet DEF Storing, Called, Signed
<1>9. ASSUME NEW r \in Request, NEW want \in Update, ReadForUpdate(r, want)
      PROVE  Fresh(f)' /\ (f \notin raced' => Once(f)')
  <2>1. req'[r].pc = "update" /\ \A q \in Request \ {r} : req'[q] = req[q]
    BY <1>0, <1>9, ReadForUpdateMoves DEF Base
  <2> QED
    BY <1>0, <1>9, <2>1, FlowQuiet DEF ReadForUpdate, Storing, Called, Signed
<1>10. ASSUME NEW r \in Request, ReadForDelete(r)
       PROVE  Fresh(f)' /\ (f \notin raced' => Once(f)')
  <2>1. req'[r].pc = "remove" /\ \A q \in Request \ {r} : req'[q] = req[q]
    BY <1>0, <1>10, ReadForDeleteMoves DEF Base
  <2> QED
    BY <1>0, <1>10, <2>1, FlowQuiet DEF ReadForDelete, Storing, Called, Signed
<1>11. CASE UNCHANGED vars
  BY <1>0, <1>11, FlowQuiet DEF vars
<1> QED
  BY <1>1, <1>2, <1>3, <1>4, <1>5, <1>6, <1>7, <1>8, <1>9, <1>10, <1>11, BuildKeepsFlows,
     StoreKeepsFlows, FindKeepsFlows, IssueKeepsFlows DEF Next, AppStep

(* However often the callback of a flow is delivered and its URL consented  *)
(* to, and whatever lapses or dies on the way, the flow signs the person in *)
(* once, unless two callbacks found its state before either deleted it.     *)
THEOREM OpensOnce == Spec => []FlowOpensOnceUnlessRaced
<1>1. Init => FlowInv
  <2> SUFFICES ASSUME Init PROVE FlowInv
    OBVIOUS
  <2>1. \A f \in Flow : opened[f] = 0 /\ f \notin live
    BY DEF Init
  <2>2. \A f \in Flow, r \in Request : ~Storer(r, f) /\ ~Callback(r, f)
    BY IdleIsAHandler DEF Init, Storer, Callback, Called, Signed
  <2> QED
    BY <2>1, <2>2, BaseInit DEF FlowInv, Fresh, Once
<1>2. FlowInv /\ [Next]_vars => FlowInv'
  BY FlowStep, BaseStep, Grows DEF FlowInv
<1>3. FlowInv => FlowOpensOnceUnlessRaced
  BY DEF FlowInv, Once, FlowOpensOnceUnlessRaced
<1> QED
  BY <1>1, <1>2, <1>3, PTL DEF Spec

-----------------------------------------------------------------------------
(* Token sets against consents *)

InHand(f) == {r \in Request : req[r].pc \in Signed /\ req[r].flow = f}
Consents(f) == {k \in spent : given[k] = f}

(* Each code of the flow that was exchanged has been turned into a token    *)
(* set, is in one handler's hand, or went to nothing.                       *)
Paid(f) ==
  /\ IsFiniteSet(InHand(f))
  /\ opened[f] + Cardinality(InHand(f)) <= Cardinality(Consents(f))

ConsentInv ==
  /\ Base
  /\ IsFiniteSet(spent) /\ \A k \in spent : given[k] # None
  /\ \A f \in Flow : Paid(f)

(* Consents only add up: what was exchanged was given for the same flow.    *)
LEMMA ConsentsKept ==
  ASSUME ConsentInv, [Next]_vars, NEW f \in Flow
  PROVE  Consents(f) \subseteq Consents(f)'
<1>1. spent \subseteq Code
  BY DEF ConsentInv, Base, ProviderSignInTypeOK
<1> QED
  BY <1>1, Grows DEF ConsentInv, Consents

LEMMA SpentStep ==
  ASSUME ConsentInv, [Next]_vars
  PROVE  IsFiniteSet(spent') /\ \A k \in spent' : given'[k] # None
<1>0. Base /\ IsFiniteSet(spent) /\ spent \subseteq Code /\ \A k \in spent : given[k] # None
  BY DEF ConsentInv, Base, ProviderSignInTypeOK
<1>1. ASSUME NEW r \in Request, Exchange(r)
      PROVE  IsFiniteSet(spent') /\ \A k \in spent' : given'[k] # None
  <2>1. /\ spent' = spent \cup {req[r].code} /\ given' = given
        /\ given[req[r].code] = req[r].flow
    BY <1>1 DEF Exchange
  <2>2. req[r].flow \in Flow
    BY <1>0, <1>1 DEF Base, Held, Exchange, Storing, Called
  <2> QED
    BY <1>0, <2>1, <2>2, FS_AddElement, NoneIsNoValue
<1>2. CASE spent' = spent
  BY <1>0, <1>2, Grows
<1> QED
  BY <1>1, <1>2 DEF Next, vars, provider, Lapse, Consent, UpdateUserStatus, BuildAuthUrl, FindState,
     StoreState, DeleteState, FindApp, Link, Issue, Abort, AppStep, ReadForUpdate,
     FlushUpdate, ReadForDelete, FlushDelete

(* A step that gives nobody an exchanged consent. *)
LEMMA PaidStays ==
  ASSUME ConsentInv, [Next]_vars, NEW f \in Flow, opened'[f] = opened[f],
         InHand(f)' \subseteq InHand(f)
  PROVE  Paid(f)'
<1>1. Paid(f) /\ IsFiniteSet(spent') /\ opened[f] \in Nat
  BY SpentStep DEF ConsentInv, Base, ProviderSignInTypeOK
<1>2. /\ IsFiniteSet(InHand(f)') /\ Cardinality(InHand(f)') <= Cardinality(InHand(f))
      /\ Cardinality(InHand(f)') \in Nat /\ Cardinality(InHand(f)) \in Nat
  BY <1>1, FS_Subset, FS_CardinalityType DEF Paid
<1>3. Consents(f)' \subseteq spent'
  BY DEF Consents
<1>4. IsFiniteSet(Consents(f)') /\ Cardinality(Consents(f)') \in Nat
  BY <1>1, <1>3, FS_Subset, FS_CardinalityType
<1>5. Consents(f) \subseteq Consents(f)'
  BY ConsentsKept
<1>6. IsFiniteSet(Consents(f)) /\ Cardinality(Consents(f)) <= Cardinality(Consents(f)')
      /\ Cardinality(Consents(f)) \in Nat
  BY <1>4, <1>5, FS_Subset, FS_CardinalityType
<1> QED
  BY <1>1, <1>2, <1>4, <1>6 DEF Paid

(* A handler that goes on with its consent, or has none after its step.     *)
LEMMA HandStays ==
  ASSUME NEW f \in Flow, NEW r \in Request, \A q \in Request \ {r} : req'[q] = req[q],
         \/ req'[r].pc \notin Signed
         \/ req[r].pc \in Signed /\ req'[r].flow = req[r].flow
  PROVE  InHand(f)' \subseteq InHand(f)
  BY DEF InHand

LEMMA ExchangePays ==
  ASSUME ConsentInv, NEW f \in Flow, NEW r \in Request, Exchange(r)
  PROVE  Paid(f)'
<1>0. Base /\ Paid(f) /\ IsFiniteSet(spent) /\ [Next]_vars
  BY DEF ConsentInv, Next
<1>1. /\ req'[r].pc = "app" /\ req'[r].flow = req[r].flow /\ req[r].pc = "exchange"
      /\ \A q \in Request \ {r} : req'[q] = req[q]
      /\ spent' = spent \cup {req[r].code} /\ req[r].code \notin spent
      /\ given' = given /\ given[req[r].code] = req[r].flow /\ opened' = opened
  BY <1>0, ExchangeMoves DEF Base, Exchange
<1>2. CASE req[r].flow # f
  <2>1. InHand(f)' \subseteq InHand(f)
    BY <1>1, <1>2 DEF InHand
  <2> QED
    BY <1>0, <1>1, <2>1, PaidStays
<1>3. CASE req[r].flow = f
  <2>1. InHand(f)' = InHand(f) \cup {r} /\ r \notin InHand(f)
    BY <1>1, <1>3 DEF InHand, Signed
  <2>2. Consents(f)' = Consents(f) \cup {req[r].code} /\ req[r].code \notin Consents(f)
    BY <1>1, <1>3 DEF Consents
  <2>3. Consents(f) \subseteq spent
    BY DEF Consents
  <2>4. IsFiniteSet(Consents(f)) /\ IsFiniteSet(InHand(f))
    BY <1>0, <2>3, FS_Subset DEF Paid
  <2>5. /\ IsFiniteSet(InHand(f)') /\ Cardinality(InHand(f)') = Cardinality(InHand(f)) + 1
        /\ Cardinality(InHand(f)) \in Nat
    BY <2>1, <2>4, FS_AddElement, FS_CardinalityType
  <2>6. /\ Cardinality(Consents(f)') = Cardinality(Consents(f)) + 1
        /\ Cardinality(Consents(f)) \in Nat
    BY <2>2, <2>4, FS_AddElement, FS_CardinalityType
  <2>7. opened[f] \in Nat
    BY <1>0 DEF Base, ProviderSignInTypeOK
  <2> QED
    BY <1>0, <1>1, <2>5, <2>6, <2>7 DEF Paid
<1> QED
  BY <1>2, <1>3

LEMMA IssuePays ==
  ASSUME ConsentInv, NEW f \in Flow, NEW r \in Request, Issue(r)
  PROVE  Paid(f)'
<1>0. Base /\ Paid(f) /\ [Next]_vars
  BY DEF ConsentInv, Next
<1>1. /\ req'[r].pc = "idle" /\ req[r].pc = "issue"
      /\ \A q \in Request \ {r} : req'[q] = req[q]
      /\ opened' = [opened EXCEPT ![req[r].flow] = @ + 1] /\ opened \in [Flow -> Nat]
      /\ spent' = spent /\ given' = given
  BY <1>0, EndMoves DEF Base, Issue, ProviderSignInTypeOK, provider
<1>2. CASE req[r].flow # f
  <2>1. InHand(f)' \subseteq InHand(f) /\ opened'[f] = opened[f]
    BY <1>1, <1>2, HandStays DEF Signed
  <2> QED
    BY <1>0, <2>1, PaidStays
<1>3. CASE req[r].flow = f
  <2>1. InHand(f)' = InHand(f) \ {r} /\ r \in InHand(f)
    BY <1>1, <1>3 DEF InHand, Signed
  <2>2. /\ IsFiniteSet(InHand(f)') /\ Cardinality(InHand(f)') = Cardinality(InHand(f)) - 1
        /\ Cardinality(InHand(f)) \in Nat
    BY <1>0, <2>1, FS_RemoveElement, FS_CardinalityType DEF Paid
  <2>3. Consents(f)' = Consents(f) /\ opened'[f] = opened[f] + 1 /\ opened[f] \in Nat
    BY <1>1, <1>3 DEF Consents
  <2>4. opened[f] + 1 + (Cardinality(InHand(f)) - 1) = opened[f] + Cardinality(InHand(f))
    BY <2>2, <2>3
  <2> QED
    BY <1>0, <2>2, <2>3, <2>4 DEF Paid
<1> QED
  BY <1>2, <1>3

LEMMA PaidStep ==
  ASSUME ConsentInv, [Next]_vars, NEW f \in Flow
  PROVE  Paid(f)'
<1>0. Base
  BY DEF ConsentInv
<1>1. CASE UNCHANGED <<req, opened>>
  BY <1>1, PaidStays DEF InHand
<1>2. ASSUME NEW r \in Request, NEW g \in Flow, NEW u \in Redirect, NEW p \in Provider,
             BuildAuthUrl(r, g, u, p)
      PROVE  Paid(f)'
  BY <1>0, <1>2, BuildAuthUrlMoves, HandStays, PaidStays DEF Base, BuildAuthUrl, Signed
<1>3. ASSUME NEW r \in Request, NEW g \in Flow, NEW k \in Code, FindState(r, g, k) PROVE Paid(f)'
  BY <1>0, <1>3, FindStateMoves, HandStays, PaidStays DEF Base, FindState, Signed
<1>4. ASSUME NEW r \in Request, DeleteState(r) PROVE Paid(f)'
  BY <1>0, <1>4, StepMoves, HandStays, PaidStays DEF Base, DeleteState, Signed, Steps
<1>5. ASSUME NEW r \in Request, FindApp(r) PROVE Paid(f)'
  <2>1. req'[r].flow = req[r].flow /\ \A q \in Request \ {r} : req'[q] = req[q]
    BY <1>0, <1>5, StepMoves DEF Base, FindApp, Steps
  <2> QED
    BY <1>5, <2>1, HandStays, PaidStays DEF FindApp, Signed
<1>6. ASSUME NEW r \in Request, Link(r) PROVE Paid(f)'
  <2>1. /\ req'[r].pc = "idle" \/ req'[r].flow = req[r].flow
        /\ \A q \in Request \ {r} : req'[q] = req[q]
    BY <1>0, <1>6, LinkMoves DEF Base
  <2> QED
    BY <1>6, <2>1, HandStays, PaidStays DEF Link, Signed
<1>7. ASSUME NEW r \in Request, StoreState(r) \/ Abort(r) \/ FlushUpdate(r) \/ FlushDelete(r)
      PROVE  Paid(f)'
  <2>1. Goto(r, Idle) /\ opened' = opened
    BY <1>7 DEF StoreState, Abort, FlushUpdate, FlushDelete
  <2> QED
    BY <1>0, <2>1, EndMoves, HandStays, PaidStays DEF Base, Signed
<1>8. ASSUME NEW r \in Request, NEW want \in Update, ReadForUpdate(r, want) PROVE Paid(f)'
  BY <1>0, <1>8, ReadForUpdateMoves, HandStays, PaidStays DEF Base, ReadForUpdate, Signed
<1>9. ASSUME NEW r \in Request, ReadForDelete(r) PROVE Paid(f)'
  BY <1>0, <1>9, ReadForDeleteMoves, HandStays, PaidStays DEF Base, ReadForDelete, Signed
<1> QED
  BY <1>1, <1>2, <1>3, <1>4, <1>5, <1>6, <1>7, <1>8, <1>9, ExchangePays, IssuePays
  DEF Next, vars, AppStep, Lapse, Consent, UpdateUserStatus

(* A flow hands out no more token sets than codes were given for it and     *)
(* exchanged, even where callbacks race and codes and states are mixed.     *)
THEOREM TokensNeedConsent == Spec => []OneTokenSetPerConsent
<1>1. Init => ConsentInv
  <2> SUFFICES ASSUME Init PROVE ConsentInv
    OBVIOUS
  <2>1. \A f \in Flow : InHand(f) = {} /\ Consents(f) = {} /\ opened[f] = 0
    BY IdleIsAHandler DEF Init, InHand, Consents, Signed
  <2>2. IsFiniteSet({}) /\ Cardinality({}) = 0
    BY FS_EmptySet
  <2>3. \A f \in Flow : Paid(f)
    BY <2>1, <2>2 DEF Paid
  <2>4. spent = {}
    BY DEF Init
  <2> QED
    BY <2>2, <2>3, <2>4, BaseInit DEF ConsentInv
<1>2. ConsentInv /\ [Next]_vars => ConsentInv'
  BY BaseStep, SpentStep, PaidStep DEF ConsentInv
<1>3. ConsentInv => OneTokenSetPerConsent
  <2> SUFFICES ASSUME ConsentInv, NEW f \in Flow PROVE opened[f] <= Cardinality(Consents(f))
    BY DEF OneTokenSetPerConsent, Consents
  <2>1. Paid(f) /\ opened[f] \in Nat /\ IsFiniteSet(spent) /\ Consents(f) \subseteq spent
    BY DEF ConsentInv, Base, ProviderSignInTypeOK, Consents
  <2>2. Cardinality(InHand(f)) \in Nat /\ Cardinality(Consents(f)) \in Nat
    BY <2>1, FS_CardinalityType, FS_Subset DEF Paid
  <2> QED
    BY <2>1, <2>2 DEF Paid
<1> QED
  BY <1>1, <1>2, <1>3, PTL DEF Spec

-----------------------------------------------------------------------------
(* What the provider said *)

(* The address handler r signs in with is as the provider has it.           *)
Truthful(r) ==
  req[r].pc \in {"app", "link"} =>
    /\ req[r].claims.verified => req[r].claims.email \in Vouched
    /\ ~req[r].claims.verified /\ For(req[r].flow) = "github" => Vouched = {}

ClaimsInv == Base /\ \A r \in Request : Truthful(r)

LEMMA TruthfulStep ==
  ASSUME ClaimsInv, [Next]_vars, NEW q \in Request
  PROVE  Truthful(q)'
<1>0. Base /\ Truthful(q) /\ Vouched' = Vouched
  BY Grows DEF ClaimsInv, Vouched, Verified
<1>1. CASE req'[q].pc \notin {"app", "link"}
  BY <1>1 DEF Truthful
<1>2. CASE /\ req[q].pc \in {"app", "link"}
           /\ req'[q].flow = req[q].flow /\ req'[q].claims = req[q].claims
  <2>1. begun'[req[q].flow] = begun[req[q].flow]
    BY <1>0, <1>2, Grows DEF Base, Held, Storing, Called, Signed
  <2> QED
    BY <1>0, <1>2, <2>1 DEF Truthful, For
<1>3. CASE req'[q] = req[q]
  BY <1>1, <1>2, <1>3
<1>4. CASE Exchange(q)
  <2>1. /\ req'[q].flow = req[q].flow /\ req'[q].claims \in ClaimsFor(For(req[q].flow))
        /\ begun' = begun
    BY <1>0, <1>4, ExchangeMoves DEF Base, Exchange
  <2>2. /\ req'[q].claims.verified => req'[q].claims.email \in Vouched
        /\ ~req'[q].claims.verified /\ For(req[q].flow) = "github" => Vouched = {}
    BY <1>0, <2>1, ClaimsAreTrue DEF Base
  <2> QED
    BY <1>0, <2>1, <2>2 DEF Truthful, For
<1>5. CASE FindApp(q)
  BY <1>0, <1>2, <1>5, StepMoves DEF Base, FindApp, Steps
<1>6. ASSUME NEW r \in Request, r # q, Exchange(r) \/ FindApp(r) PROVE Truthful(q)'
  BY <1>0, <1>3, <1>6, ExchangeMoves, StepMoves DEF Base, FindApp, Steps
<1>7. ASSUME NEW r \in Request, NEW f \in Flow, NEW u \in Redirect, NEW p \in Provider,
             BuildAuthUrl(r, f, u, p)
      PROVE  Truthful(q)'
  BY <1>0, <1>1, <1>3, <1>7, BuildAuthUrlMoves DEF Base
<1>8. ASSUME NEW r \in Request, NEW f \in Flow, NEW k \in Code, FindState(r, f, k)
      PROVE  Truthful(q)'
  BY <1>0, <1>1, <1>3, <1>8, FindStateMoves DEF Base
<1>9. ASSUME NEW r \in Request, DeleteState(r) PROVE Truthful(q)'
  BY <1>0, <1>1, <1>3, <1>9, StepMoves DEF Base, DeleteState, Steps
<1>10. ASSUME NEW r \in Request, Link(r) PROVE Truthful(q)'
  BY <1>0, <1>1, <1>3, <1>10, LinkMoves DEF Base
<1>11. ASSUME NEW r \in Request, \/ StoreState(r) \/ Issue(r) \/ Abort(r) \/ FlushUpdate(r)
                                \/ FlushDelete(r)
       PROVE  Truthful(q)'
  <2>1. Goto(r, Idle)
    BY <1>11 DEF StoreState, Issue, Abort, FlushUpdate, FlushDelete
  <2> QED
    BY <1>0, <1>1, <1>3, <2>1, EndMoves DEF Base
<1>12. ASSUME NEW r \in Request, NEW want \in Update, ReadForUpdate(r, want) PROVE Truthful(q)'
  BY <1>0, <1>1, <1>3, <1>12, ReadForUpdateMoves DEF Base
<1>13. ASSUME NEW r \in Request, ReadForDelete(r) PROVE Truthful(q)'
  BY <1>0, <1>1, <1>3, <1>13, ReadForDeleteMoves DEF Base
<1> QED
  BY <1>3, <1>4, <1>5, <1>6, <1>7, <1>8, <1>9, <1>10, <1>11, <1>12, <1>13
  DEF Next, vars, AppStep, Lapse, Consent, UpdateUserStatus

(* The provider vouches for an address a sign-in calls verified; and GitHub *)
(* is asked for all of a person's addresses before one is taken unverified. *)
THEOREM ClaimsHold == Spec => []ClaimsAreVouchedFor
<1>1. Init => ClaimsInv
  BY BaseInit, IdleIsAHandler DEF Init, ClaimsInv, Truthful
<1>2. ClaimsInv /\ [Next]_vars => ClaimsInv'
  BY BaseStep, TruthfulStep DEF ClaimsInv
<1>3. ClaimsInv => ClaimsAreVouchedFor
  BY DEF ClaimsInv, Truthful, ClaimsAreVouchedFor, Vouched
<1> QED
  BY <1>1, <1>2, <1>3, PTL DEF Spec

-----------------------------------------------------------------------------
(* Where tokens go, and to whom *)

(* Token sets are handed out by the handler that leaves issueTokenSet, for  *)
(* an application that is there.                                            *)
LEMMA OpeningIssues ==
  ASSUME Base, [Next]_vars, NEW r \in Request, Opening(r)
  PROVE  Issue(r)
<1>0. opened \in [Flow -> Nat] /\ req[r].flow \in Flow
  BY DEF Opening, Base, Held, Storing, Called, Signed, ProviderSignInTypeOK
<1>1. opened' # opened
  BY <1>0 DEF Opening
<1>2. PICK q \in Request : Issue(q)
  BY <1>1 DEF Next, vars, AppStep, Lapse, Consent, UpdateUserStatus, BuildAuthUrl, FindState,
     StoreState, DeleteState, Exchange, FindApp, Link, Abort, ReadForUpdate, FlushUpdate,
     ReadForDelete, FlushDelete
<1>3. \A p \in Request \ {q} : req'[p] = req[p]
  BY <1>2, EndMoves DEF Base, Issue
<1> QED
  BY <1>2, <1>3 DEF Opening

(* What buildAuthUrl found registered for a flow still is, until the        *)
(* application is deleted or an update is written.                          *)
Registered(f) ==
  begun[f] # NotBegun /\ f \notin edited =>
    \/ app = Gone
    \/ begun[f].redirect \in app.redirects /\ For(f) \in app.grants

RegisteredInv == Base /\ \A f \in Flow : Registered(f)

LEMMA RegisteredStep ==
  ASSUME RegisteredInv, [Next]_vars, NEW f \in Flow
  PROVE  Registered(f)'
<1>0. Base /\ Registered(f) /\ edited \subseteq edited'
  BY Grows DEF RegisteredInv
<1>1. CASE app' = app /\ begun'[f] = begun[f]
  BY <1>0, <1>1 DEF Registered, For
<1>2. CASE app' = Gone
  BY <1>2 DEF Registered
<1>3. ASSUME NEW r \in Request, FlushUpdate(r)
      PROVE  Registered(f)'
  BY <1>3 DEF FlushUpdate, Changed, Registered
<1>4. ASSUME NEW r \in Request, NEW g \in Flow, NEW u \in Redirect, NEW p \in Provider,
             BuildAuthUrl(r, g, u, p)
      PROVE  Registered(f)'
  <2>0. /\ \A h \in Flow \ {g} : begun'[h] = begun[h]
        /\ begun'[g] = [redirect |-> u, provider |-> p]
    BY <1>0, <1>4, BuildAuthUrlMoves DEF Base
  <2>1. begun'[g].redirect = u /\ begun'[g].provider = p
    BY <2>0
  <2>2. app' = app /\ u \in app.redirects /\ p \in app.grants
    BY <1>4 DEF BuildAuthUrl
  <2> QED
    BY <1>1, <2>0, <2>1, <2>2 DEF Registered, For
<1> QED
  BY <1>1, <1>2, <1>3, <1>4 DEF Next, vars, AppStep, Lapse, Consent, UpdateUserStatus, FindState,
     StoreState, DeleteState, Exchange, FindApp, Link, Issue, Abort, ReadForUpdate,
     ReadForDelete, FlushDelete

(* Tokens go to an address registered for the application, with a grant it  *)
(* allows, though the callback reads neither again: only an update written  *)
(* after the flow had begun can make it otherwise.                          *)
THEOREM TokensGoHome == Spec => TokensGoToRegistered
<1> DEFINE Home ==
      \A r \in Request : Opening(r) =>
        LET f == req[r].flow IN
        \/ f \in edited
        \/ begun[f].redirect \in app.redirects /\ For(f) \in app.grants
<1>1. Init => RegisteredInv
  BY BaseInit DEF Init, RegisteredInv, Registered
<1>2. RegisteredInv /\ [Next]_vars => RegisteredInv'
  BY BaseStep, RegisteredStep DEF RegisteredInv
<1>3. RegisteredInv /\ [Next]_vars => [Home]_vars
  <2> SUFFICES ASSUME RegisteredInv, [Next]_vars, NEW r \in Request, Opening(r)
               PROVE  LET f == req[r].flow IN
                      \/ f \in edited
                      \/ begun[f].redirect \in app.redirects /\ For(f) \in app.grants
    OBVIOUS
  <2>1. Base /\ Issue(r)
    BY OpeningIssues DEF RegisteredInv
  <2>2. req[r].flow \in Flow /\ begun[req[r].flow] # NotBegun /\ app # Gone
    BY <2>1 DEF Issue, Base, Held, Storing, Called, Signed
  <2> QED
    BY <2>2 DEF RegisteredInv, Registered
<1> QED
  BY <1>1, <1>2, <1>3, PTL DEF Spec, TokensGoToRegistered

(* A handler that goes to issueTokenSet found an account that may sign in.  *)
LookedAt(r) == req[r].pc = "issue" => account = "active" \/ r \in late

AccountInv == Base /\ \A r \in Request : LookedAt(r)

LEMMA LookedAtStep ==
  ASSUME AccountInv, [Next]_vars, NEW q \in Request
  PROVE  LookedAt(q)'
<1>0. Base /\ LookedAt(q) /\ account \in {"none", "active", "blocked"}
  BY DEF AccountInv, Base, ProviderSignInTypeOK
<1>1. CASE req'[q].pc # "issue"
  BY <1>1 DEF LookedAt
<1>2. CASE req'[q] = req[q] /\ account' \in {account, "active"} /\ (q \in late => q \in late')
  BY <1>0, <1>2 DEF LookedAt
<1>3. ASSUME NEW s \in {"active", "blocked"}, UpdateUserStatus(s)
      PROVE  LookedAt(q)'
  BY <1>0, <1>3 DEF UpdateUserStatus, LookedAt
<1>4. ASSUME NEW r \in Request, Link(r)
      PROVE  LookedAt(q)'
  <2>1. /\ \/ account = "blocked" /\ req'[r].pc = "idle"
           \/ account # "blocked" /\ req'[r].pc = "issue"
        /\ \A p \in Request \ {r} : req'[p] = req[p]
    BY <1>0, <1>4, LinkMoves DEF Base
  <2>2. account' = (IF account = "none" THEN "active" ELSE account) /\ late' = late
    BY <1>4 DEF Link
  <2> QED
    BY <1>0, <1>1, <1>2, <2>1, <2>2 DEF LookedAt
<1>5. ASSUME NEW r \in Request, \/ StoreState(r) \/ Issue(r) \/ Abort(r) \/ FlushUpdate(r)
                               \/ FlushDelete(r)
      PROVE  LookedAt(q)'
  <2>1. Goto(r, Idle) /\ account' = account /\ late \ {r} \subseteq late'
    BY <1>5 DEF StoreState, Issue, Abort, FlushUpdate, FlushDelete
  <2>2. req'[r].pc = "idle" /\ \A p \in Request \ {r} : req'[p] = req[p]
    BY <1>0, <2>1, EndMoves DEF Base
  <2> QED
    BY <1>1, <1>2, <2>1, <2>2
<1>6. ASSUME NEW r \in Request, NEW pc \in Steps \ {"issue"}, req'[r].pc = pc,
             \A p \in Request \ {r} : req'[p] = req[p], account' = account, late' = late
      PROVE  LookedAt(q)'
  BY <1>1, <1>2, <1>6
<1>7. ASSUME NEW r \in Request, NEW f \in Flow, NEW u \in Redirect, NEW p \in Provider,
             BuildAuthUrl(r, f, u, p)
      PROVE  LookedAt(q)'
  BY <1>0, <1>6, <1>7, BuildAuthUrlMoves DEF Base, BuildAuthUrl, Steps
<1>8. ASSUME NEW r \in Request, NEW f \in Flow, NEW k \in Code, FindState(r, f, k)
      PROVE  LookedAt(q)'
  BY <1>0, <1>6, <1>8, FindStateMoves DEF Base, FindState, Steps
<1>9. ASSUME NEW r \in Request, DeleteState(r)
      PROVE  LookedAt(q)'
  BY <1>0, <1>6, <1>9, StepMoves DEF Base, DeleteState, Steps
<1>10. ASSUME NEW r \in Request, Exchange(r)
       PROVE  LookedAt(q)'
  <2>1. account' = account /\ late' = late
    BY <1>10 DEF Exchange
  <2> QED
    BY <1>0, <1>6, <1>10, <2>1, ExchangeMoves DEF Base, Steps
<1>11. ASSUME NEW r \in Request, FindApp(r)
       PROVE  LookedAt(q)'
  BY <1>0, <1>6, <1>11, StepMoves DEF Base, FindApp, Steps
<1>12. ASSUME NEW r \in Request, NEW want \in Update, ReadForUpdate(r, want)
       PROVE  LookedAt(q)'
  BY <1>0, <1>6, <1>12, ReadForUpdateMoves DEF Base, ReadForUpdate, Steps
<1>13. ASSUME NEW r \in Request, ReadForDelete(r)
       PROVE  LookedAt(q)'
  BY <1>0, <1>6, <1>13, ReadForDeleteMoves DEF Base, ReadForDelete, Steps
<1> QED
  BY <1>2, <1>3, <1>4, <1>5, <1>7, <1>8, <1>9, <1>10, <1>11, <1>12, <1>13
  DEF Next, vars, AppStep, Lapse, Consent

(* A person whose account is blocked is not signed in, whichever of several *)
(* sign-ins made the account, unless the block came after the handler had   *)
(* looked at it.                                                            *)
THEOREM BlockedAreKeptOut == Spec => BlockedStayOut
<1> DEFINE KeptOut ==
      \A r \in Request : Opening(r) => account = "active" \/ r \in late
<1>1. Init => AccountInv
  BY BaseInit, IdleIsAHandler DEF Init, AccountInv, LookedAt
<1>2. AccountInv /\ [Next]_vars => AccountInv'
  BY BaseStep, LookedAtStep DEF AccountInv
<1>3. AccountInv => KeptOut
  BY DEF AccountInv, LookedAt, Opening
<1> QED
  BY <1>1, <1>2, <1>3, PTL DEF Spec, BlockedStayOut
=============================================================================
