------------------------------ MODULE Recovery ------------------------------
(***************************************************************************)
(* Recovery of one account: RegistrationService.forgotPassword and          *)
(* resetPassword with CredentialsService.setPassword and the revocation of  *)
(* the sessions, the confirmation of email and phone, and the messages that *)
(* carry their links and codes, against logins and refreshes in flight.     *)
(*                                                                         *)
(* A message stands for the link or the code in it.  Handlers of several    *)
(* api replicas overlap; one action is the code between two awaits on the   *)
(* database.  The EntityManager is per request: what a handler has changed  *)
(* in memory is written by its next flush, in one transaction.              *)
(*                                                                         *)
(* A password is a number: how many passwords had been written when it was  *)
(* chosen.  A session stands for a family of refresh tokens, whose own life *)
(* is in RefreshTokens; a code accepted is the answer of Otp.               *)
(***************************************************************************)
EXTENDS Notifications, FiniteSets

CONSTANTS
  Request,     \* handlers in flight at once, over all replicas
  Session,     \* sessions that may ever be opened with a password
  Credential,  \* credentials rows that may ever be created for the account
  None,        \* no message, row or session
  MaxPassword  \* bound on the passwords written

ASSUME NoneIsNew == None \notin Message \cup Session \cup Credential
ASSUME PasswordsAreCounted == MaxPassword \in Nat

VARIABLES
  kind,        \* kind[m]: what was stored for m, "none" before the insert
  consumed,    \* links and codes whose consumedAt is set
  verified,    \* which of "email" and "phone" are verified
  rows,        \* credentials rows that exist
  hash,        \* hash[c]: the password of row c
  password,    \* the password written last
  session,     \* session[s]: "none", "active" or "revoked"
  opened,      \* opened[s]: the password that opened it
  req,         \* req[r]: where handler r is and what it remembers
  resets,      \* history: resets[m]: passwords written in the name of m
  shared,      \* history: links and codes two handlers held at once
  doubled,     \* history: did two handlers at once find no credential?
  overlapped,  \* history: sessions of a login or refresh a revocation passed
  cut          \* history: did a reset die before it revoked the sessions?

rvars == <<kind, consumed, verified, rows, hash, password, session,
           opened, req, resets, shared, doubled, overlapped, cut>>
vars == <<nvars, rvars>>

Kind == {"none", "confirm", "phone", "link", "code"}

Steps == {"idle", "send", "confirm", "code", "find", "set", "sessions",
          "revoke", "issue", "mint"}
Handler == [pc : Steps, held : Message \cup {None}, row : Credential \cup {None},
            password : Nat, session : Session \cup {None},
            found : SUBSET Session, passed : BOOLEAN]
Idle == [pc |-> "idle", held |-> None, row |-> None, password |-> 0,
         session |-> None, found |-> {}, passed |-> FALSE]

Goto(r, state) == req' = [req EXCEPT ![r] = state]
Holding(m) == {r \in Request : req[r].held = m /\ req[r].pc # "send"}
Good(m) == sent[m] > 0 /\ m \notin consumed

-----------------------------------------------------------------------------
RecoveryTypeOK ==
  /\ NotificationsTypeOK
  /\ kind \in [Message -> Kind]
  /\ consumed \subseteq Message
  /\ verified \subseteq {"email", "phone"}
  /\ rows \subseteq Credential
  /\ hash \in [Credential -> Nat] /\ password \in Nat
  /\ session \in [Session -> {"none", "active", "revoked"}]
  /\ opened \in [Session -> Nat]
  /\ req \in [Request -> Handler]
  /\ resets \in [Message -> Nat]
  /\ shared \subseteq Message /\ doubled \in BOOLEAN
  /\ overlapped \subseteq Session /\ cut \in BOOLEAN

(* The account was registered with a password, or came with a provider. *)
Init ==
  /\ NInit
  /\ kind = [m \in Message |-> "none"]
  /\ consumed = {}
  /\ verified \in SUBSET {"phone"}
  /\ rows = {} \/ \E c \in Credential : rows = {c}
  /\ hash = [c \in Credential |-> 0] /\ password = 0
  /\ session = [s \in Session |-> "none"]
  /\ opened = [s \in Session |-> 0]
  /\ req = [r \in Request |-> Idle]
  /\ resets = [m \in Message |-> 0]
  /\ shared = {} /\ doubled = FALSE /\ overlapped = {} /\ cut = FALSE

-----------------------------------------------------------------------------
(* Links and codes are stored and sent *)

(* Mutant: the message is queued for a link or code that is not flushed. *)
AskUnflushed(r, m, k) ==
  /\ req[r].pc = "idle"
  /\ kind[m] = "none"
  /\ k = "confirm" => \A n \in Message : kind[n] # "confirm"
  /\ k = "code" => "phone" \in verified
  /\ k = "link" => "phone" \notin verified
  /\ Goto(r, [Idle EXCEPT !.pc = "send", !.held = m])
  /\ UNCHANGED <<nvars, kind, consumed, verified, rows, hash, password, session,
                 opened, resets, shared, doubled, overlapped, cut>>

(* sendEmailVerification, sendPhoneOtp, forgotPassword: the link or code is *)
(* flushed.  A reset goes to the phone where that is verified.              *)
Ask(r, m, k) ==
  /\ req[r].pc = "idle"
  /\ kind[m] = "none"
  /\ k = "confirm" => \A n \in Message : kind[n] # "confirm"
  /\ k = "code" => "phone" \in verified
  /\ k = "link" => "phone" \notin verified
  /\ kind' = [kind EXCEPT ![m] = k]
  /\ Goto(r, [Idle EXCEPT !.pc = "send", !.held = m])
  /\ UNCHANGED <<nvars, consumed, verified, rows, hash, password, session,
                 opened, resets, shared, doubled, overlapped, cut>>

(* The message is queued. *)
Send(r) ==
  /\ req[r].pc = "send"
  /\ Add(req[r].held)
  /\ Goto(r, Idle)
  /\ UNCHANGED <<kind, consumed, verified, rows, hash, password, session,
                 opened, resets, shared, doubled, overlapped, cut>>

-----------------------------------------------------------------------------
(* Links and codes are presented *)

(* confirmEmail, resetPassword, otp.verify: an unconsumed, unexpired row is *)
(* found for what the user was sent, each purpose at its own endpoint.  A   *)
(* row that expires is one that is not presented any more, and no row need  *)
(* ever be presented.                                                       *)
Present(r, m) ==
  /\ req[r].pc = "idle"
  /\ kind[m] # "none" /\ Good(m)
  /\ Goto(r, [Idle EXCEPT !.held = m, !.pc =
               CASE kind[m] = "confirm" -> "confirm"
                 [] kind[m] = "link" -> "find"
                 [] OTHER -> "code"])
  /\ shared' = shared \cup {n \in {m} : Holding(n) # {}}
  /\ UNCHANGED <<nvars, kind, consumed, verified, rows, hash, password,
                 session, opened, resets, doubled, overlapped, cut>>

(* otp.verify flushes the code as consumed before anything else is written. *)
AcceptCode(r) ==
  /\ req[r].pc = "code"
  /\ consumed' = consumed \cup {req[r].held}
  /\ Goto(r, [req[r] EXCEPT !.pc = IF kind[req[r].held] = "phone" THEN "confirm" ELSE "find"])
  /\ UNCHANGED <<nvars, kind, verified, rows, hash, password, session,
                 opened, resets, shared, doubled, overlapped, cut>>

(* confirmEmail, confirmPhone: one flush marks the account, and the link.   *)
FlushConfirm(r) ==
  LET m == req[r].held IN
  /\ req[r].pc = "confirm"
  /\ verified' = verified \cup {IF kind[m] = "phone" THEN "phone" ELSE "email"}
  /\ consumed' = consumed \cup {m}
  /\ Goto(r, Idle)
  /\ UNCHANGED <<nvars, kind, rows, hash, password, session, opened,
                 resets, shared, doubled, overlapped, cut>>

(* setPassword: findByUserId takes any row there is. *)
FindCredential(r) ==
  /\ req[r].pc = "find"
  /\ \E c \in (IF rows = {} THEN {None} ELSE rows) :
       Goto(r, [req[r] EXCEPT !.pc = "set", !.row = c])
  /\ doubled' = \/ doubled
                 \/ /\ rows = {}
                    /\ \E q \in Request : req[q].pc = "set" /\ req[q].row = None
  /\ UNCHANGED <<nvars, kind, consumed, verified, rows, hash, password,
                 session, opened, resets, shared, overlapped, cut>>

(* Mutant: the link is not marked as consumed. *)
SetPasswordKeepsLink(r, c) ==
  LET m == req[r].held IN
  /\ req[r].pc = "set"
  /\ password < MaxPassword
  /\ \/ req[r].row = c
     \/ req[r].row = None /\ c \notin rows
  /\ rows' = rows \cup {c}
  /\ hash' = [hash EXCEPT ![c] = password + 1]
  /\ password' = password + 1
  /\ resets' = [resets EXCEPT ![m] = @ + 1]
  /\ Goto(r, [Idle EXCEPT !.pc = "sessions"])
  /\ UNCHANGED <<nvars, kind, consumed, verified, session, opened,
                 shared, doubled, overlapped, cut>>

(* Mutant: setPassword inserts a row whatever it found. *)
SetPasswordInserts(r, c) ==
  LET m == req[r].held IN
  /\ req[r].pc = "set"
  /\ password < MaxPassword
  /\ c \notin rows
  /\ rows' = rows \cup {c}
  /\ hash' = [hash EXCEPT ![c] = password + 1]
  /\ password' = password + 1
  /\ resets' = [resets EXCEPT ![m] = @ + 1]
  /\ consumed' = consumed \cup {m}
  /\ Goto(r, [Idle EXCEPT !.pc = "sessions"])
  /\ UNCHANGED <<nvars, kind, verified, session, opened,
                 shared, doubled, overlapped, cut>>

(* setPassword: the row that was found is updated, or one is inserted; the  *)
(* same flush writes consumedAt of a link.                                  *)
SetPassword(r, c) ==
  LET m == req[r].held IN
  /\ req[r].pc = "set"
  /\ password < MaxPassword
  /\ \/ req[r].row = c
     \/ req[r].row = None /\ c \notin rows
  /\ rows' = rows \cup {c}
  /\ hash' = [hash EXCEPT ![c] = password + 1]
  /\ password' = password + 1
  /\ resets' = [resets EXCEPT ![m] = @ + 1]
  /\ consumed' = consumed \cup {m}
  /\ Goto(r, [Idle EXCEPT !.pc = "sessions"])
  /\ UNCHANGED <<nvars, kind, verified, session, opened,
                 shared, doubled, overlapped, cut>>

(* revokeAllSessions: the rows that are there now.  A login or a refresh in *)
(* flight is passed by.                                                     *)
FindSessions(r) ==
  /\ req[r].pc = "sessions"
  /\ req' = [q \in Request |->
       IF q = r
       THEN [Idle EXCEPT !.pc = "revoke",
                         !.found = {s \in Session : session[s] = "active"}]
       ELSE [req[q] EXCEPT !.passed = req[q].pc \in {"issue", "mint"}]]
  /\ UNCHANGED <<nvars, kind, consumed, verified, rows, hash, password,
                 session, opened, resets, shared, doubled, overlapped, cut>>

(* Mutant: resetPassword ends without its second flush. *)
FlushRevokedForgotten(r) ==
  /\ req[r].pc = "revoke"
  /\ Goto(r, Idle)
  /\ UNCHANGED <<nvars, kind, consumed, verified, rows, hash, password,
                 session, opened, resets, shared, doubled, overlapped, cut>>

(* resetPassword: the second flush. *)
FlushRevoked(r) ==
  /\ req[r].pc = "revoke"
  /\ session' = [s \in Session |-> IF s \in req[r].found THEN "revoked" ELSE session[s]]
  /\ Goto(r, Idle)
  /\ UNCHANGED <<nvars, kind, consumed, verified, rows, hash, password,
                 opened, resets, shared, doubled, overlapped, cut>>

-----------------------------------------------------------------------------
(* Logins and refreshes *)

(* passwordGrant: any row is read; the user knows the password in it. *)
LoginRead(r, c) ==
  /\ req[r].pc = "idle"
  /\ c \in rows
  /\ Goto(r, [Idle EXCEPT !.pc = "issue", !.password = hash[c]])
  /\ UNCHANGED <<nvars, kind, consumed, verified, rows, hash, password,
                 session, opened, resets, shared, doubled, overlapped, cut>>

(* issueTokenSet: a new family. *)
LoginIssue(r, s) ==
  /\ req[r].pc = "issue"
  /\ session[s] = "none"
  /\ session' = [session EXCEPT ![s] = "active"]
  /\ opened' = [opened EXCEPT ![s] = req[r].password]
  /\ overlapped' = overlapped \cup {t \in {s} : req[r].passed}
  /\ Goto(r, Idle)
  /\ UNCHANGED <<nvars, kind, consumed, verified, rows, hash, password,
                 resets, shared, doubled, cut>>

(* refresh: the session has an ACTIVE token. *)
RefreshLoad(r, s) ==
  /\ req[r].pc = "idle"
  /\ session[s] = "active"
  /\ Goto(r, [Idle EXCEPT !.pc = "mint", !.session = s,
               !.passed = \E q \in Request : s \in req[q].found])
  /\ UNCHANGED <<nvars, kind, consumed, verified, rows, hash, password,
                 session, opened, resets, shared, doubled, overlapped, cut>>

(* refresh: the successor is inserted; a revocation that looked before will *)
(* write to the rows it found and not to this one.                          *)
RefreshMint(r) ==
  LET s == req[r].session IN
  /\ req[r].pc = "mint"
  /\ session' = [session EXCEPT ![s] = "active"]
  /\ req' = [q \in Request |-> IF q = r THEN Idle ELSE [req[q] EXCEPT !.found = @ \ {s}]]
  /\ overlapped' = overlapped \cup {t \in {s} : req[r].passed}
  /\ UNCHANGED <<nvars, kind, consumed, verified, rows, hash, password,
                 opened, resets, shared, doubled, cut>>

-----------------------------------------------------------------------------
(* An error or a restart ends a handler between two awaits. *)
Abort(r) ==
  /\ req[r].pc # "idle"
  /\ cut' = (cut \/ req[r].pc \in {"sessions", "revoke"})
  /\ Goto(r, Idle)
  /\ UNCHANGED <<nvars, kind, consumed, verified, rows, hash, password,
                 session, opened, resets, shared, doubled, overlapped>>

ResetStep(r) ==
  \/ AcceptCode(r)
  \/ FlushConfirm(r)
  \/ FindCredential(r)
  \/ \E c \in Credential : SetPassword(r, c)
  \/ FindSessions(r)
  \/ FlushRevoked(r)

SessionStep(r) ==
  \/ \E c \in Credential : LoginRead(r, c)
  \/ \E s \in Session : LoginIssue(r, s) \/ RefreshLoad(r, s)
  \/ RefreshMint(r)

Next ==
  \/ \E r \in Request :
       \/ \E m \in Message, k \in Kind \ {"none"} : Ask(r, m, k)
       \/ \E m \in Message : Present(r, m)
       \/ Send(r)
       \/ ResetStep(r)
       \/ SessionStep(r)
       \/ Abort(r)
  \/ (\E m \in Message : Work(m)) /\ UNCHANGED rvars

Spec == Init /\ [][Next]_vars

-----------------------------------------------------------------------------
(* Properties *)

(* Once no reset is under way every live session was opened with the        *)
(* current password, unless a revocation passed by its login or refresh in  *)
(* flight, a reset died before it revoked, or two handlers at once found no *)
(* credential.                                                              *)
OldSessionsEnd ==
  (\A r \in Request : req[r].pc \notin {"sessions", "revoke"}) /\ ~cut /\ ~doubled
    => \A s \in Session \ overlapped : session[s] = "active" => opened[s] = password

(* A link or a code sets one password, unless two handlers held it at once; *)
(* and a link is consumed together with the write of the password, so that  *)
(* dying between any two steps never costs the user the link.               *)
LinksResetOnce ==
  \A m \in Message :
    /\ resets[m] > 1 => m \in shared
    /\ kind[m] = "link" /\ m \in consumed => resets[m] > 0

(* The account has one credentials row, unless two handlers at once found   *)
(* none.                                                                    *)
OneCredentialUnlessRaced == Cardinality(rows) > 1 => doubled

(* What the gateway has accepted refers to a stored link or code, wherever  *)
(* handlers die.                                                            *)
MessagesRefer == \A m \in Message : sent[m] > 0 => kind[m] # "none"
=============================================================================
