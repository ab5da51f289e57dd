------------------------------- MODULE Login -------------------------------
(***************************************************************************)
(* How one account logs in: AuthService.passwordGrant and                   *)
(* completeOrChallenge, OtpAuthService.otpGrant and the provider callbacks, *)
(* with the failure counter and the lock of UsersService, the challenges    *)
(* MfaService keeps in Redis, the administrator's updateUserStatus and the  *)
(* confirmations that make a pending account active.                        *)
(*                                                                         *)
(* A handler reads the users row once and decides everything on that copy;  *)
(* a flush writes only the columns that differ from the copy.  Whether a    *)
(* password is right and whether a one-time code is accepted (module Otp)   *)
(* are free answers.  Status "active" stands for ACTIVE, "disabled" for     *)
(* DISABLED and LOCKED, of which isLoginable thinks alike.                  *)
(***************************************************************************)
EXTENDS Integers

CONSTANTS
  Request,      \* handlers in flight at once, over all replicas
  Challenge,    \* mfa_tokens that may ever be issued
  None,         \* no challenge
  MfaEnabled,   \* mfaEnabled of the account, which no code changes
  MaxFailures,  \* LOCKOUT_MAX_FAILURES
  Targets,      \* statuses the administrator sets
  Base,         \* ticks of LOCKOUT_BASE_SECONDS
  MaxTime       \* bound on the clock

ASSUME NoneIsNoChallenge == None \notin Challenge
ASSUME LockoutIsPositive ==
  MaxFailures \in Nat \ {0} /\ Base \in Nat \ {0} /\ MaxTime \in Nat
ASSUME MfaIsBoolean == MfaEnabled \in BOOLEAN

VARIABLES
  user,       \* the users row: failedLoginCount, lockedUntil (0: null), status
  challenge,  \* challenge[c]: "none" before it is stored, "gone" after
  now,
  req,        \* req[r]: where handler r is and the row it has read
  wrong,      \* history: wrong passwords since failedLoginCount was cleared
  since,      \* history: when the first of them was counted, or 0
  lost,       \* history: did a write overtake another since then?
  completed,  \* history: completed[c]: sessions opened with c
  shared,     \* history: challenges two handlers held at once
  late        \* history: handlers that arrived at the disabled account

vars == <<user, challenge, now, req, wrong, since, lost, completed, shared, late>>
counters == <<wrong, since, lost>>

Status == {"pending", "active", "disabled"}
ASSUME TargetsAreStatuses == Targets \subseteq Status

Row == [failed : Nat, lock : Nat, status : Status]
Fresh == [failed |-> 0, lock |-> 0, status |-> "pending"]
Steps == {"idle", "password", "failure", "peeked", "code", "consume", "delete",
          "success", "challenge", "issue", "status", "confirm"}
Handler == [pc : Steps, saw : Row, factor : {"pwd", "other"},
            token : Challenge \cup {None}, target : Status]
Idle == [pc |-> "idle", saw |-> Fresh, factor |-> "pwd", token |-> None,
         target |-> "pending"]

Goto(r, state) ==
  /\ req' = [req EXCEPT ![r] = state]
  /\ late' = IF user.status # "disabled" THEN {}
             ELSE IF state.pc = "idle" THEN late \ {r}
             ELSE IF req[r].pc = "idle" THEN late \cup {r} ELSE late

Locked(row) == row.lock > now

(* Mutant: the status of the account is not asked. *)
LoginableUnlessLocked(row) == ~Locked(row)

Loginable(row) == row.status # "disabled" /\ ~Locked(row)

BackoffCap == 10
Backoff(overflow) == Base * 2 ^ (IF overflow < BackoffCap THEN overflow ELSE BackoffCap)

(* What the proofs use of powers of two; TLC evaluates it in full. *)
ASSUME PowersOfTwo ==
  2 ^ 0 = 1 /\ \A n \in 0..BackoffCap : 2 ^ n \in Nat \ {0} /\ 2 ^ (n + 1) = 2 * 2 ^ n

(* A flush of the counters by r; what r decided was on a row that has been  *)
(* written since.                                                           *)
Overtaken(r) ==
  req[r].saw.failed # user.failed \/ req[r].saw.lock # user.lock

(* The columns a handler resets to 0 are written where its copy was not 0.  *)
Cleared(r) ==
  [user EXCEPT !.failed = IF req[r].saw.failed # 0 THEN 0 ELSE @,
               !.lock = IF req[r].saw.lock # 0 THEN 0 ELSE @]

(* History of the counters: n wrong passwords, or a count that was lost. *)
Note(n, overtaken) ==
  /\ lost' = overtaken
  /\ wrong' = IF overtaken THEN 0 ELSE n
  /\ since' = IF wrong' = 0 THEN 0 ELSE IF wrong = 0 THEN now ELSE since

NoteCleared(r) ==
  IF req[r].saw.failed # 0 THEN Note(0, FALSE)
  ELSE Note(wrong, lost \/ (req[r].saw.lock # 0 /\ Overtaken(r)))

-----------------------------------------------------------------------------
LoginTypeOK ==
  /\ user \in Row
  /\ challenge \in [Challenge -> {"none", "stored", "gone"}]
  /\ now \in Nat
  /\ req \in [Request -> Handler]
  /\ wrong \in Nat /\ since \in Nat /\ lost \in BOOLEAN
  /\ completed \in [Challenge -> Nat]
  /\ shared \subseteq Challenge
  /\ late \subseteq Request

Init ==
  /\ user = Fresh
  /\ challenge = [c \in Challenge |-> "none"]
  /\ now = 0
  /\ req = [r \in Request |-> Idle]
  /\ wrong = 0 /\ since = 0 /\ lost = FALSE
  /\ completed = [c \in Challenge |-> 0]
  /\ shared = {}
  /\ late = {}

-----------------------------------------------------------------------------
(* passwordGrant: the account is read; a locked one is refused. *)
PasswordGrant(r) ==
  /\ req[r].pc = "idle"
  /\ ~Locked(user)
  /\ Goto(r, [Idle EXCEPT !.pc = "password", !.saw = user])
  /\ UNCHANGED <<user, challenge, now, counters, completed, shared>>

(* isLoginable: on to registerSuccessfulLogin, or the grant is refused. *)
Admit(r) ==
  Goto(r, IF Loginable(req[r].saw) THEN [req[r] EXCEPT !.pc = "success"] ELSE Idle)

(* The credential is read and the password is right or wrong. *)
VerifyPassword(r) ==
  /\ req[r].pc = "password"
  /\ UNCHANGED <<user, challenge, now, counters, completed, shared>>
  /\ Admit(r) \/ Goto(r, [req[r] EXCEPT !.pc = "failure"])

(* Mutant: one failure more than LOCKOUT_MAX_FAILURES is let through. *)
FlushFailureLate(r) ==
  LET n == req[r].saw.failed + 1 IN
  /\ req[r].pc = "failure"
  /\ user' = [user EXCEPT !.failed = n,
                !.lock = IF n > MaxFailures THEN now + Backoff(n - MaxFailures) ELSE @]
  /\ Note(wrong + 1, lost \/ Overtaken(r))
  /\ Goto(r, Idle)
  /\ UNCHANGED <<challenge, now, completed, shared>>

(* registerFailedLogin *)
FlushFailure(r) ==
  LET n == req[r].saw.failed + 1 IN
  /\ req[r].pc = "failure"
  /\ user' = [user EXCEPT !.failed = n,
                !.lock = IF n >= MaxFailures THEN now + Backoff(n - MaxFailures) ELSE @]
  /\ Note(wrong + 1, lost \/ Overtaken(r))
  /\ Goto(r, Idle)
  /\ UNCHANGED <<challenge, now, completed, shared>>

(* registerSuccessfulLogin; a password on an account with MFA then leads to *)
(* a challenge, everything else to tokens.                                  *)
FlushSuccess(r) ==
  /\ req[r].pc = "success"
  /\ user' = Cleared(r)
  /\ NoteCleared(r)
  /\ Goto(r, [Idle EXCEPT !.token = req[r].token,
       !.pc = IF MfaEnabled /\ req[r].factor = "pwd" THEN "challenge" ELSE "issue"])
  /\ UNCHANGED <<challenge, now, completed, shared>>

(* issueChallenge *)
IssueChallenge(r, c) ==
  /\ req[r].pc = "challenge"
  /\ challenge[c] = "none"
  /\ challenge' = [challenge EXCEPT ![c] = "stored"]
  /\ Goto(r, Idle)
  /\ UNCHANGED <<user, now, counters, completed, shared>>

(* issueTokenSet opens a session. *)
Issue(r) ==
  /\ req[r].pc = "issue"
  /\ completed' = [c \in Challenge |->
       IF c = req[r].token THEN completed[c] + 1 ELSE completed[c]]
  /\ Goto(r, Idle)
  /\ UNCHANGED <<user, challenge, now, counters, shared>>

-----------------------------------------------------------------------------
(* otpGrant with an mfa_token: the challenge is found in Redis ... *)
Peek(r, c) ==
  /\ req[r].pc = "idle"
  /\ challenge[c] = "stored"
  /\ Goto(r, [Idle EXCEPT !.pc = "peeked", !.token = c, !.factor = "other"])
  /\ shared' = shared \cup {d \in {c} : \E q \in Request : req[q].token = d}
  /\ UNCHANGED <<user, challenge, now, counters, completed>>

(* ... and the account it names is read. *)
ReadUser(r) ==
  /\ req[r].pc = "peeked"
  /\ Goto(r, [req[r] EXCEPT !.pc = "code", !.saw = user])
  /\ UNCHANGED <<user, challenge, now, counters, completed, shared>>

(* otpGrant without an mfa_token, or the callback of a provider (module     *)
(* Accounts finds its account): the factors of the account are not asked.   *)
DirectGrant(r) ==
  /\ req[r].pc = "idle"
  /\ Goto(r, [Idle EXCEPT !.pc = "code", !.saw = user, !.factor = "other"])
  /\ UNCHANGED <<user, challenge, now, counters, completed, shared>>

(* OtpService.verify accepts the code or refuses it. *)
CheckCode(r) ==
  /\ req[r].pc = "code"
  /\ UNCHANGED <<user, challenge, now, counters, completed, shared>>
  /\ \/ Goto(r, Idle)
     \/ req[r].token # None /\ Goto(r, [req[r] EXCEPT !.pc = "consume"])
     \/ req[r].token = None /\ Admit(r)

(* consume: the challenge is read again; what it answers is not looked at. *)
ConsumeRead(r) ==
  /\ req[r].pc = "consume"
  /\ IF challenge[req[r].token] = "stored"
     THEN Goto(r, [req[r] EXCEPT !.pc = "delete"]) ELSE Admit(r)
  /\ UNCHANGED <<user, challenge, now, counters, completed, shared>>

(* Mutant: the challenge is left to expire. *)
ConsumeKeeps(r) ==
  /\ req[r].pc = "delete"
  /\ Admit(r)
  /\ UNCHANGED <<user, challenge, now, counters, completed, shared>>

ConsumeDelete(r) ==
  /\ req[r].pc = "delete"
  /\ challenge' = [challenge EXCEPT ![req[r].token] = "gone"]
  /\ Admit(r)
  /\ UNCHANGED <<user, now, counters, completed, shared>>

(* The entry's 300 seconds have passed. *)
Lapse(c) ==
  /\ challenge[c] = "stored"
  /\ challenge' = [challenge EXCEPT ![c] = "gone"]
  /\ UNCHANGED <<user, now, req, counters, completed, shared, late>>

-----------------------------------------------------------------------------
(* updateUserStatus: getUser ... *)
ReadForStatus(r, s) ==
  /\ req[r].pc = "idle"
  /\ Goto(r, [Idle EXCEPT !.pc = "status", !.saw = user, !.target = s])
  /\ UNCHANGED <<user, challenge, now, counters, completed, shared>>

(* ... and the flush of what differs from the row it gave. *)
FlushStatus(r) ==
  LET s == req[r].target
      status == IF req[r].saw.status # s THEN s ELSE user.status IN
  /\ req[r].pc = "status"
  /\ IF s = "active" THEN user' = [Cleared(r) EXCEPT !.status = status] /\ NoteCleared(r)
     ELSE user' = [user EXCEPT !.status = status] /\ UNCHANGED counters
  /\ Goto(r, Idle)
  /\ UNCHANGED <<challenge, now, completed, shared>>

(* confirmEmail, confirmPhone: the link or the code was good. *)
ReadForConfirm(r) ==
  /\ req[r].pc = "idle"
  /\ Goto(r, [Idle EXCEPT !.pc = "confirm", !.saw = user])
  /\ UNCHANGED <<user, challenge, now, counters, completed, shared>>

(* Mutant: a confirmation makes any account active. *)
FlushConfirmAlways(r) ==
  /\ req[r].pc = "confirm"
  /\ user' = [user EXCEPT !.status = "active"]
  /\ Goto(r, Idle)
  /\ UNCHANGED <<challenge, now, counters, completed, shared>>

FlushConfirm(r) ==
  /\ req[r].pc = "confirm"
  /\ user' = IF req[r].saw.status = "pending" THEN [user EXCEPT !.status = "active"] ELSE user
  /\ Goto(r, Idle)
  /\ UNCHANGED <<challenge, now, counters, completed, shared>>

(* An error or a restart ends a handler between two awaits. *)
Abort(r) ==
  /\ req[r].pc # "idle"
  /\ Goto(r, Idle)
  /\ UNCHANGED <<user, challenge, now, counters, completed, shared>>

Tick ==
  /\ now < MaxTime
  /\ now' = now + 1
  /\ UNCHANGED <<user, challenge, req, counters, completed, shared, late>>

Next ==
  \/ \E r \in Request :
       \/ PasswordGrant(r) \/ VerifyPassword(r) \/ FlushFailure(r) \/ FlushSuccess(r)
       \/ Issue(r) \/ ReadUser(r) \/ DirectGrant(r) \/ CheckCode(r)
       \/ ConsumeRead(r) \/ ConsumeDelete(r)
       \/ \E c \in Challenge : IssueChallenge(r, c) \/ Peek(r, c)
       \/ \E s \in Targets : ReadForStatus(r, s)
       \/ FlushStatus(r) \/ ReadForConfirm(r) \/ FlushConfirm(r) \/ Abort(r)
  \/ \E c \in Challenge : Lapse(c)
  \/ Tick

Spec == Init /\ [][Next]_vars

-----------------------------------------------------------------------------
(* Properties *)

(* Guessing gets slower and slower: k wrong passwords beyond MaxFailures    *)
(* take at least the sum of k doubling locks, unless a write of the counters *)
(* overtook another since they were cleared.                                *)
GuessingSlowsUnlessLost ==
  LET k == wrong - MaxFailures IN
  ~lost /\ k \in 1..(BackoffCap + 1) => now - since >= Base * (2 ^ k - 1)

(* A lock in force and a block are lifted by an administrator only, or by a *)
(* handler that had read the row before they were set.                      *)
LocksAndBlocksStand ==
  [][\/ Locked(user) /\ user'.lock < user.lock
     \/ user.status = "disabled" /\ user'.status # "disabled"
     => \E r \in Request :
          FlushStatus(r) \/ (req'[r] # req[r] /\ req[r].saw # user)]_vars

(* A challenge completes one login, unless two grants held it at once. *)
ChallengeOnceUnlessShared == \A c \in Challenge : completed[c] > 1 => c \in shared

(* Who arrives at a disabled account gets no tokens and no challenge,       *)
(* whichever way in is tried, until its status changes.                     *)
DisabledStayOut ==
  \A r \in late : req[r].pc \notin {"success", "challenge", "issue"}
=============================================================================
