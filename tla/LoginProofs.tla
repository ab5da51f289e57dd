----------------------------- MODULE LoginProofs -----------------------------
(***************************************************************************)
(* Theorems about Login, for any number of handlers, challenges and         *)
(* failures, any backoff and any clock.                                     *)
(***************************************************************************)
EXTENDS Login, TLAPS

-----------------------------------------------------------------------------
(* A handler and the row it holds. *)
LEMMA HandlerType ==
  ASSUME LoginTypeOK, NEW r \in Request
  PROVE  /\ req[r] \in Handler
         /\ req[r].saw \in Row
         /\ req[r].saw.failed \in Nat /\ req[r].saw.lock \in Nat
         /\ req[r].saw.status \in Status
         /\ req[r].token \in Challenge \cup {None}
         /\ req[r].target \in Status
  BY DEF LoginTypeOK, Handler, Row

LEMMA IdleType == Idle \in Handler
  BY DEF Idle, Handler, Steps, Row, Fresh, Status

LEMMA GotoType ==
  ASSUME LoginTypeOK, NEW r \in Request, NEW h \in Handler, Goto(r, h)
  PROVE  /\ req' \in [Request -> Handler]
         /\ late' \subseteq Request
         /\ req'[r] = h
         /\ \A q \in Request \ {r} : req'[q] = req[q]
  BY DEF LoginTypeOK, Goto

(* The lock a failure sets is a time. *)
LEMMA BackoffType ==
  ASSUME NEW n \in Nat
  PROVE  Backoff(n) \in Nat
<1>1. (IF n < BackoffCap THEN n ELSE BackoffCap) \in 0..BackoffCap
  BY DEF BackoffCap
<1>2. 2 ^ (IF n < BackoffCap THEN n ELSE BackoffCap) \in Nat
  BY <1>1, PowersOfTwo
<1> QED
  BY <1>2, LockoutIsPositive DEF Backoff

LEMMA ClearedType ==
  ASSUME LoginTypeOK, NEW r \in Request
  PROVE  Cleared(r) \in Row
  BY DEF LoginTypeOK, Cleared, Row

(* The history of the counters stays well typed. *)
LEMMA NoteType ==
  ASSUME LoginTypeOK, NEW n \in Nat, NEW overtaken \in BOOLEAN, Note(n, overtaken)
  PROVE  wrong' \in Nat /\ since' \in Nat /\ lost' \in BOOLEAN
  BY DEF LoginTypeOK, Note

LEMMA NoteClearedType ==
  ASSUME LoginTypeOK, NEW r \in Request, NoteCleared(r)
  PROVE  wrong' \in Nat /\ since' \in Nat /\ lost' \in BOOLEAN
<1>1. wrong \in Nat /\ lost \in BOOLEAN
  BY DEF LoginTypeOK
<1>2. CASE req[r].saw.failed # 0
  BY <1>2, NoteType DEF NoteCleared
<1>3. CASE req[r].saw.failed = 0
  <2>1. (lost \/ (req[r].saw.lock # 0 /\ Overtaken(r))) \in BOOLEAN
    OBVIOUS
  <2> QED
    BY <1>1, <1>3, <2>1, NoteType DEF NoteCleared
<1> QED
  BY <1>2, <1>3

-----------------------------------------------------------------------------
(* What every handler that moves obeys.  A password is tried and a login is *)
(* counted on a copy that was not locked; who is late has read a disabled   *)
(* account, if it has read any.                                             *)
Prudent(h) ==
  /\ h.pc \in {"password", "failure", "success"} => h.saw.lock <= now
  /\ h.pc = "success" => h.saw.status # "disabled"

Barred(h) ==
  /\ h.pc \notin {"success", "challenge", "issue"}
  /\ h.pc \in {"password", "failure", "code", "consume", "delete"}
       => h.saw.status = "disabled"

Moves(r, h) ==
  /\ Goto(r, h)
  /\ now' = now
  /\ Prudent(h)
  /\ user.status = "disabled" /\ (req[r].pc = "idle" \/ Barred(req[r])) /\ h.pc # "idle"
       => Barred(h)

Reading == \A r \in Request : Prudent(req[r])
LateBarred == \A r \in late : Barred(req[r])

LEMMA IdleMoves ==
  ASSUME LoginTypeOK, NEW r \in Request, Goto(r, Idle), now' = now
  PROVE  \E h \in Handler : Moves(r, h)
  BY IdleType DEF Moves, Prudent, Idle

LEMMA AdmitMoves ==
  ASSUME LoginTypeOK, NEW r \in Request, Admit(r), now' = now,
         req[r].pc \in {"password", "code", "consume", "delete"}
  PROVE  \E h \in Handler : Moves(r, h)
<1>1. CASE Loginable(req[r].saw)
  <2> DEFINE h == [req[r] EXCEPT !.pc = "success"]
  <2>1. h \in Handler /\ h.pc = "success" /\ h.saw = req[r].saw
    BY HandlerType DEF Handler, Steps
  <2>2. Prudent(h)
    BY <1>1, <2>1, HandlerType DEF Prudent, Loginable, Locked, LoginTypeOK
  <2>3. ~Barred(req[r])
    BY <1>1 DEF Barred, Loginable
  <2> QED
    BY <1>1, <2>1, <2>2, <2>3 DEF Moves, Admit
<1>2. CASE ~Loginable(req[r].saw)
  BY <1>2, IdleMoves DEF Admit
<1> QED
  BY <1>1, <1>2

(* A handler that arrives reads the account as it is. *)
LEMMA ArriveMoves ==
  ASSUME LoginTypeOK, NEW r \in Request, NEW h \in Handler, Goto(r, h), now' = now,
         req[r].pc = "idle",
         \/ h.pc = "peeked"
         \/ /\ h.saw = user
            /\ \/ h.pc \in {"code", "status", "confirm"}
               \/ h.pc = "password" /\ ~Locked(user)
  PROVE  Moves(r, h)
  BY DEF Moves, Prudent, Barred, Locked, LoginTypeOK, Row

(* Every step moves one handler so, or none. *)
LEMMA StepMoves ==
  ASSUME LoginTypeOK, Reading, Next
  PROVE  \/ \E r \in Request : \E h \in Handler : Moves(r, h)
         \/ now' \in Nat /\ now' >= now /\ UNCHANGED <<req, late>>
<1>u. user \in Row /\ now \in Nat
  BY DEF LoginTypeOK
<1>1. ASSUME NEW r \in Request, PasswordGrant(r) PROVE \E h \in Handler : Moves(r, h)
  <2> DEFINE h == [Idle EXCEPT !.pc = "password", !.saw = user]
  <2>1. h \in Handler /\ h.pc = "password" /\ h.saw = user
    BY <1>u DEF Idle, Handler, Steps, Status
  <2> QED
    BY <1>1, <2>1, ArriveMoves DEF PasswordGrant
<1>2. ASSUME NEW r \in Request, VerifyPassword(r) PROVE \E h \in Handler : Moves(r, h)
  <2>1. CASE Admit(r)
    BY <1>2, <2>1, AdmitMoves DEF VerifyPassword
  <2>2. CASE Goto(r, [req[r] EXCEPT !.pc = "failure"])
    <3> DEFINE h == [req[r] EXCEPT !.pc = "failure"]
    <3>1. h \in Handler /\ h.pc = "failure" /\ h.saw = req[r].saw
      BY HandlerType DEF Handler, Steps
    <3> QED
      BY <1>2, <2>2, <3>1 DEF VerifyPassword, Moves, Reading, Prudent, Barred
  <2> QED
    BY <1>2, <2>1, <2>2 DEF VerifyPassword
<1>3. ASSUME NEW r \in Request, FlushFailure(r) PROVE \E h \in Handler : Moves(r, h)
  BY <1>3, IdleMoves DEF FlushFailure
<1>4. ASSUME NEW r \in Request, FlushSuccess(r) PROVE \E h \in Handler : Moves(r, h)
  <2> DEFINE h == [Idle EXCEPT !.token = req[r].token,
       !.pc = IF MfaEnabled /\ req[r].factor = "pwd" THEN "challenge" ELSE "issue"]
  <2>1. h \in Handler /\ h.pc \in {"challenge", "issue"}
    BY HandlerType, IdleType DEF Idle, Handler, Steps
  <2> QED
    BY <1>4, <2>1 DEF FlushSuccess, Moves, Prudent, Barred
<1>5. ASSUME NEW r \in Request, Issue(r) PROVE \E h \in Handler : Moves(r, h)
  BY <1>5, IdleMoves DEF Issue
<1>6. ASSUME NEW r \in Request, ReadUser(r) PROVE \E h \in Handler : Moves(r, h)
  <2> DEFINE h == [req[r] EXCEPT !.pc = "code", !.saw = user]
  <2>1. h \in Handler /\ h.pc = "code" /\ h.saw = user
    BY <1>u, HandlerType DEF Handler, Steps
  <2> QED
    BY <1>6, <2>1 DEF ReadUser, Moves, Prudent, Barred
<1>7. ASSUME NEW r \in Request, DirectGrant(r) PROVE \E h \in Handler : Moves(r, h)
  <2> DEFINE h == [Idle EXCEPT !.pc = "code", !.saw = user, !.factor = "other"]
  <2>1. h \in Handler /\ h.pc = "code" /\ h.saw = user
    BY <1>u DEF Idle, Handler, Steps, Status
  <2> QED
    BY <1>7, <2>1, ArriveMoves DEF DirectGrant
<1>8. ASSUME NEW r \in Request, CheckCode(r) PROVE \E h \in Handler : Moves(r, h)
  <2>1. CASE Goto(r, Idle)
    BY <1>8, <2>1, IdleMoves DEF CheckCode
  <2>2. CASE Goto(r, [req[r] EXCEPT !.pc = "consume"])
    <3> DEFINE h == [req[r] EXCEPT !.pc = "consume"]
    <3>1. h \in Handler /\ h.pc = "consume" /\ h.saw = req[r].saw
      BY HandlerType DEF Handler, Steps
    <3> QED
      BY <1>8, <2>2, <3>1 DEF CheckCode, Moves, Prudent, Barred
  <2>3. CASE Admit(r)
    BY <1>8, <2>3, AdmitMoves DEF CheckCode
  <2> QED
    BY <1>8, <2>1, <2>2, <2>3 DEF CheckCode
<1>9. ASSUME NEW r \in Request, ConsumeRead(r) PROVE \E h \in Handler : Moves(r, h)
  <2>1. CASE Goto(r, [req[r] EXCEPT !.pc = "delete"])
    <3> DEFINE h == [req[r] EXCEPT !.pc = "delete"]
    <3>1. h \in Handler /\ h.pc = "delete" /\ h.saw = req[r].saw
      BY HandlerType DEF Handler, Steps
    <3> QED
      BY <1>9, <2>1, <3>1 DEF ConsumeRead, Moves, Prudent, Barred
  <2>2. CASE Admit(r)
    BY <1>9, <2>2, AdmitMoves DEF ConsumeRead
  <2> QED
    BY <1>9, <2>1, <2>2 DEF ConsumeRead
<1>10. ASSUME NEW r \in Request, ConsumeDelete(r) PROVE \E h \in Handler : Moves(r, h)
  BY <1>10, AdmitMoves DEF ConsumeDelete
<1>11. ASSUME NEW r \in Request, NEW c \in Challenge, IssueChallenge(r, c)
       PROVE  \E h \in Handler : Moves(r, h)
  BY <1>11, IdleMoves DEF IssueChallenge
<1>12. ASSUME NEW r \in Request, NEW c \in Challenge, Peek(r, c)
       PROVE  \E h \in Handler : Moves(r, h)
  <2> DEFINE h == [Idle EXCEPT !.pc = "peeked", !.token = c, !.factor = "other"]
  <2>1. h \in Handler /\ h.pc = "peeked"
    BY IdleType DEF Idle, Handler, Steps
  <2> QED
    BY <1>12, <2>1, ArriveMoves DEF Peek
<1>13. ASSUME NEW r \in Request, NEW s \in Targets, ReadForStatus(r, s)
       PROVE  \E h \in Handler : Moves(r, h)
  <2> DEFINE h == [Idle EXCEPT !.pc = "status", !.saw = user, !.target = s]
  <2>1. h \in Handler /\ h.pc = "status" /\ h.saw = user
    BY <1>u, TargetsAreStatuses DEF Idle, Handler, Steps
  <2> QED
    BY <1>13, <2>1, ArriveMoves DEF ReadForStatus
<1>14. ASSUME NEW r \in Request, FlushStatus(r) PROVE \E h \in Handler : Moves(r, h)
  BY <1>14, IdleMoves DEF FlushStatus
<1>15. ASSUME NEW r \in Request, ReadForConfirm(r) PROVE \E h \in Handler : Moves(r, h)
  <2> DEFINE h == [Idle EXCEPT !.pc = "confirm", !.saw = user]
  <2>1. h \in Handler /\ h.pc = "confirm" /\ h.saw = user
    BY <1>u DEF Idle, Handler, Steps, Status
  <2> QED
    BY <1>15, <2>1, ArriveMoves DEF ReadForConfirm
<1>16. ASSUME NEW r \in Request, FlushConfirm(r) PROVE \E h \in Handler : Moves(r, h)
  BY <1>16, IdleMoves DEF FlushConfirm
<1>17. ASSUME NEW r \in Request, Abort(r) PROVE \E h \in Handler : Moves(r, h)
  BY <1>17, IdleMoves DEF Abort
<1>18. ASSUME NEW c \in Challenge, Lapse(c)
       PROVE  now' \in Nat /\ now' >= now /\ UNCHANGED <<req, late>>
  BY <1>u, <1>18 DEF Lapse
<1>19. ASSUME Tick PROVE now' \in Nat /\ now' >= now /\ UNCHANGED <<req, late>>
  BY <1>u, <1>19 DEF Tick
<1> QED
  BY <1>1, <1>2, <1>3, <1>4, <1>5, <1>6, <1>7, <1>8, <1>9, <1>10, <1>11, <1>12, <1>13,
     <1>14, <1>15, <1>16, <1>17, <1>18, <1>19 DEF Next

-----------------------------------------------------------------------------
(* Type correctness *)

(* What the handlers remember stays well typed. *)
LEMMA HandlersTyped ==
  ASSUME LoginTypeOK, Reading, Next
  PROVE  req' \in [Request -> Handler] /\ late' \subseteq Request
<1>1. CASE \E r \in Request : \E h \in Handler : Moves(r, h)
  BY <1>1, GotoType DEF Moves
<1>2. CASE UNCHANGED <<req, late>>
  BY <1>2 DEF LoginTypeOK
<1> QED
  BY <1>1, <1>2, StepMoves

LEMMA TypeStep ==
  ASSUME LoginTypeOK, Reading, [Next]_vars
  PROVE  LoginTypeOK'
<1> DEFINE Rest == /\ user' \in Row
                   /\ challenge' \in [Challenge -> {"none", "stored", "gone"}]
                   /\ now' \in Nat
                   /\ wrong' \in Nat /\ since' \in Nat /\ lost' \in BOOLEAN
                   /\ completed' \in [Challenge -> Nat]
                   /\ shared' \subseteq Challenge
<1>1. CASE UNCHANGED vars
  BY <1>1 DEF vars, counters, LoginTypeOK
<1>2. CASE Next
  <2>1. ASSUME NEW r \in Request,
               \/ PasswordGrant(r) \/ VerifyPassword(r) \/ ReadUser(r) \/ DirectGrant(r)
               \/ CheckCode(r) \/ ConsumeRead(r) \/ ReadForConfirm(r) \/ Abort(r)
               \/ \E s \in Targets : ReadForStatus(r, s)
        PROVE  Rest
    BY <2>1 DEF PasswordGrant, VerifyPassword, ReadUser, DirectGrant, CheckCode,
         ConsumeRead, ReadForConfirm, Abort, ReadForStatus, counters, LoginTypeOK
  <2>2. ASSUME NEW r \in Request, FlushFailure(r) PROVE Rest
    <3> DEFINE n == req[r].saw.failed + 1
               lock == IF n >= MaxFailures THEN now + Backoff(n - MaxFailures) ELSE user.lock
    <3>1. n \in Nat
      BY HandlerType
    <3>2. lock \in Nat
      <4> HIDE DEF n
      <4>1. CASE n >= MaxFailures
        <5>1. n - MaxFailures \in Nat
          BY <3>1, <4>1, LockoutIsPositive
        <5>2. Backoff(n - MaxFailures) \in Nat
          BY <5>1, BackoffType
        <5> QED
          BY <5>2 DEF LoginTypeOK, Row
      <4>2. CASE ~(n >= MaxFailures)
        BY <4>2 DEF LoginTypeOK, Row
      <4> QED
        BY <4>1, <4>2
    <3>3. user' \in Row
      <4>1. user' = [user EXCEPT !.failed = n, !.lock = lock]
        BY <2>2 DEF FlushFailure
      <4> HIDE DEF n, lock
      <4> QED
        BY <3>1, <3>2, <4>1 DEF LoginTypeOK, Row
    <3>4. (lost \/ Overtaken(r)) \in BOOLEAN /\ wrong + 1 \in Nat
      BY DEF LoginTypeOK
    <3> QED
      BY <2>2, <3>3, <3>4, NoteType DEF FlushFailure, LoginTypeOK
  <2>3. ASSUME NEW r \in Request, FlushSuccess(r) PROVE Rest
    BY <2>3, ClearedType, NoteClearedType DEF FlushSuccess, LoginTypeOK
  <2>4. ASSUME NEW r \in Request, Issue(r) PROVE Rest
    BY <2>4 DEF Issue, counters, LoginTypeOK
  <2>5. ASSUME NEW r \in Request, ConsumeDelete(r) PROVE Rest
    BY <2>5 DEF ConsumeDelete, counters, LoginTypeOK
  <2>6. ASSUME NEW r \in Request, NEW c \in Challenge, IssueChallenge(r, c) PROVE Rest
    BY <2>6 DEF IssueChallenge, counters, LoginTypeOK
  <2>7. ASSUME NEW r \in Request, NEW c \in Challenge, Peek(r, c) PROVE Rest
    BY <2>7 DEF Peek, counters, LoginTypeOK
  <2>8. ASSUME NEW r \in Request, FlushStatus(r) PROVE Rest
    <3> DEFINE status == IF req[r].saw.status # req[r].target THEN req[r].target ELSE user.status
    <3>1. status \in Status
      BY HandlerType DEF LoginTypeOK, Row
    <3>2. UNCHANGED <<challenge, now, completed, shared>>
      BY <2>8 DEF FlushStatus
    <3>3. CASE req[r].target = "active"
      <4>1. user' = [Cleared(r) EXCEPT !.status = status] /\ NoteCleared(r)
        BY <2>8, <3>3 DEF FlushStatus
      <4> HIDE DEF status
      <4>2. user' \in Row
        BY <3>1, <4>1, ClearedType DEF Row
      <4> QED
        BY <3>2, <4>1, <4>2, NoteClearedType DEF LoginTypeOK
    <3>4. CASE req[r].target # "active"
      <4>1. user' = [user EXCEPT !.status = status] /\ UNCHANGED counters
        BY <2>8, <3>4 DEF FlushStatus
      <4> HIDE DEF status
      <4>2. user' \in Row
        BY <3>1, <4>1 DEF LoginTypeOK, Row
      <4> QED
        BY <3>2, <4>1, <4>2 DEF counters, LoginTypeOK
    <3> QED
      BY <3>3, <3>4
  <2>9. ASSUME NEW r \in Request, FlushConfirm(r) PROVE Rest
    BY <2>9 DEF FlushConfirm, counters, LoginTypeOK, Row, Status
  <2>10. ASSUME NEW c \in Challenge, Lapse(c) PROVE Rest
    BY <2>10 DEF Lapse, counters, LoginTypeOK
  <2>11. ASSUME Tick PROVE Rest
    BY <2>11 DEF Tick, counters, LoginTypeOK
  <2>12. Rest
    BY <1>2, <2>1, <2>2, <2>3, <2>4, <2>5, <2>6, <2>7, <2>8, <2>9, <2>10, <2>11 DEF Next
  <2> QED
    BY <1>2, <2>12, HandlersTyped DEF LoginTypeOK
<1> QED
  BY <1>1, <1>2

LEMMA ReadingStep ==
  ASSUME LoginTypeOK, Reading, [Next]_vars
  PROVE  Reading'
<1>1. CASE UNCHANGED vars
  BY <1>1 DEF vars, Reading, Prudent
<1>2. ASSUME NEW r \in Request, NEW h \in Handler, Moves(r, h) PROVE Reading'
  <2>1. req'[r] = h /\ \A q \in Request \ {r} : req'[q] = req[q]
    BY <1>2, GotoType DEF Moves
  <2> QED
    BY <1>2, <2>1 DEF Moves, Reading, Prudent
<1>3. ASSUME now' \in Nat, now' >= now, UNCHANGED <<req, late>> PROVE Reading'
  BY <1>3, HandlerType DEF Reading, Prudent, LoginTypeOK
<1> QED
  BY <1>1, <1>2, <1>3, StepMoves

LEMMA Initially ==
  ASSUME Init
  PROVE  LoginTypeOK /\ Reading /\ LateBarred
<1>1. Fresh \in Row
  BY DEF Fresh, Row, Status
<1>2. req \in [Request -> Handler]
  BY IdleType DEF Init
<1>3. LoginTypeOK
  BY <1>1, <1>2 DEF Init, LoginTypeOK
<1>4. \A r \in Request : req[r].pc = "idle"
  BY DEF Init, Idle
<1>5. late = {}
  BY DEF Init
<1> QED
  BY <1>3, <1>4, <1>5 DEF Reading, Prudent, LateBarred

(* The state of a login is well typed: the reads, writes and challenges of  *)
(* all grants, the administrator and the confirmations keep every column,   *)
(* entry and handler in its range.                                          *)
THEOREM TypeCorrect == Spec => []LoginTypeOK
<1>1. Init => LoginTypeOK /\ Reading
  BY Initially
<1>2. LoginTypeOK /\ Reading /\ [Next]_vars => LoginTypeOK' /\ Reading'
  BY TypeStep, ReadingStep
<1> QED
  BY <1>1, <1>2, PTL DEF Spec

-----------------------------------------------------------------------------
(* A disabled account *)

LEMMA LateStep ==
  ASSUME LoginTypeOK, Reading, LateBarred, [Next]_vars
  PROVE  LateBarred'
<1>1. CASE UNCHANGED vars
  BY <1>1 DEF vars, LateBarred, Barred
<1>2. ASSUME NEW r \in Request, NEW h \in Handler, Moves(r, h) PROVE LateBarred'
  <2>1. req'[r] = h /\ \A q \in Request \ {r} : req'[q] = req[q]
    BY <1>2, GotoType DEF Moves
  <2>2. CASE user.status # "disabled"
    BY <1>2, <2>2 DEF Moves, Goto, LateBarred
  <2>3. CASE user.status = "disabled"
    <3> SUFFICES ASSUME NEW q \in late' PROVE Barred(req'[q])
      BY DEF LateBarred, Barred
    <3>1. CASE q = r
      <4>1. h.pc # "idle" /\ (req[r].pc = "idle" \/ r \in late)
        BY <1>2, <2>3, <3>1 DEF Moves, Goto
      <4> QED
        BY <1>2, <2>1, <2>3, <3>1, <4>1 DEF Moves, LateBarred
    <3>2. CASE q # r
      <4>1. q \in late /\ q \in Request
        BY <1>2, <2>3, <3>2 DEF Moves, Goto, LoginTypeOK
      <4> QED
        BY <2>1, <3>2, <4>1 DEF LateBarred
    <3> QED
      BY <3>1, <3>2
  <2> QED
    BY <2>2, <2>3
<1>3. ASSUME UNCHANGED <<req, late>> PROVE LateBarred'
  BY <1>3 DEF LateBarred, Barred
<1> QED
  BY <1>1, <1>2, <1>3, StepMoves

(* Who arrives at a disabled account gets no tokens and no challenge by any *)
(* of the grants (isLoginable, asked on the row each grant has read), for   *)
(* any number of handlers.                                                  *)
THEOREM Disabled == Spec => []DisabledStayOut
<1>1. Init => LoginTypeOK /\ Reading /\ LateBarred
  BY Initially
<1>2. LoginTypeOK /\ Reading /\ LateBarred /\ [Next]_vars
        => LoginTypeOK' /\ Reading' /\ LateBarred'
  BY TypeStep, ReadingStep, LateStep
<1>3. LateBarred => DisabledStayOut
  BY DEF LateBarred, Barred, DisabledStayOut
<1> QED
  BY <1>1, <1>2, <1>3, PTL DEF Spec

-----------------------------------------------------------------------------
(* Locks and blocks *)

Lifts == \/ Locked(user) /\ user'.lock < user.lock
         \/ user.status = "disabled" /\ user'.status # "disabled"
Excused == \E r \in Request : FlushStatus(r) \/ (req'[r] # req[r] /\ req[r].saw # user)

(* Only these four write the row. *)
LEMMA Writers ==
  ASSUME Next
  PROVE  \/ user' = user
         \/ \E r \in Request :
              FlushFailure(r) \/ FlushSuccess(r) \/ FlushStatus(r) \/ FlushConfirm(r)
  BY DEF Next, PasswordGrant, VerifyPassword, Issue, ReadUser, DirectGrant, CheckCode,
     ConsumeRead, ConsumeDelete, IssueChallenge, Peek, ReadForStatus, ReadForConfirm,
     Abort, Lapse, Tick

LEMMA LiftStep ==
  ASSUME LoginTypeOK, Reading, [Next]_vars, Lifts
  PROVE  Excused
<1>u. user \in Row /\ now \in Nat
  BY DEF LoginTypeOK
<1>1. user' # user
  BY <1>u DEF Lifts, Row
<1>2. PICK r \in Request :
        FlushFailure(r) \/ FlushSuccess(r) \/ FlushStatus(r) \/ FlushConfirm(r)
  BY <1>1, Writers DEF vars
<1>3. CASE FlushStatus(r)
  BY <1>3 DEF Excused
<1>4. ASSUME req[r].pc \notin {"idle", "challenge", "issue"},
             req'[r].pc \in {"idle", "challenge", "issue"}
      PROVE  req'[r] # req[r]
  BY <1>4
<1>5. CASE FlushFailure(r) \/ FlushSuccess(r)
  <2>1. req[r].pc \in {"failure", "success"} /\ req'[r] # req[r]
    <3> DEFINE pc == IF MfaEnabled /\ req[r].factor = "pwd" THEN "challenge" ELSE "issue"
               h == [Idle EXCEPT !.token = req[r].token, !.pc = pc]
    <3>1. pc \in {"challenge", "issue"}
      OBVIOUS
    <3>2. h.pc = pc
      <4> HIDE DEF pc
      <4> QED
        BY DEF Idle
    <3>3. \/ req[r].pc = "failure" /\ Goto(r, Idle)
          \/ req[r].pc = "success" /\ Goto(r, h)
      BY <1>5 DEF FlushFailure, FlushSuccess
    <3> HIDE DEF h, pc
    <3>4. req'[r] \in {Idle, h}
      BY <3>3 DEF Goto, LoginTypeOK
    <3> QED
      BY <3>1, <3>2, <3>3, <3>4 DEF Idle
  <2>2. req[r].saw.lock <= now
    BY <2>1 DEF Reading, Prudent
  <2>3. user'.status = user.status
    BY <1>5, <1>u DEF FlushFailure, FlushSuccess, Cleared, Row
  <2>4. ~(req[r].saw.lock > now)
    BY <2>2, HandlerType, <1>u
  <2>5. req[r].saw # user
    BY <2>3, <2>4 DEF Lifts, Locked
  <2> QED
    BY <2>1, <2>5 DEF Excused
<1>6. CASE FlushConfirm(r)
  <2>1. req'[r] # req[r]
    BY <1>4, <1>6 DEF FlushConfirm, Goto, LoginTypeOK, Idle
  <2>2. user'.lock = user.lock /\ req[r].saw.status = "pending"
    BY <1>1, <1>6, <1>u DEF FlushConfirm, Row
  <2>3. user.status = "disabled"
    BY <2>2, <1>u DEF Lifts, Row
  <2> QED
    BY <2>1, <2>2, <2>3 DEF Excused
<1> QED
  BY <1>2, <1>3, <1>5, <1>6

(* A lock in force and a block stand until an administrator lifts them or a *)
(* handler writes that had read the row before (the flushes of              *)
(* registerFailedLogin, registerSuccessfulLogin and the confirmations).     *)
THEOREM Standing == Spec => LocksAndBlocksStand
<1>1. LoginTypeOK /\ Reading /\ [Next]_vars => (Lifts => Excused)
  BY LiftStep
<1>2. Init => LoginTypeOK /\ Reading
  BY Initially
<1>3. LoginTypeOK /\ Reading /\ [Next]_vars => LoginTypeOK' /\ Reading'
  BY TypeStep, ReadingStep
<1>4. Spec => [][Lifts => Excused]_vars
  BY <1>1, <1>2, <1>3, PTL DEF Spec
<1> QED
  BY <1>4 DEF LocksAndBlocksStand, Lifts, Excused

-----------------------------------------------------------------------------
(* Guessing *)

(* How long k doubling locks last together. *)
Wait(k) == Base * (2 ^ k - 1)

LEMMA WaitDoubles ==
  ASSUME NEW k \in 0..BackoffCap
  PROVE  /\ Wait(k) \in Nat /\ Wait(k + 1) \in Nat
         /\ Backoff(k) \in Nat
         /\ Wait(k + 1) = Wait(k) + Backoff(k)
<1>1. PICK p \in Nat : p = 2 ^ k /\ 2 ^ (k + 1) = 2 * p
  BY PowersOfTwo
<1>2. Backoff(k) = Base * p
  <2>1. k < BackoffCap \/ k = BackoffCap
    BY DEF BackoffCap
  <2> QED
    BY <1>1, <2>1 DEF Backoff
<1>3. p # 0
  BY <1>1, PowersOfTwo
<1>4. Wait(k) = Base * (p - 1) /\ Wait(k + 1) = Base * (2 * p - 1)
  BY <1>1 DEF Wait
<1>5. Base \in Nat /\ p - 1 \in Nat /\ 2 * p - 1 \in Nat
  BY <1>3, LockoutIsPositive
<1>6. Base * (2 * p - 1) = Base * (p - 1) + Base * p
  BY <1>5
<1>7. \A a, b \in Nat : a * b \in Nat
  OBVIOUS
<1> QED
  BY <1>2, <1>4, <1>5, <1>6, <1>7

(* Unless a write was lost, the counter is the number of wrong passwords,   *)
(* each lock runs for what its number asks for, and so does the time since  *)
(* the first of them.                                                       *)
Slowing ==
  ~lost =>
    /\ user.failed = wrong
    /\ wrong # 0 => since <= now
    /\ \A k \in 0..BackoffCap :
         wrong = MaxFailures + k => user.lock - since >= Wait(k + 1)
    /\ \A k \in 0..BackoffCap :
         wrong = MaxFailures + k + 1 => now - since >= Wait(k + 1)

LEMMA SlowingLast ==
  ASSUME LoginTypeOK, Slowing
  PROVE  GuessingSlowsUnlessLost
<1> DEFINE k == wrong - MaxFailures
<1> SUFFICES ASSUME ~lost, k \in 1..(BackoffCap + 1) PROVE now - since >= Base * (2 ^ k - 1)
  BY DEF GuessingSlowsUnlessLost
<1>1. wrong \in Nat /\ MaxFailures \in Nat
  BY LockoutIsPositive DEF LoginTypeOK
<1>2. k - 1 \in 0..BackoffCap /\ wrong = MaxFailures + (k - 1) + 1 /\ (k - 1) + 1 = k
  BY <1>1 DEF BackoffCap
<1>3. now - since >= Wait(k)
  BY <1>2 DEF Slowing
<1> QED
  BY <1>3 DEF Wait

(* A failure that is counted: the lock it set before has run out. *)
LEMMA FailureSlows ==
  ASSUME LoginTypeOK, Reading, Slowing, NEW r \in Request, FlushFailure(r)
  PROVE  Slowing'
<1> DEFINE n == req[r].saw.failed + 1
<1> SUFFICES ASSUME ~lost' PROVE Slowing'
  BY DEF Slowing
<1>1. /\ ~lost /\ wrong' = wrong + 1
      /\ since' = IF wrong = 0 THEN now ELSE since
      /\ req[r].saw.failed = user.failed /\ req[r].saw.lock = user.lock
  <2>1. Note(wrong + 1, lost \/ Overtaken(r))
    BY DEF FlushFailure
  <2>2. lost' = (lost \/ Overtaken(r))
    BY <2>1 DEF Note
  <2>3. ~lost /\ ~Overtaken(r)
    BY <2>2
  <2>4. wrong + 1 # 0
    BY DEF LoginTypeOK
  <2>5. wrong' = wrong + 1
    BY <2>1, <2>3 DEF Note
  <2>6. since' = IF wrong = 0 THEN now ELSE since
    BY <2>1, <2>4, <2>5 DEF Note
  <2> QED
    BY <2>3, <2>5, <2>6 DEF Overtaken
<1>2. /\ wrong \in Nat /\ since \in Nat /\ now \in Nat /\ user.lock \in Nat
      /\ MaxFailures \in Nat \ {0}
  BY LockoutIsPositive DEF LoginTypeOK, Row
<1>3. user.failed = wrong /\ n = wrong + 1
  BY <1>1 DEF Slowing
<1>4. user.lock <= now
  BY <1>1 DEF FlushFailure, Reading, Prudent
<1>5. /\ user'.failed = n /\ now' = now
      /\ n >= MaxFailures => user'.lock = now + Backoff(n - MaxFailures)
  BY DEF FlushFailure, LoginTypeOK, Row
<1> HIDE DEF n
<1>6. since' <= now
  BY <1>1, <1>2 DEF Slowing
<1>7. ASSUME NEW k \in 0..BackoffCap, wrong' = MaxFailures + k + 1
      PROVE  now' - since' >= Wait(k + 1)
  <2>1. wrong = MaxFailures + k /\ wrong # 0
    BY <1>1, <1>2, <1>7
  <2>2. user.lock - since >= Wait(k + 1) /\ since' = since
    BY <1>1, <2>1 DEF Slowing
  <2> QED
    BY <1>2, <1>4, <1>5, <2>2, WaitDoubles
<1>8. ASSUME NEW k \in 0..BackoffCap, wrong' = MaxFailures + k
      PROVE  user'.lock - since' >= Wait(k + 1)
  <2>1. user'.lock = now + Backoff(k)
    BY <1>1, <1>2, <1>3, <1>5, <1>8
  <2>2. now - since' >= Wait(k)
    <3>1. CASE k = 0
      <4>1. Wait(0) = 0
        BY PowersOfTwo, LockoutIsPositive DEF Wait
      <4> QED
        BY <1>2, <1>1, <1>6, <3>1, <4>1
    <3>2. CASE k # 0
      <4> DEFINE j == k - 1
      <4>1. j \in 0..BackoffCap /\ k = j + 1
        BY <3>2 DEF BackoffCap
      <4>2. wrong' = MaxFailures + j + 1
        BY <1>2, <1>8, <4>1
      <4> HIDE DEF j
      <4>3. now' - since' >= Wait(j + 1)
        BY <1>7, <4>1, <4>2
      <4> QED
        BY <1>5, <4>1, <4>3
    <3> QED
      BY <3>1, <3>2
  <2>3. since' \in Nat /\ Wait(k + 1) = Wait(k) + Backoff(k)
        /\ Wait(k) \in Nat /\ Backoff(k) \in Nat
    BY <1>1, <1>2, WaitDoubles
  <2> QED
    BY <1>2, <2>1, <2>2, <2>3
<1> QED
  BY <1>1, <1>3, <1>5, <1>6, <1>7, <1>8 DEF Slowing

(* A reset of the counters, by a login that succeeded or an administrator. *)
LEMMA ClearingSlows ==
  ASSUME LoginTypeOK, Slowing, NEW r \in Request, NoteCleared(r), now' = now,
         user'.failed = Cleared(r).failed, user'.lock = Cleared(r).lock
  PROVE  Slowing'
<1> SUFFICES ASSUME ~lost' PROVE Slowing'
  BY DEF Slowing
<1>1. /\ wrong \in Nat /\ since \in Nat /\ now \in Nat /\ user.lock \in Nat
      /\ MaxFailures \in Nat \ {0}
  BY LockoutIsPositive DEF LoginTypeOK, Row
<1>2. CASE req[r].saw.failed # 0
  <2>1. wrong' = 0
    BY <1>2 DEF NoteCleared, Note
  <2>2. user'.failed = 0
    BY <1>2 DEF Cleared, LoginTypeOK, Row
  <2> QED
    BY <1>1, <2>1, <2>2 DEF Slowing, BackoffCap
<1>3. CASE req[r].saw.failed = 0
  <2>1. Note(wrong, lost \/ (req[r].saw.lock # 0 /\ Overtaken(r)))
    BY <1>3 DEF NoteCleared
  <2>2. lost' = (lost \/ (req[r].saw.lock # 0 /\ Overtaken(r)))
    BY <2>1 DEF Note
  <2>3. ~lost /\ (req[r].saw.lock # 0 => ~Overtaken(r))
    BY <2>2
  <2>4. wrong' = wrong
    BY <2>1, <2>3 DEF Note
  <2>5. since' = IF wrong = 0 THEN 0 ELSE since
    BY <2>1, <2>4 DEF Note
  <2>6. user'.failed = user.failed /\ user.failed = wrong
    BY <1>3, <2>3 DEF Cleared, LoginTypeOK, Row, Slowing
  <2>7. CASE wrong = 0
    BY <1>1, <2>4, <2>6, <2>7 DEF Slowing, BackoffCap
  <2>8. CASE wrong # 0
    <3>1. req[r].saw.lock = 0
      BY <1>3, <2>3, <2>6, <2>8 DEF Overtaken
    <3>2. user'.lock = user.lock
      BY <3>1 DEF Cleared, LoginTypeOK, Row
    <3> QED
      BY <2>3, <2>4, <2>5, <2>6, <2>8, <3>2 DEF Slowing
  <2> QED
    BY <2>7, <2>8
<1> QED
  BY <1>2, <1>3

LEMMA SlowingStep ==
  ASSUME LoginTypeOK, Reading, Slowing, [Next]_vars
  PROVE  Slowing'
<1>1. ASSUME user'.failed = user.failed, user'.lock = user.lock, UNCHANGED counters,
             now' \in Nat, now' >= now
      PROVE  Slowing'
  <2>1. now \in Nat /\ since \in Nat /\ lost' = lost /\ wrong' = wrong /\ since' = since
    BY <1>1 DEF LoginTypeOK, counters
  <2>2. \A k \in 0..BackoffCap : Wait(k + 1) \in Nat
    BY WaitDoubles
  <2> QED
    BY <1>1, <2>1, <2>2 DEF Slowing
<1>2. CASE UNCHANGED vars
  BY <1>1, <1>2 DEF vars, counters, LoginTypeOK
<1>3. ASSUME NEW r \in Request, FlushFailure(r) PROVE Slowing'
  BY <1>3, FailureSlows
<1>4. ASSUME NEW r \in Request, FlushSuccess(r) PROVE Slowing'
  BY <1>4, ClearingSlows DEF FlushSuccess
<1>5. ASSUME NEW r \in Request, FlushStatus(r) PROVE Slowing'
  <2> DEFINE status == IF req[r].saw.status # req[r].target THEN req[r].target ELSE user.status
  <2>1. now' = now /\ now \in Nat
    BY <1>5 DEF FlushStatus, LoginTypeOK
  <2>2. CASE req[r].target = "active"
    <3>1. user' = [Cleared(r) EXCEPT !.status = status] /\ NoteCleared(r)
      BY <1>5, <2>2 DEF FlushStatus
    <3> HIDE DEF status
    <3>2. user'.failed = Cleared(r).failed /\ user'.lock = Cleared(r).lock
      BY <3>1, ClearedType DEF Row
    <3> QED
      BY <2>1, <3>1, <3>2, ClearingSlows
  <2>3. CASE req[r].target # "active"
    <3>1. user' = [user EXCEPT !.status = status] /\ UNCHANGED counters
      BY <1>5, <2>3 DEF FlushStatus
    <3> HIDE DEF status
    <3> QED
      BY <1>1, <2>1, <3>1 DEF LoginTypeOK, Row
  <2> QED
    BY <2>2, <2>3
<1>6. ASSUME NEW r \in Request, FlushConfirm(r) PROVE Slowing'
  <2>1. user'.failed = user.failed /\ user'.lock = user.lock
    BY <1>6 DEF FlushConfirm, LoginTypeOK, Row
  <2> QED
    BY <1>1, <1>6, <2>1 DEF FlushConfirm, LoginTypeOK
<1>7. ASSUME NEW r \in Request,
             \/ PasswordGrant(r) \/ VerifyPassword(r) \/ Issue(r) \/ ReadUser(r)
             \/ DirectGrant(r) \/ CheckCode(r) \/ ConsumeRead(r) \/ ConsumeDelete(r)
             \/ \E c \in Challenge : IssueChallenge(r, c) \/ Peek(r, c)
             \/ \E s \in Targets : ReadForStatus(r, s)
             \/ ReadForConfirm(r) \/ Abort(r)
      PROVE  Slowing'
  <2>1. user' = user /\ now' = now /\ UNCHANGED counters
    BY <1>7 DEF PasswordGrant, VerifyPassword, Issue, ReadUser, DirectGrant, CheckCode,
       ConsumeRead, ConsumeDelete, IssueChallenge, Peek, ReadForStatus, ReadForConfirm, Abort
  <2> QED
    BY <1>1, <2>1 DEF LoginTypeOK
<1>8. ASSUME NEW c \in Challenge, Lapse(c) PROVE Slowing'
  BY <1>1, <1>8 DEF Lapse, LoginTypeOK
<1>9. ASSUME Tick PROVE Slowing'
  BY <1>1, <1>9 DEF Tick, LoginTypeOK
<1> QED
  BY <1>2, <1>3, <1>4, <1>5, <1>6, <1>7, <1>8, <1>9 DEF Next

(* Guessing a password gets slower and slower: registerFailedLogin's locks  *)
(* double, and no grant tries a password on an account it has read locked,  *)
(* so k wrong ones beyond MaxFailures take the sum of k doubling locks, for *)
(* any MaxFailures and Base, unless a write of the counters was lost.       *)
THEOREM Guessing == Spec => []GuessingSlowsUnlessLost
<1>1. Init => LoginTypeOK /\ Reading /\ Slowing
  <2> SUFFICES ASSUME Init PROVE LoginTypeOK /\ Reading /\ Slowing
    OBVIOUS
  <2>1. wrong = 0 /\ user.failed = 0 /\ MaxFailures \in Nat \ {0}
    BY LockoutIsPositive DEF Init, Fresh
  <2> QED
    BY <2>1, Initially DEF Slowing, BackoffCap
<1>2. LoginTypeOK /\ Reading /\ Slowing /\ [Next]_vars
        => LoginTypeOK' /\ Reading' /\ Slowing'
  BY TypeStep, ReadingStep, SlowingStep
<1>3. LoginTypeOK /\ Slowing => GuessingSlowsUnlessLost
  BY SlowingLast
<1> QED
  BY <1>1, <1>2, <1>3, PTL DEF Spec

-----------------------------------------------------------------------------
(* Challenges *)

(* A challenge that was never shared has one holder at most; it is gone     *)
(* before its holder goes on to the tokens, and once a session is opened    *)
(* nobody holds it.                                                         *)
Once(c) ==
  /\ \A r, q \in Request : req[r].token = c /\ req[q].token = c => r = q
  /\ \A r \in Request : req[r].token = c =>
       /\ challenge[c] # "none" /\ completed[c] = 0
       /\ req[r].pc # "password"
       /\ req[r].pc \in {"success", "issue"} => challenge[c] = "gone"
  /\ completed[c] = 0 \/ (completed[c] = 1 /\ challenge[c] = "gone")

Unshared == \A c \in Challenge : c \in shared \/ Once(c)

(* Handler r moves to h and shares no challenge by it. *)
Keeps(r, h) ==
  /\ Goto(r, h)
  /\ shared' = shared /\ completed' = completed
  /\ \A c \in Challenge : challenge'[c] \in {challenge[c], "gone"}
  /\ h.token \in Challenge =>
       /\ h.token = req[r].token /\ h.pc # "password"
       /\ h.pc \in {"success", "issue"} /\ h.token \notin shared
            => challenge'[h.token] = "gone"

LEMMA KeepsOnce ==
  ASSUME LoginTypeOK, Unshared, NEW r \in Request, NEW h \in Handler, Keeps(r, h)
  PROVE  Unshared'
<1>1. req'[r] = h /\ \A q \in Request \ {r} : req'[q] = req[q]
  BY GotoType DEF Keeps
<1> SUFFICES ASSUME NEW c \in Challenge, c \notin shared PROVE Once(c)'
  BY DEF Unshared, Keeps
<1>2. Once(c) /\ completed' = completed /\ challenge'[c] \in {challenge[c], "gone"}
  BY DEF Unshared, Keeps
<1>3. \A q \in Request : req'[q].token = c => req[q].token = c
  BY <1>1 DEF Keeps
<1>4. ASSUME NEW q \in Request, req'[q].token = c
      PROVE  /\ challenge'[c] # "none" /\ completed'[c] = 0
             /\ req'[q].pc # "password"
             /\ req'[q].pc \in {"success", "issue"} => challenge'[c] = "gone"
  <2>1. challenge[c] # "none" /\ completed[c] = 0
    BY <1>2, <1>3, <1>4 DEF Once
  <2>2. CASE q = r
    BY <1>1, <1>2, <1>4, <2>1, <2>2 DEF Keeps
  <2>3. CASE q # r
    BY <1>1, <1>2, <1>4, <2>1, <2>3 DEF Once
  <2> QED
    BY <2>2, <2>3
<1> QED
  BY <1>2, <1>3, <1>4 DEF Once

LEMMA IdleKeeps ==
  ASSUME LoginTypeOK, NEW r \in Request, Goto(r, Idle), shared' = shared,
         completed' = completed, \A c \in Challenge : challenge'[c] \in {challenge[c], "gone"}
  PROVE  \E h \in Handler : Keeps(r, h)
  BY IdleType, NoneIsNoChallenge DEF Keeps, Idle

(* A new handler without a challenge. *)
LEMMA FreshKeeps ==
  ASSUME LoginTypeOK, NEW r \in Request, NEW h \in Handler, Goto(r, h), h.token = None,
         UNCHANGED <<shared, completed, challenge>>
  PROVE  Keeps(r, h)
  BY NoneIsNoChallenge DEF Keeps

LEMMA AdmitKeeps ==
  ASSUME LoginTypeOK, NEW r \in Request, Admit(r), shared' = shared,
         completed' = completed, \A c \in Challenge : challenge'[c] \in {challenge[c], "gone"},
         req[r].token \in Challenge \ shared => challenge'[req[r].token] = "gone"
  PROVE  \E h \in Handler : Keeps(r, h)
<1>1. CASE Loginable(req[r].saw)
  <2> DEFINE h == [req[r] EXCEPT !.pc = "success"]
  <2>1. h \in Handler /\ h.pc = "success" /\ h.token = req[r].token
    BY HandlerType DEF Handler, Steps
  <2> QED
    BY <1>1, <2>1 DEF Keeps, Admit
<1>2. CASE ~Loginable(req[r].saw)
  BY <1>2, IdleKeeps DEF Admit
<1> QED
  BY <1>1, <1>2

LEMMA KeepingSteps ==
  ASSUME LoginTypeOK, Unshared, NEW r \in Request,
         \/ PasswordGrant(r) \/ VerifyPassword(r) \/ FlushFailure(r) \/ FlushSuccess(r)
         \/ ReadUser(r) \/ DirectGrant(r) \/ CheckCode(r) \/ ConsumeRead(r)
         \/ ConsumeDelete(r) \/ (\E s \in Targets : ReadForStatus(r, s))
         \/ FlushStatus(r) \/ ReadForConfirm(r) \/ FlushConfirm(r) \/ Abort(r)
  PROVE  \E h \in Handler : Keeps(r, h)
<1>u. user \in Row /\ req[r] \in Handler
  BY DEF LoginTypeOK
<1>o. ASSUME req[r].token \in Challenge \ shared
      PROVE  /\ challenge[req[r].token] # "none" /\ req[r].pc # "password"
             /\ req[r].pc \in {"success", "issue"} => challenge[req[r].token] = "gone"
  BY <1>o DEF Unshared, Once
<1>1. CASE PasswordGrant(r)
  <2> DEFINE h == [Idle EXCEPT !.pc = "password", !.saw = user]
  <2>1. h \in Handler /\ h.token = None
    BY <1>u, IdleType DEF Idle, Handler, Steps
  <2> QED
    BY <1>1, <2>1, FreshKeeps DEF PasswordGrant
<1>2. CASE VerifyPassword(r)
  <2> DEFINE h == [req[r] EXCEPT !.pc = "failure"]
  <2>1. h \in Handler /\ h.token = req[r].token /\ h.pc = "failure"
    BY <1>u DEF Handler, Steps
  <2>2. CASE Admit(r)
    BY <1>2, <2>2, <1>o, AdmitKeeps DEF VerifyPassword
  <2>3. CASE Goto(r, h)
    BY <1>2, <2>1, <2>3 DEF VerifyPassword, Keeps
  <2> QED
    BY <1>2, <2>2, <2>3 DEF VerifyPassword
<1>3. CASE FlushSuccess(r)
  <2> DEFINE pc == IF MfaEnabled /\ req[r].factor = "pwd" THEN "challenge" ELSE "issue"
             h == [Idle EXCEPT !.token = req[r].token, !.pc = pc]
  <2>1. pc \in {"challenge", "issue"}
    OBVIOUS
  <2>2. Goto(r, h) /\ req[r].pc = "success" /\ UNCHANGED <<challenge, completed, shared>>
    BY <1>3 DEF FlushSuccess
  <2> HIDE DEF pc
  <2>3. h \in Handler /\ h.token = req[r].token /\ h.pc = pc
    BY <1>u, <2>1, HandlerType, IdleType DEF Idle, Handler, Steps
  <2> HIDE DEF h
  <2> QED
    BY <1>o, <2>1, <2>2, <2>3 DEF Keeps
<1>4. CASE ReadUser(r)
  <2> DEFINE h == [req[r] EXCEPT !.pc = "code", !.saw = user]
  <2>1. h \in Handler /\ h.token = req[r].token /\ h.pc = "code"
    BY <1>u DEF Handler, Steps
  <2> QED
    BY <1>4, <2>1 DEF ReadUser, Keeps
<1>5. CASE DirectGrant(r)
  <2> DEFINE h == [Idle EXCEPT !.pc = "code", !.saw = user, !.factor = "other"]
  <2>1. h \in Handler /\ h.token = None
    BY <1>u, IdleType DEF Idle, Handler, Steps
  <2> QED
    BY <1>5, <2>1, FreshKeeps DEF DirectGrant
<1>6. CASE CheckCode(r)
  <2> DEFINE h == [req[r] EXCEPT !.pc = "consume"]
  <2>1. h \in Handler /\ h.token = req[r].token /\ h.pc = "consume"
    BY <1>u DEF Handler, Steps
  <2>2. CASE Goto(r, Idle)
    BY <1>6, <2>2, IdleKeeps DEF CheckCode
  <2>3. CASE Goto(r, h)
    BY <1>6, <2>1, <2>3 DEF CheckCode, Keeps
  <2>4. CASE req[r].token = None /\ Admit(r)
    BY <1>6, <2>4, NoneIsNoChallenge, AdmitKeeps DEF CheckCode
  <2> QED
    BY <1>6, <2>2, <2>3, <2>4 DEF CheckCode
<1>7. CASE ConsumeRead(r)
  <2> DEFINE h == [req[r] EXCEPT !.pc = "delete"]
  <2>1. h \in Handler /\ h.token = req[r].token /\ h.pc = "delete"
    BY <1>u DEF Handler, Steps
  <2>2. CASE challenge[req[r].token] = "stored"
    BY <1>7, <2>1, <2>2 DEF ConsumeRead, Keeps
  <2>3. CASE challenge[req[r].token] # "stored"
    <3>1. req[r].token \in Challenge \ shared => challenge[req[r].token] = "gone"
      BY <1>o, <2>3 DEF LoginTypeOK
    <3> QED
      BY <1>7, <2>3, <3>1, AdmitKeeps DEF ConsumeRead
  <2> QED
    BY <2>2, <2>3
<1>8. CASE ConsumeDelete(r)
  <2>1. challenge' = [challenge EXCEPT ![req[r].token] = "gone"] /\ Admit(r)
        /\ UNCHANGED <<completed, shared>>
    BY <1>8 DEF ConsumeDelete
  <2>2. \A c \in Challenge : challenge'[c] \in {challenge[c], "gone"}
    BY <2>1 DEF LoginTypeOK
  <2>3. req[r].token \in Challenge \ shared => challenge'[req[r].token] = "gone"
    BY <2>1 DEF LoginTypeOK
  <2> QED
    BY <2>1, <2>2, <2>3, AdmitKeeps
<1>9. CASE \E s \in Targets : ReadForStatus(r, s)
  <2>1. PICK s \in Targets : ReadForStatus(r, s)
    BY <1>9
  <2> DEFINE h == [Idle EXCEPT !.pc = "status", !.saw = user, !.target = s]
  <2>2. h \in Handler /\ h.token = None
    BY <1>u, IdleType, TargetsAreStatuses DEF Idle, Handler, Steps
  <2> QED
    BY <2>1, <2>2, FreshKeeps DEF ReadForStatus
<1>10. CASE ReadForConfirm(r)
  <2> DEFINE h == [Idle EXCEPT !.pc = "confirm", !.saw = user]
  <2>1. h \in Handler /\ h.token = None
    BY <1>u, IdleType DEF Idle, Handler, Steps
  <2> QED
    BY <1>10, <2>1, FreshKeeps DEF ReadForConfirm
<1>11. CASE FlushFailure(r) \/ FlushStatus(r) \/ FlushConfirm(r) \/ Abort(r)
  BY <1>11, IdleKeeps DEF FlushFailure, FlushStatus, FlushConfirm, Abort
<1> QED
  BY <1>1, <1>2, <1>3, <1>4, <1>5, <1>6, <1>7, <1>8, <1>9, <1>10, <1>11

LEMMA UnsharedStep ==
  ASSUME LoginTypeOK, Unshared, [Next]_vars
  PROVE  Unshared'
<1>1. CASE UNCHANGED vars
  BY <1>1 DEF vars, Unshared, Once
<1>2. ASSUME NEW r \in Request,
             \/ PasswordGrant(r) \/ VerifyPassword(r) \/ FlushFailure(r) \/ FlushSuccess(r)
             \/ ReadUser(r) \/ DirectGrant(r) \/ CheckCode(r) \/ ConsumeRead(r)
             \/ ConsumeDelete(r) \/ (\E s \in Targets : ReadForStatus(r, s))
             \/ FlushStatus(r) \/ ReadForConfirm(r) \/ FlushConfirm(r) \/ Abort(r)
      PROVE  Unshared'
  BY <1>2, KeepingSteps, KeepsOnce
<1>3. ASSUME NEW r \in Request, Issue(r) PROVE Unshared'
  <2>1. /\ req'[r].token = None /\ \A q \in Request \ {r} : req'[q] = req[q]
        /\ completed' = [c \in Challenge |->
              IF c = req[r].token THEN completed[c] + 1 ELSE completed[c]]
        /\ challenge' = challenge /\ shared' = shared /\ req[r].pc = "issue"
    BY <1>3 DEF Issue, Goto, LoginTypeOK, Idle
  <2> SUFFICES ASSUME NEW c \in Challenge, c \notin shared PROVE Once(c)'
    BY <2>1 DEF Unshared
  <2>2. Once(c)
    BY DEF Unshared
  <2>3. CASE c = req[r].token
    <3>1. completed'[c] = 1 /\ challenge'[c] = "gone"
      BY <2>1, <2>2, <2>3 DEF Once
    <3>2. \A q \in Request : req'[q].token # c
      BY <2>1, <2>2, <2>3, NoneIsNoChallenge DEF Once
    <3> QED
      BY <3>1, <3>2 DEF Once
  <2>4. CASE c # req[r].token
    <3>1. completed'[c] = completed[c]
      BY <2>1, <2>4
    <3>2. \A q \in Request : req'[q].token = c => q # r /\ req'[q] = req[q]
      BY <2>1, NoneIsNoChallenge
    <3> QED
      BY <2>1, <2>2, <3>1, <3>2 DEF Once
  <2> QED
    BY <2>3, <2>4
<1>4. ASSUME NEW r \in Request, NEW d \in Challenge, IssueChallenge(r, d) PROVE Unshared'
  <2>1. /\ req'[r].token = None /\ \A q \in Request \ {r} : req'[q] = req[q]
        /\ challenge[d] = "none" /\ \A c \in Challenge \ {d} : challenge'[c] = challenge[c]
        /\ completed' = completed /\ shared' = shared
    BY <1>4 DEF IssueChallenge, Goto, LoginTypeOK, Idle
  <2> SUFFICES ASSUME NEW c \in Challenge, c \notin shared PROVE Once(c)'
    BY <2>1 DEF Unshared
  <2>2. Once(c)
    BY DEF Unshared
  <2>3. \A q \in Request : req'[q].token = c => q # r /\ req'[q] = req[q] /\ c # d
    BY <2>1, <2>2, NoneIsNoChallenge DEF Once
  <2>4. completed[c] = 1 => c # d
    BY <2>1, <2>2 DEF Once
  <2> QED
    BY <2>1, <2>2, <2>3, <2>4 DEF Once
<1>5. ASSUME NEW r \in Request, NEW d \in Challenge, Peek(r, d) PROVE Unshared'
  <2> DEFINE h == [Idle EXCEPT !.pc = "peeked", !.token = d, !.factor = "other"]
  <2>1. h \in Handler /\ h.pc = "peeked" /\ h.token = d
    BY IdleType DEF Idle, Handler, Steps
  <2>2. req'[r] = h /\ \A q \in Request \ {r} : req'[q] = req[q]
    BY <1>5, <2>1, GotoType DEF Peek
  <2>3. /\ challenge[d] = "stored" /\ UNCHANGED <<challenge, completed>>
        /\ shared \subseteq shared'
        /\ d \notin shared' => \A q \in Request : req[q].token # d
    BY <1>5 DEF Peek
  <2> HIDE DEF h
  <2> SUFFICES ASSUME NEW c \in Challenge, c \notin shared' PROVE Once(c)'
    BY DEF Unshared
  <2>4. Once(c)
    BY <2>3 DEF Unshared
  <2>5. CASE c = d
    <3>1. \A q \in Request : req'[q].token = c => q = r
      BY <2>2, <2>3, <2>5
    <3>2. completed'[c] = 0 /\ challenge'[c] = "stored"
      BY <2>3, <2>4, <2>5 DEF Once
    <3> QED
      BY <2>1, <2>2, <3>1, <3>2 DEF Once
  <2>6. CASE c # d
    <3>1. \A q \in Request : req'[q].token = c => q # r /\ req'[q] = req[q]
      BY <2>1, <2>2, <2>6
    <3> QED
      BY <2>3, <2>4, <3>1 DEF Once
  <2> QED
    BY <2>5, <2>6
<1>6. ASSUME NEW d \in Challenge, Lapse(d) PROVE Unshared'
  <2>1. UNCHANGED <<req, completed, shared>>
        /\ \A c \in Challenge : challenge'[c] \in {challenge[c], "gone"}
    BY <1>6 DEF Lapse, LoginTypeOK
  <2> QED
    BY <2>1 DEF Unshared, Once
<1>7. CASE Tick
  BY <1>7 DEF Tick, Unshared, Once
<1> QED
  BY <1>1, <1>2, <1>3, <1>4, <1>5, <1>6, <1>7 DEF Next

(* An mfa_token completes one login: consume deletes the challenge before   *)
(* the tokens are issued, so that only grants that had read it before the   *)
(* deletion, beside another one, can complete it again.                     *)
THEOREM Completing == Spec => []ChallengeOnceUnlessShared
<1>1. Init => LoginTypeOK /\ Reading /\ Unshared
  <2> SUFFICES ASSUME Init PROVE LoginTypeOK /\ Reading /\ Unshared
    OBVIOUS
  <2>1. /\ \A r \in Request : req[r].token = None
        /\ \A c \in Challenge : completed[c] = 0
    BY DEF Init, Idle
  <2> QED
    BY <2>1, Initially, NoneIsNoChallenge DEF Unshared, Once
<1>2. LoginTypeOK /\ Reading /\ Unshared /\ [Next]_vars
        => LoginTypeOK' /\ Reading' /\ Unshared'
  BY TypeStep, ReadingStep, UnsharedStep
<1>3. Unshared => ChallengeOnceUnlessShared
  BY DEF Unshared, Once, ChallengeOnceUnlessShared
<1> QED
  BY <1>1, <1>2, <1>3, PTL DEF Spec
=============================================================================
