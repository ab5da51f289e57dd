---------------------------- MODULE RecoveryProofs ----------------------------
(***************************************************************************)
(* Theorems about Recovery, for any number of handlers, messages, sessions  *)
(* and credentials rows, and first about the queue it extends, for any      *)
(* messages, attempts and stalls, and whichever of the attempts go wrong.   *)
(***************************************************************************)
EXTENDS Recovery, FiniteSetTheorems, TLAPS

(* A job that has not ended has an attempt left, and every copy of its      *)
(* message is charged to an attempt that failed or a worker that died.      *)
Charged(m) ==
  IF job[m] \in {"done", "failed"}
  THEN sent[m] <= Attempts + MaxStalls
  ELSE tries[m] < Attempts /\ sent[m] <= tries[m] + stalls[m]

(* Where the queue missed no outcome, only the accepted attempt sent a copy. *)
Known(m) ==
  m \notin lost => sent[m] <= 1 /\ (job[m] # "done" => sent[m] = 0)

NInv == NotificationsTypeOK /\ \A m \in Message : Charged(m) /\ Known(m)

LEMMA MessageType ==
  ASSUME NotificationsTypeOK, NEW m \in Message
  PROVE  /\ job[m] \in Job
         /\ tries[m] \in Nat /\ tries[m] <= Attempts
         /\ stalls[m] \in Nat /\ stalls[m] <= MaxStalls
         /\ sent[m] \in Nat
         /\ Attempts \in Nat /\ MaxStalls \in Nat /\ Attempts > 0
  BY AttemptsArePositive DEF NotificationsTypeOK

LEMMA NInitInv == NInit => NInv
  BY AttemptsArePositive DEF NInit, NInv, NotificationsTypeOK, Job, Charged, Known

(* Nothing that is known of a message changes with another one's. *)
LEMMA OthersKept ==
  ASSUME NInv, NotificationsTypeOK', NEW m \in Message,
         Add(m) \/ Work(m), Charged(m)', Known(m)'
  PROVE  NInv'
<1> SUFFICES ASSUME NEW n \in Message \ {m} PROVE Charged(n)' /\ Known(n)'
  BY DEF NInv
<1>1. /\ job'[n] = job[n] /\ tries'[n] = tries[n] /\ stalls'[n] = stalls[n]
      /\ sent'[n] = sent[n] /\ (n \in lost' <=> n \in lost)
  BY DEF NInv, NotificationsTypeOK, Add, Work, Take, Accepted, Refused, AnswerLost,
         WorkerDies, Retry, Deliver
<1> QED
  BY <1>1 DEF NInv, Charged, Known

LEMMA AddKeeps ==
  ASSUME NInv, NEW m \in Message, Add(m)
  PROVE  NInv'
<1>1. NotificationsTypeOK'
  BY DEF NInv, NotificationsTypeOK, Add, Job
<1>2. job'[m] = "waiting" /\ UNCHANGED <<tries, stalls, sent, lost>> /\ job[m] = "none"
  BY DEF NInv, NotificationsTypeOK, Add
<1>3. Charged(m)' /\ Known(m)'
  BY <1>2 DEF NInv, Charged, Known
<1> QED
  BY <1>1, <1>3, OthersKept

LEMMA TakeKeeps ==
  ASSUME NInv, NEW m \in Message, Take(m)
  PROVE  NInv'
<1>1. NotificationsTypeOK'
  BY DEF NInv, NotificationsTypeOK, Take, Job
<1>2. job'[m] = "active" /\ UNCHANGED <<tries, stalls, sent, lost>> /\ job[m] = "waiting"
  BY DEF NInv, NotificationsTypeOK, Take
<1>3. Charged(m)' /\ Known(m)'
  BY <1>2 DEF NInv, Charged, Known
<1> QED
  BY <1>1, <1>3, OthersKept DEF Work

LEMMA AcceptedKeeps ==
  ASSUME NInv, NEW m \in Message, Accepted(m)
  PROVE  NInv'
<1>1. NotificationsTypeOK'
  BY DEF NInv, NotificationsTypeOK, Accepted, Deliver, Job
<1>2. /\ job'[m] = "done" /\ sent'[m] = sent[m] + 1 /\ lost' = lost
      /\ job[m] = "active"
  BY DEF NInv, NotificationsTypeOK, Accepted, Deliver
<1>3. /\ tries[m] < Attempts /\ sent[m] <= tries[m] + stalls[m]
      /\ m \notin lost => sent[m] = 0
  BY <1>2 DEF NInv, Charged, Known
<1>4. Charged(m)' /\ Known(m)'
  BY <1>2, <1>3, MessageType DEF NInv, Charged, Known
<1> QED
  BY <1>1, <1>4, OthersKept DEF Work

(* After an attempt that failed, with or without a copy sent. *)
LEMMA RetryKeeps ==
  ASSUME NInv, NEW m \in Message, Retry(m), job[m] = "active"
  PROVE  /\ job' \in [Message -> Job] /\ tries' \in [Message -> 0 .. Attempts]
         /\ tries'[m] = tries[m] + 1 /\ stalls' = stalls
         /\ job'[m] \in {"waiting", "failed"}
         /\ job'[m] = "waiting" => tries'[m] < Attempts
         /\ tries[m] < Attempts /\ sent[m] <= tries[m] + stalls[m]
         /\ m \notin lost => sent[m] = 0
<1>1. tries[m] < Attempts /\ sent[m] <= tries[m] + stalls[m]
  BY DEF NInv, Charged
<1>2. job' \in [Message -> Job]
  BY DEF NInv, NotificationsTypeOK, Retry, Job
<1>3. tries[m] + 1 \in 0 .. Attempts
  BY <1>1, MessageType DEF NInv
<1>4. tries' \in [Message -> 0 .. Attempts]
  BY <1>3 DEF NInv, NotificationsTypeOK, Retry
<1>5. /\ tries'[m] = tries[m] + 1 /\ stalls' = stalls
      /\ job'[m] = IF tries[m] + 1 < Attempts THEN "waiting" ELSE "failed"
  BY DEF NInv, NotificationsTypeOK, Retry
<1> QED
  BY <1>1, <1>2, <1>4, <1>5 DEF NInv, Known

LEMMA RefusedKeeps ==
  ASSUME NInv, NEW m \in Message, Refused(m)
  PROVE  NInv'
<1>1. Retry(m) /\ job[m] = "active" /\ sent' = sent /\ lost' = lost
  BY DEF Refused
<1>2. NotificationsTypeOK'
  BY <1>1, RetryKeeps DEF NInv, NotificationsTypeOK
<1>3. Charged(m)' /\ Known(m)'
  BY <1>1, RetryKeeps, MessageType DEF NInv, Charged, Known
<1> QED
  BY <1>2, <1>3, OthersKept DEF Work

LEMMA AnswerLostKeeps ==
  ASSUME NInv, NEW m \in Message, AnswerLost(m)
  PROVE  NInv'
<1>1. /\ Retry(m) /\ job[m] = "active" /\ lost' = lost \cup {m}
      /\ sent' \in [Message -> Nat] /\ sent'[m] = sent[m] + 1
  BY DEF AnswerLost, Deliver, NInv, NotificationsTypeOK
<1>2. NotificationsTypeOK'
  BY <1>1, RetryKeeps DEF NInv, NotificationsTypeOK
<1>3. Charged(m)' /\ Known(m)'
  BY <1>1, RetryKeeps, MessageType DEF NInv, Charged, Known
<1> QED
  BY <1>2, <1>3, OthersKept DEF Work

LEMMA WorkerDiesKeeps ==
  ASSUME NInv, NEW m \in Message, WorkerDies(m)
  PROVE  NInv'
<1>1. /\ job[m] = "active" /\ tries' = tries /\ lost' = lost \cup {m}
      /\ sent' \in [Message -> Nat]
      /\ sent'[m] = sent[m] + 1 \/ sent'[m] = sent[m]
  BY DEF WorkerDies, Deliver, NInv, NotificationsTypeOK
<1>2. tries[m] < Attempts /\ sent[m] <= tries[m] + stalls[m]
  BY <1>1 DEF NInv, Charged
<1>3. CASE stalls[m] < MaxStalls
  <2>1. stalls[m] + 1 \in 0 .. MaxStalls
    BY <1>3, MessageType DEF NInv
  <2>2. /\ stalls' \in [Message -> 0 .. MaxStalls] /\ stalls'[m] = stalls[m] + 1
        /\ job' \in [Message -> Job] /\ job'[m] = "waiting"
    BY <1>3, <2>1 DEF WorkerDies, NInv, NotificationsTypeOK, Job
  <2>3. NotificationsTypeOK'
    BY <1>1, <2>2 DEF NInv, NotificationsTypeOK
  <2>4. Charged(m)' /\ Known(m)'
    BY <1>1, <1>2, <2>2, MessageType DEF NInv, Charged, Known
  <2> QED
    BY <2>3, <2>4, OthersKept DEF Work
<1>4. CASE ~(stalls[m] < MaxStalls)
  <2>1. stalls' = stalls /\ job' \in [Message -> Job] /\ job'[m] = "failed"
    BY <1>4 DEF WorkerDies, NInv, NotificationsTypeOK, Job
  <2>2. NotificationsTypeOK'
    BY <1>1, <2>1 DEF NInv, NotificationsTypeOK
  <2>3. Charged(m)' /\ Known(m)'
    BY <1>1, <1>2, <2>1, MessageType DEF NInv, Charged, Known
  <2> QED
    BY <2>2, <2>3, OthersKept DEF Work
<1> QED
  BY <1>3, <1>4

LEMMA NNextInv == NInv /\ [NNext]_nvars => NInv'
<1> SUFFICES ASSUME NInv, [NNext]_nvars PROVE NInv'
  OBVIOUS
<1>1. CASE UNCHANGED nvars
  BY <1>1 DEF nvars, NInv, NotificationsTypeOK, Charged, Known
<1>2. ASSUME NEW m \in Message, Add(m) PROVE NInv'
  BY <1>2, AddKeeps
<1>3. ASSUME NEW m \in Message, Work(m) PROVE NInv'
  BY <1>3, TakeKeeps, AcceptedKeeps, RefusedKeeps, AnswerLostKeeps, WorkerDiesKeeps DEF Work
<1> QED
  BY <1>1, <1>2, <1>3 DEF NNext

(* The inductive invariant of the queue. *)
THEOREM QueueInvariant == NSpec => []NInv
  BY NInitInv, NNextInv, PTL DEF NSpec

-----------------------------------------------------------------------------
(* The state of the queue is well typed. *)
THEOREM QueueTypeCorrect == NSpec => []NotificationsTypeOK
<1>1. NInv => NotificationsTypeOK
  BY DEF NInv
<1> QED
  BY QueueInvariant, <1>1, PTL

(* A message is sent twice only where an answer or a worker was lost, and   *)
(* its copies are bounded by the attempts and the stalls.                   *)
THEOREM SentOnce == NSpec => []SentOnceUnlessLost
<1>1. ASSUME NInv, NEW m \in Message
      PROVE  (sent[m] > 1 => m \in lost) /\ sent[m] <= Attempts + MaxStalls
  <2>1. sent[m] > 1 => m \in lost
    BY <1>1, MessageType DEF NInv, Known
  <2>2. sent[m] <= Attempts + MaxStalls
    BY <1>1, MessageType DEF NInv, Charged
  <2> QED
    BY <2>1, <2>2
<1>2. NInv => SentOnceUnlessLost
  BY <1>1 DEF SentOnceUnlessLost
<1> QED
  BY QueueInvariant, <1>2, PTL

(* Each step of the queue on a message lowers what is left to do on it. *)
LEMMA WorkLowers ==
  ASSUME NInv, NInv', NEW m \in Message, Work(m)
  PROVE  Left(m) > 0 /\ Left(m)' < Left(m)
<1> DEFINE Rounds == (Attempts - tries[m]) + (MaxStalls - stalls[m])
<1>0. /\ job[m] \in Job /\ job'[m] \in Job /\ Rounds \in Nat /\ Rounds' \in Nat
      /\ tries[m] \in Nat /\ tries'[m] \in Nat /\ stalls[m] \in Nat /\ stalls'[m] \in Nat
      /\ Attempts \in Nat /\ MaxStalls \in Nat
  BY MessageType, AttemptsArePositive DEF NInv, NotificationsTypeOK
<1>1. CASE Take(m)
  <2>1. job[m] = "waiting" /\ job'[m] = "active" /\ Rounds' = Rounds
    BY <1>1 DEF Take, NInv, NotificationsTypeOK
  <2> QED
    BY <2>1, <1>0 DEF Left
<1>2. CASE ~Take(m)
  <2>1. job[m] = "active"
    BY <1>2 DEF Work, Accepted, Refused, AnswerLost, WorkerDies
  <2>2. tries[m] < Attempts
    BY <2>1 DEF NInv, Charged
  <2>3. Rounds > 0 /\ Left(m) = 2 * Rounds
    BY <2>1, <2>2, <1>0, MessageType DEF NInv, Left
  <2>4. job'[m] = "waiting" \/ job'[m] \in {"done", "failed"}
    BY <1>2 DEF Work, Accepted, Refused, AnswerLost, WorkerDies, Retry, NInv, NotificationsTypeOK
  <2>5. ASSUME job'[m] = "waiting" PROVE Rounds' = Rounds - 1
    <3>1. CASE Retry(m)
      BY <3>1, RetryKeeps, <2>1, <1>0
    <3>2. CASE WorkerDies(m)
      BY <3>2, <2>5, <1>0 DEF WorkerDies, NInv, NotificationsTypeOK
    <3>3. ~Accepted(m)
      BY <2>5 DEF Accepted, NInv, NotificationsTypeOK
    <3> QED
      BY <3>1, <3>2, <3>3, <1>2 DEF Work, Refused, AnswerLost
  <2>6. CASE job'[m] = "waiting"
    <3>1. Left(m)' = 2 * Rounds' + 1
      BY <2>6 DEF Left
    <3> QED
      BY <3>1, <2>3, <2>5, <2>6, <1>0
  <2>7. CASE job'[m] \in {"done", "failed"}
    <3>1. Left(m)' = 0
      BY <2>7 DEF Left
    <3> QED
      BY <3>1, <2>3, <1>0
  <2> QED
    BY <2>4, <2>6, <2>7
<1> QED
  BY <1>1, <1>2

(* A message is never tried for ever. *)
THEOREM RunsOut == NSpec => WorkRunsOut
<1>1. NInv /\ NInv' =>
        [\A m \in Message : Work(m) => Left(m) > 0 /\ Left(m)' < Left(m)]_nvars
  BY WorkLowers
<1> QED
  BY QueueInvariant, <1>1, PTL DEF WorkRunsOut

-----------------------------------------------------------------------------
OwnTypeOK ==
  /\ kind \in [Message -> Kind]
  /\ consumed \subseteq Message
  /\ verified \subseteq {"email", "phone"}
  /\ rows \subseteq Credential
  /\ hash \in [Credential -> Nat] /\ password \in Nat
  /\ session \in [Session -> {"none", "active", "revoked"}]
  /\ opened \in [Session -> Nat]
  /\ req \in [Request -> Handler]
  /\ resets \in [Message -> Nat]
  /\ shared \subseteq Message /\ doubled \in BOOLEAN
  /\ overlapped \subseteq Session /\ cut \in BOOLEAN

(* What a handler holds where it is. *)
Stands(h) ==
  /\ h.pc \in {"send", "confirm", "code", "find", "set"} <=> h.held # None
  /\ h.pc = "send" => kind[h.held] # "none"
  /\ h.pc = "confirm" => kind[h.held] \in {"confirm", "phone"}
  /\ h.pc = "code" => kind[h.held] \in {"phone", "code"}
  /\ h.pc \in {"find", "set"} => kind[h.held] \in {"link", "code"}
  /\ h.pc = "set" => h.row \in rows \cup {None}
  /\ h.pc = "mint" => h.session # None

Placed == \A r \in Request : Stands(req[r])

(* A message is queued after its link or code is stored. *)
Referred == \A m \in Message : (sent[m] > 0 => job[m] # "none") /\ (job[m] # "none" => kind[m] # "none")

(* A link or code that wrote a password is consumed; one nobody shared has  *)
(* one holder at most, and none after it wrote.                             *)
Spent(m) ==
  /\ resets[m] > 0 => m \in consumed
  /\ m \in consumed => kind[m] # "none" /\ (kind[m] = "link" => resets[m] > 0)
  /\ m \notin shared =>
       /\ resets[m] <= 1
       /\ \A r \in Request : r \in Holding(m) => resets[m] = 0
       /\ \A r, q \in Request : r \in Holding(m) /\ q \in Holding(m) => r = q

Spending == \A m \in Message : Spent(m)

(* Unless two handlers found no row, there is one at most, with the current *)
(* password, and whoever found none is alone.                               *)
OneRow ==
  ~doubled =>
    /\ \A c, d \in rows : c = d
    /\ \A c \in rows : hash[c] = password
    /\ \A r \in Request : req[r].pc = "set" /\ req[r].row = None =>
         /\ rows = {}
         /\ \A q \in Request : req[q].pc = "set" /\ req[q].row = None => q = r

(* Some reset will still look for sessions, or has found s.                 *)
Looking == \E q \in Request : req[q].pc = "sessions"
FoundBy(s) == {q \in Request : req[q].pc = "revoke" /\ s \in req[q].found}

(* A session of an old password is about to be revoked; so is one a login   *)
(* in flight would open; a refresh that a revocation has not passed has     *)
(* nothing to resurrect.                                                    *)
Doomed(s) ==
  s \notin overlapped /\ session[s] = "active" /\ opened[s] # password
    => Looking \/ FoundBy(s) # {}

Overtaken(r) ==
  /\ req[r].pc = "issue" /\ ~req[r].passed /\ req[r].password # password => Looking
  /\ req[r].pc = "mint" /\ ~req[r].passed =>
       /\ session[req[r].session] = "active"
       /\ FoundBy(req[r].session) = {}

Settling ==
  ~cut /\ ~doubled => (\A s \in Session : Doomed(s)) /\ (\A r \in Request : Overtaken(r))

Found == \A r \in Request : req[r].pc # "revoke" => req[r].found = {}

RInv ==
  /\ NInv /\ OwnTypeOK
  /\ Placed /\ Referred /\ Spending /\ OneRow /\ Found /\ Settling

-----------------------------------------------------------------------------
LEMMA HandlerFields ==
  ASSUME OwnTypeOK, NEW r \in Request
  PROVE  /\ req[r] \in Handler
         /\ req[r].pc \in Steps /\ req[r].held \in Message \cup {None}
         /\ req[r].row \in Credential \cup {None} /\ req[r].password \in Nat
         /\ req[r].session \in Session \cup {None} /\ req[r].found \in SUBSET Session
         /\ req[r].passed \in BOOLEAN
  BY DEF OwnTypeOK, Handler

LEMMA IdleType == Idle \in Handler
  BY DEF Idle, Handler, Steps

(* A handler that holds a message. *)
LEMMA HeldMessage ==
  ASSUME OwnTypeOK, Placed, NEW r \in Request,
         req[r].pc \in {"send", "confirm", "code", "find", "set"}
  PROVE  req[r].held \in Message
  BY HandlerFields DEF Placed, Stands

LEMMA GotoMoves ==
  ASSUME OwnTypeOK, NEW r \in Request, NEW h \in Handler, Goto(r, h)
  PROVE  /\ req' \in [Request -> Handler]
         /\ req'[r] = h
         /\ \A q \in Request \ {r} : req'[q] = req[q]
  BY DEF OwnTypeOK, Goto

LEMMA InitInv == Init => RInv
<1> SUFFICES ASSUME Init PROVE RInv
  OBVIOUS
<1>1. NInv
  BY NInitInv DEF Init
<1>2. OwnTypeOK
  BY IdleType DEF Init, OwnTypeOK, Kind
<1>3. \A r \in Request : req[r] = Idle /\ req[r].pc = "idle" /\ req[r].held = None /\ req[r].found = {}
  BY DEF Init, Idle
<1>4. Placed /\ Found
  BY <1>3 DEF Placed, Stands, Found, Idle
<1>5. Referred
  <2>1. NInit
    BY DEF Init
  <2>2. \A m \in Message : sent[m] = 0 /\ job[m] = "none"
    BY <2>1 DEF NInit
  <2>3. ~(0 > 0)
    OBVIOUS
  <2> QED
    BY <2>2, <2>3, Zenon DEF Referred
<1>6. Spending
  <2> SUFFICES ASSUME NEW m \in Message PROVE Spent(m)
    BY DEF Spending
  <2>1. resets[m] = 0 /\ m \notin consumed /\ m # None
    BY NoneIsNew DEF Init
  <2>2. \A r \in Request : r \notin Holding(m)
    BY <1>3, <2>1 DEF Holding
  <2> QED
    BY <2>1, <2>2 DEF Spent
<1>7. OneRow
  BY <1>3 DEF Init, OneRow
<1>8. Settling
  BY <1>3 DEF Init, Settling, Doomed, Overtaken
<1> QED
  BY <1>1, <1>2, <1>4, <1>5, <1>6, <1>7, <1>8 DEF RInv

-----------------------------------------------------------------------------
(* Type correctness, one step per action. *)

LEMMA TypeKept == RInv /\ Next => OwnTypeOK'
<1> SUFFICES ASSUME RInv, Next PROVE OwnTypeOK'
  OBVIOUS
<1>1. ASSUME NEW r \in Request, NEW m \in Message, NEW k \in Kind \ {"none"}, Ask(r, m, k)
      PROVE OwnTypeOK'
  <2>1. [Idle EXCEPT !.pc = "send", !.held = m] \in Handler
    BY DEF Idle, Handler, Steps
  <2> QED
    BY <1>1, <2>1, GotoMoves DEF Ask, RInv, OwnTypeOK
<1>2. ASSUME NEW r \in Request, NEW m \in Message, Present(r, m) PROVE OwnTypeOK'
  <2>1. \A p \in Steps : [Idle EXCEPT !.held = m, !.pc = p] \in Handler
    BY DEF Idle, Handler, Steps
  <2>2. \E p \in Steps : Goto(r, [Idle EXCEPT !.held = m, !.pc = p])
    BY <1>2, Zenon DEF Present, Steps
  <2>3. req' \in [Request -> Handler]
    BY <2>1, <2>2, GotoMoves DEF RInv
  <2> QED
    BY <1>2, <2>3 DEF Present, RInv, OwnTypeOK
<1>3. ASSUME NEW r \in Request, Send(r) PROVE OwnTypeOK'
  BY <1>3, GotoMoves, IdleType DEF Send, RInv, OwnTypeOK
<1>4. ASSUME NEW r \in Request, AcceptCode(r) PROVE OwnTypeOK'
  <2>1. req[r].held \in Message
    BY <1>4, HeldMessage DEF AcceptCode, RInv
  <2>2. \A p \in Steps : [req[r] EXCEPT !.pc = p] \in Handler
    BY HandlerFields DEF Handler, RInv
  <2>3. req' \in [Request -> Handler]
    BY <1>4, <2>2, GotoMoves DEF AcceptCode, RInv, Steps
  <2> QED
    BY <1>4, <2>1, <2>3 DEF AcceptCode, RInv, OwnTypeOK
<1>5. ASSUME NEW r \in Request, FlushConfirm(r) PROVE OwnTypeOK'
  <2>1. req[r].held \in Message
    BY <1>5, HeldMessage DEF FlushConfirm, RInv
  <2> QED
    BY <1>5, <2>1, GotoMoves, IdleType DEF FlushConfirm, RInv, OwnTypeOK
<1>6. ASSUME NEW r \in Request, FindCredential(r) PROVE OwnTypeOK'
  <2>1. \A c \in Credential \cup {None} : [req[r] EXCEPT !.pc = "set", !.row = c] \in Handler
    BY HandlerFields DEF Handler, RInv, Steps
  <2>2. PICK c \in Credential \cup {None} : Goto(r, [req[r] EXCEPT !.pc = "set", !.row = c])
    BY <1>6 DEF FindCredential, RInv, OwnTypeOK
  <2>3. req' \in [Request -> Handler]
    BY <2>1, <2>2, GotoMoves DEF RInv
  <2>4. doubled' \in BOOLEAN
    BY <1>6 DEF FindCredential
  <2> QED
    BY <1>6, <2>3, <2>4 DEF FindCredential, RInv, OwnTypeOK
<1>7. ASSUME NEW r \in Request, NEW c \in Credential, SetPassword(r, c) PROVE OwnTypeOK'
  <2>1. req[r].held \in Message
    BY <1>7, HeldMessage DEF SetPassword, RInv
  <2>2. [Idle EXCEPT !.pc = "sessions"] \in Handler
    BY DEF Idle, Handler, Steps
  <2> QED
    BY <1>7, <2>1, <2>2, GotoMoves DEF SetPassword, RInv, OwnTypeOK
<1>8. ASSUME NEW r \in Request, FindSessions(r) PROVE OwnTypeOK'
  <2>1. [Idle EXCEPT !.pc = "revoke", !.found = {s \in Session : session[s] = "active"}] \in Handler
    BY DEF Idle, Handler, Steps
  <2>2. \A q \in Request : [req[q] EXCEPT !.passed = req[q].pc \in {"issue", "mint"}] \in Handler
    <3> TAKE q \in Request
    <3>1. (req[q].pc \in {"issue", "mint"}) \in BOOLEAN
      OBVIOUS
    <3> QED
      BY <3>1, HandlerFields DEF Handler, RInv
  <2>3. req' \in [Request -> Handler]
    BY <1>8, <2>1, <2>2, Zenon DEF FindSessions
  <2> QED
    BY <1>8, <2>3 DEF FindSessions, RInv, OwnTypeOK
<1>9. ASSUME NEW r \in Request, FlushRevoked(r) PROVE OwnTypeOK'
  BY <1>9, GotoMoves, IdleType DEF FlushRevoked, RInv, OwnTypeOK
<1>10. ASSUME NEW r \in Request, NEW c \in Credential, LoginRead(r, c) PROVE OwnTypeOK'
  <2>1. [Idle EXCEPT !.pc = "issue", !.password = hash[c]] \in Handler
    BY DEF Idle, Handler, Steps, RInv, OwnTypeOK
  <2> QED
    BY <1>10, <2>1, GotoMoves DEF LoginRead, RInv, OwnTypeOK
<1>11. ASSUME NEW r \in Request, NEW s \in Session, LoginIssue(r, s) PROVE OwnTypeOK'
  BY <1>11, GotoMoves, IdleType, HandlerFields DEF LoginIssue, RInv, OwnTypeOK
<1>12. ASSUME NEW r \in Request, NEW s \in Session, RefreshLoad(r, s) PROVE OwnTypeOK'
  <2>1. (\E q \in Request : s \in req[q].found) \in BOOLEAN
    OBVIOUS
  <2>2. \A b \in BOOLEAN : [Idle EXCEPT !.pc = "mint", !.session = s, !.passed = b] \in Handler
    BY DEF Idle, Handler, Steps
  <2>3. \E b \in BOOLEAN : Goto(r, [Idle EXCEPT !.pc = "mint", !.session = s, !.passed = b])
    BY <1>12, <2>1, Zenon DEF RefreshLoad
  <2>4. req' \in [Request -> Handler]
    BY <2>2, <2>3, GotoMoves DEF RInv
  <2> QED
    BY <1>12, <2>4 DEF RefreshLoad, RInv, OwnTypeOK
<1>13. ASSUME NEW r \in Request, RefreshMint(r) PROVE OwnTypeOK'
  <2>1. req[r].session \in Session
    BY <1>13, HandlerFields DEF RefreshMint, RInv, Placed, Stands
  <2>2. \A q \in Request : [req[q] EXCEPT !.found = @ \ {req[r].session}] \in Handler
    BY HandlerFields DEF Handler, RInv
  <2>3. req' \in [Request -> Handler]
    BY <1>13, <2>2, IdleType DEF RefreshMint
  <2> QED
    BY <1>13, <2>1, <2>3 DEF RefreshMint, RInv, OwnTypeOK
<1>14. ASSUME NEW r \in Request, Abort(r) PROVE OwnTypeOK'
  BY <1>14, GotoMoves, IdleType DEF Abort, RInv, OwnTypeOK
<1>15. CASE UNCHANGED rvars
  BY <1>15 DEF rvars, RInv, OwnTypeOK
<1> QED
  BY <1>1, <1>2, <1>3, <1>4, <1>5, <1>6, <1>7, <1>8, <1>9, <1>10, <1>11, <1>12, <1>13,
     <1>14, <1>15 DEF Next, ResetStep, SessionStep

-----------------------------------------------------------------------------
(* Recovery does to the queue what the queue allows. *)
LEMMA QueueStep == RInv /\ [Next]_vars => [NNext]_nvars
<1> SUFFICES ASSUME RInv, [Next]_vars PROVE [NNext]_nvars
  OBVIOUS
<1>1. CASE UNCHANGED vars
  BY <1>1 DEF vars
<1>2. ASSUME NEW r \in Request, Send(r) PROVE NNext
  BY <1>2, HeldMessage DEF Send, RInv, NNext
<1>3. ASSUME NEW m \in Message, Work(m) PROVE NNext
  BY <1>3 DEF NNext
<1>4. ASSUME NEW r \in Request, NEW m \in Message, NEW k \in Kind, Ask(r, m, k) \/ Present(r, m)
      PROVE UNCHANGED nvars
  BY <1>4 DEF Ask, Present
<1>5. ASSUME NEW r \in Request, ResetStep(r) PROVE UNCHANGED nvars
  BY <1>5 DEF ResetStep, AcceptCode, FlushConfirm, FindCredential, SetPassword, FindSessions, FlushRevoked
<1>6. ASSUME NEW r \in Request, SessionStep(r) \/ Abort(r) PROVE UNCHANGED nvars
  BY <1>6 DEF SessionStep, LoginRead, LoginIssue, RefreshLoad, RefreshMint, Abort
<1>7. ASSUME NEW r \in Request, NEW m \in Message, Present(r, m) PROVE UNCHANGED nvars
  BY <1>7 DEF Present
<1> QED
  BY <1>1, <1>2, <1>3, <1>4, <1>5, <1>6, <1>7 DEF Next

(* The kind of a message is settled once, and no row is ever removed. *)
LEMMA KindsStay ==
  ASSUME RInv, Next
  PROVE  /\ \A m \in Message : kind[m] # "none" => kind'[m] = kind[m]
         /\ rows \subseteq rows'
<1>1. ASSUME NEW r \in Request, NEW m \in Message, NEW k \in Kind \ {"none"}, Ask(r, m, k)
      PROVE (\A n \in Message : kind[n] # "none" => kind'[n] = kind[n]) /\ rows' = rows
  BY <1>1 DEF Ask, RInv, OwnTypeOK
<1>2. ASSUME NEW r \in Request, NEW m \in Message, Present(r, m) PROVE UNCHANGED <<kind, rows>>
  BY <1>2 DEF Present
<1>3. ASSUME NEW r \in Request, ResetStep(r) PROVE kind' = kind /\ rows \subseteq rows'
  BY <1>3 DEF ResetStep, AcceptCode, FlushConfirm, FindCredential, SetPassword, FindSessions, FlushRevoked
<1>4. ASSUME NEW r \in Request, SessionStep(r) \/ Abort(r) \/ Send(r) PROVE UNCHANGED <<kind, rows>>
  BY <1>4 DEF SessionStep, LoginRead, LoginIssue, RefreshLoad, RefreshMint, Abort, Send
<1>5. ASSUME UNCHANGED rvars PROVE UNCHANGED <<kind, rows>>
  BY <1>5 DEF rvars
<1> QED
  BY <1>1, <1>2, <1>3, <1>4, <1>5 DEF Next

(* A handler r moves and the others stay where they are. *)
Alike(h, g) ==
  /\ h.pc = g.pc /\ h.held = g.held /\ h.row = g.row
  /\ h.session = g.session /\ h.password = g.password

Alone(r) == \A q \in Request \ {r} : Alike(req'[q], req[q])

LEMMA OthersStand ==
  ASSUME RInv, Next, NEW r \in Request, Alone(r), Stands(req[r])'
  PROVE  Placed'
<1> SUFFICES ASSUME NEW q \in Request \ {r} PROVE Stands(req[q])'
  BY DEF Placed
<1>1. Stands(req[q]) /\ Alike(req'[q], req[q])
  BY DEF RInv, Placed, Alone
<1>2. req[q].pc \in {"send", "confirm", "code", "find", "set"} =>
        kind[req[q].held] # "none" /\ kind'[req[q].held] = kind[req[q].held]
  <2> SUFFICES ASSUME req[q].pc \in {"send", "confirm", "code", "find", "set"}
               PROVE  kind[req[q].held] # "none" /\ kind'[req[q].held] = kind[req[q].held]
    OBVIOUS
  <2>1. kind[req[q].held] # "none"
    BY <1>1 DEF Stands
  <2> QED
    BY <2>1, HeldMessage, KindsStay DEF RInv
<1>3. rows \subseteq rows'
  BY KindsStay
<1> QED
  BY <1>1, <1>2, <1>3 DEF Stands, Alike

LEMMA GotoAlone ==
  ASSUME RInv, NEW r \in Request, NEW h \in Handler, Goto(r, h)
  PROVE  /\ req'[r] = h
         /\ Alone(r)
         /\ h.found = {} \/ h.pc = "revoke" => Found'
<1>1. req'[r] = h /\ \A q \in Request \ {r} : req'[q] = req[q]
  BY GotoMoves DEF RInv
<1> QED
  BY <1>1 DEF Alone, Alike, RInv, Found

(* A handler that has nothing to remember. *)
LEMMA IdleStands == Stands(Idle)' /\ Stands(Idle) /\ Idle.found = {}
  BY DEF Stands, Idle

LEMMA IdleAlone ==
  ASSUME RInv, NEW r \in Request, Goto(r, Idle)
  PROVE  Stands(req[r])' /\ Alone(r) /\ Found' /\ req'[r].held = None /\ req'[r].pc = "idle"
<1>1. req'[r] = Idle /\ Alone(r) /\ Found'
  BY GotoAlone, IdleType, IdleStands
<1> QED
  BY <1>1, IdleStands DEF Stands, Idle

-----------------------------------------------------------------------------
(* Who moves where: what each action makes of its handler. *)
LEMMA AskMoves ==
  ASSUME RInv, NEW r \in Request, NEW m \in Message, NEW k, Ask(r, m, k)
  PROVE  Alone(r) /\ Found' /\ req'[r].pc = "send" /\ req'[r].held = m
<1> DEFINE h == [Idle EXCEPT !.pc = "send", !.held = m]
<1>1. h \in Handler /\ h.found = {} /\ h.pc = "send" /\ h.held = m
  BY DEF Idle, Handler, Steps
<1>2. Goto(r, h)
  BY DEF Ask
<1> QED
  BY <1>1, <1>2, GotoAlone

LEMMA PresentMoves ==
  ASSUME RInv, NEW r \in Request, NEW m \in Message, Present(r, m)
  PROVE  /\ Alone(r) /\ Found'
         /\ req'[r].held = m /\ req'[r].pc \in {"confirm", "find", "code"}
         /\ Stands(req[r])'
<1> DEFINE h(p) == [Idle EXCEPT !.held = m, !.pc = p]
<1>1. \A p \in Steps : /\ h(p) \in Handler /\ h(p).found = {}
                       /\ h(p).pc = p /\ h(p).held = m
  BY DEF Idle, Handler
<1>2. m # None /\ kind' = kind /\ kind[m] \in {"confirm", "phone", "link", "code"}
  BY NoneIsNew DEF Present, RInv, OwnTypeOK, Kind
<1>3. ASSUME NEW p \in {"confirm", "find", "code"}, Goto(r, h(p)),
             p = "confirm" => kind[m] = "confirm",
             p = "find" => kind[m] = "link",
             p = "code" => kind[m] \in {"phone", "code"}
      PROVE  /\ Alone(r) /\ Found'
             /\ req'[r].held = m /\ req'[r].pc \in {"confirm", "find", "code"}
             /\ Stands(req[r])'
  <2>1. h(p) \in Handler /\ h(p).found = {} /\ h(p).pc = p /\ h(p).held = m
    BY <1>1 DEF Steps
  <2>2. req'[r] = h(p) /\ Alone(r) /\ Found'
    BY <1>3, <2>1, GotoAlone
  <2> QED
    BY <1>2, <1>3, <2>1, <2>2 DEF Stands
<1>4. CASE kind[m] = "confirm"
  <2>1. Goto(r, h("confirm"))
    BY <1>4, Zenon DEF Present
  <2> QED
    BY <2>1, <1>3, <1>4
<1>5. CASE kind[m] = "link"
  <2>1. Goto(r, h("find"))
    BY <1>5, Zenon DEF Present
  <2> QED
    BY <2>1, <1>3, <1>5
<1>6. CASE kind[m] \in {"phone", "code"}
  <2>1. Goto(r, h("code"))
    BY <1>6, Zenon DEF Present
  <2> QED
    BY <2>1, <1>3, <1>6
<1> QED
  BY <1>2, <1>4, <1>5, <1>6

LEMMA AcceptCodeMoves ==
  ASSUME RInv, NEW r \in Request, AcceptCode(r)
  PROVE  /\ Alone(r) /\ Found'
         /\ req'[r].held = req[r].held /\ req'[r].pc \in {"confirm", "find"}
         /\ Stands(req[r])'
<1> DEFINE h(p) == [req[r] EXCEPT !.pc = p]
<1>1. \A p \in Steps : /\ h(p) \in Handler /\ h(p).found = req[r].found
                       /\ h(p).pc = p /\ h(p).held = req[r].held
  BY HandlerFields DEF RInv, Handler
<1>2. /\ req[r].found = {} /\ kind' = kind /\ req[r].held # None
      /\ kind[req[r].held] \in {"phone", "code"}
  BY DEF AcceptCode, RInv, Placed, Stands, Found
<1>3. CASE kind[req[r].held] = "phone"
  <2>1. Goto(r, h("confirm"))
    BY <1>3, Zenon DEF AcceptCode
  <2>0. h("confirm") \in Handler /\ h("confirm").found = {}
    BY <1>1, <1>2 DEF Steps
  <2>2. req'[r] = h("confirm") /\ Alone(r) /\ Found'
    BY <2>0, <2>1, GotoAlone
  <2> QED
    BY <1>1, <1>2, <1>3, <2>2 DEF Stands, Steps
<1>4. CASE kind[req[r].held] # "phone"
  <2>1. Goto(r, h("find"))
    BY <1>4, Zenon DEF AcceptCode
  <2>0. h("find") \in Handler /\ h("find").found = {}
    BY <1>1, <1>2 DEF Steps
  <2>2. req'[r] = h("find") /\ Alone(r) /\ Found'
    BY <2>0, <2>1, GotoAlone
  <2> QED
    BY <1>1, <1>2, <1>4, <2>2 DEF Stands, Steps
<1> QED
  BY <1>3, <1>4

LEMMA FindCredentialMoves ==
  ASSUME RInv, NEW r \in Request, FindCredential(r)
  PROVE  /\ Alone(r) /\ Found'
         /\ req'[r].held = req[r].held /\ req'[r].pc = "set"
         /\ req'[r].row \in rows \/ (req'[r].row = None /\ rows = {})
         /\ Stands(req[r])'
<1>1. PICK c \in (IF rows = {} THEN {None} ELSE rows) :
        Goto(r, [req[r] EXCEPT !.pc = "set", !.row = c])
  BY DEF FindCredential
<1> DEFINE h == [req[r] EXCEPT !.pc = "set", !.row = c]
<1>2. c \in Credential \cup {None}
  BY DEF RInv, OwnTypeOK
<1>3. /\ h \in Handler /\ h.found = req[r].found /\ h.pc = "set"
      /\ h.held = req[r].held /\ h.row = c
  BY <1>2, HandlerFields DEF RInv, Handler, Steps
<1>4. /\ req[r].found = {} /\ kind' = kind /\ rows' = rows /\ req[r].held # None
      /\ kind[req[r].held] \in {"link", "code"}
  BY DEF FindCredential, RInv, Placed, Stands, Found
<1>5. req'[r] = h /\ Alone(r) /\ Found'
  BY <1>1, <1>3, <1>4, GotoAlone
<1> QED
  BY <1>3, <1>4, <1>5 DEF Stands

LEMMA SetPasswordMoves ==
  ASSUME RInv, NEW r \in Request, NEW c \in Credential, SetPassword(r, c)
  PROVE  /\ Alone(r) /\ Found' /\ req'[r].pc = "sessions" /\ req'[r].held = None
         /\ Stands(req[r])'
<1> DEFINE h == [Idle EXCEPT !.pc = "sessions"]
<1>1. h \in Handler /\ h.found = {} /\ h.pc = "sessions" /\ h.held = None
  BY DEF Idle, Handler, Steps
<1>2. Goto(r, h)
  BY DEF SetPassword
<1>3. req'[r] = h /\ Alone(r) /\ Found'
  BY <1>1, <1>2, GotoAlone
<1> QED
  BY <1>1, <1>3 DEF Stands

LEMMA FindSessionsMoves ==
  ASSUME RInv, NEW r \in Request, FindSessions(r)
  PROVE  /\ Alone(r) /\ Found' /\ req'[r].pc = "revoke" /\ req'[r].held = None
         /\ req'[r].found = {s \in Session : session[s] = "active"}
         /\ \A q \in Request \ {r} :
              /\ req'[q].passed <=> req[q].pc \in {"issue", "mint"}
              /\ req'[q].found = req[q].found
         /\ Stands(req[r])'
<1> DEFINE h == [Idle EXCEPT !.pc = "revoke", !.found = {s \in Session : session[s] = "active"}]
           g(q) == [req[q] EXCEPT !.passed = req[q].pc \in {"issue", "mint"}]
<1>1. h.pc = "revoke" /\ h.held = None /\ h.found = {s \in Session : session[s] = "active"}
  BY DEF Idle
<1>2. req'[r] = h /\ \A q \in Request \ {r} : req'[q] = g(q)
  BY Zenon DEF FindSessions
<1>3. \A q \in Request \ {r} :
        /\ req[q] \in Handler
        /\ g(q).pc = req[q].pc /\ g(q).held = req[q].held /\ g(q).row = req[q].row
        /\ g(q).session = req[q].session /\ g(q).password = req[q].password
        /\ g(q).found = req[q].found
        /\ g(q).passed <=> req[q].pc \in {"issue", "mint"}
  BY HandlerFields DEF RInv, Handler
<1>4. Alone(r)
  BY <1>2, <1>3 DEF Alone, Alike
<1>5. Found'
  <2> SUFFICES ASSUME NEW q \in Request, req'[q].pc # "revoke" PROVE req'[q].found = {}
    BY DEF Found
  <2>1. q # r
    BY <1>1, <1>2
  <2>2. req'[q].pc = req[q].pc /\ req'[q].found = req[q].found
    BY <1>2, <1>3, <2>1
  <2>3. req[q].pc # "revoke"
    BY <2>2
  <2> QED
    BY <2>2, <2>3 DEF RInv, Found
<1>6. Stands(req[r])'
  BY <1>1, <1>2 DEF Stands
<1> QED
  BY <1>1, <1>2, <1>3, <1>4, <1>5, <1>6

LEMMA LoginReadMoves ==
  ASSUME RInv, NEW r \in Request, NEW c \in Credential, LoginRead(r, c)
  PROVE  /\ Alone(r) /\ Found' /\ req'[r].pc = "issue" /\ req'[r].held = None
         /\ req'[r].password = hash[c]
         /\ Stands(req[r])'
<1> DEFINE h == [Idle EXCEPT !.pc = "issue", !.password = hash[c]]
<1>1. h \in Handler /\ h.found = {} /\ h.pc = "issue" /\ h.held = None /\ h.password = hash[c]
  BY DEF Idle, Handler, Steps, RInv, OwnTypeOK
<1>2. Goto(r, h)
  BY DEF LoginRead
<1>3. req'[r] = h /\ Alone(r) /\ Found'
  BY <1>1, <1>2, GotoAlone
<1> QED
  BY <1>1, <1>3 DEF Stands

LEMMA RefreshLoadMoves ==
  ASSUME RInv, NEW r \in Request, NEW s \in Session, RefreshLoad(r, s)
  PROVE  /\ Alone(r) /\ Found' /\ req'[r].pc = "mint" /\ req'[r].held = None
         /\ req'[r].session = s
         /\ req'[r].passed <=> \E q \in Request : s \in req[q].found
         /\ Stands(req[r])'
<1> DEFINE h(b) == [Idle EXCEPT !.pc = "mint", !.session = s, !.passed = b]
           b == \E q \in Request : s \in req[q].found
<1>1. b \in BOOLEAN
  OBVIOUS
<1> HIDE DEF b
<1>2. /\ h(b) \in Handler /\ h(b).found = {} /\ h(b).pc = "mint" /\ h(b).held = None
      /\ h(b).session = s /\ h(b).passed = b
  BY <1>1 DEF Idle, Handler, Steps
<1>3. Goto(r, h(b))
  BY Zenon DEF RefreshLoad, b
<1>4. req'[r] = h(b) /\ Alone(r) /\ Found'
  BY <1>2, <1>3, GotoAlone
<1>5. s # None
  BY NoneIsNew
<1>6. Stands(req[r])'
  BY <1>2, <1>4, <1>5 DEF Stands
<1> QED
  BY <1>2, <1>4, <1>6 DEF b

LEMMA RefreshMintMoves ==
  ASSUME RInv, NEW r \in Request, RefreshMint(r)
  PROVE  /\ Alone(r) /\ Found' /\ req'[r] = Idle
         /\ \A q \in Request \ {r} :
              /\ req'[q].passed = req[q].passed
              /\ req'[q].found = req[q].found \ {req[r].session}
         /\ Stands(req[r])'
<1> DEFINE g(q) == [req[q] EXCEPT !.found = @ \ {req[r].session}]
<1>1. req'[r] = Idle /\ \A q \in Request \ {r} : req'[q] = g(q)
  BY Zenon DEF RefreshMint
<1>2. \A q \in Request \ {r} :
        /\ g(q).pc = req[q].pc /\ g(q).held = req[q].held /\ g(q).row = req[q].row
        /\ g(q).session = req[q].session /\ g(q).password = req[q].password
        /\ g(q).passed = req[q].passed
        /\ g(q).found = req[q].found \ {req[r].session}
  BY HandlerFields DEF RInv, Handler
<1>3. Alone(r)
  BY <1>1, <1>2 DEF Alone, Alike
<1>4. Found'
  BY <1>1, <1>2, IdleStands DEF RInv, Found
<1>5. Stands(req[r])'
  BY <1>1, IdleStands DEF Stands, Idle
<1> QED
  BY <1>1, <1>2, <1>3, <1>4, <1>5

-----------------------------------------------------------------------------
LEMMA PlacedKept == RInv /\ Next => Placed' /\ Found'
<1> SUFFICES ASSUME RInv, Next PROVE Placed' /\ Found'
  OBVIOUS
<1>1. ASSUME NEW r \in Request, NEW m \in Message, NEW k \in Kind \ {"none"}, Ask(r, m, k)
      PROVE Placed' /\ Found'
  <2>1. kind'[m] = k /\ m # None
    BY <1>1, NoneIsNew DEF Ask, RInv, OwnTypeOK
  <2>2. Stands(req[r])'
    BY <1>1, <2>1, AskMoves DEF Stands
  <2> QED
    BY <1>1, <2>2, AskMoves, OthersStand
<1>2. ASSUME NEW r \in Request, NEW m \in Message, Present(r, m) PROVE Placed' /\ Found'
  BY <1>2, PresentMoves, OthersStand
<1>3. ASSUME NEW r \in Request, Send(r) PROVE Placed' /\ Found'
  BY <1>3, IdleAlone, OthersStand DEF Send
<1>4. ASSUME NEW r \in Request, AcceptCode(r) PROVE Placed' /\ Found'
  BY <1>4, AcceptCodeMoves, OthersStand
<1>5. ASSUME NEW r \in Request, FlushConfirm(r) PROVE Placed' /\ Found'
  BY <1>5, IdleAlone, OthersStand DEF FlushConfirm
<1>6. ASSUME NEW r \in Request, FindCredential(r) PROVE Placed' /\ Found'
  BY <1>6, FindCredentialMoves, OthersStand
<1>7. ASSUME NEW r \in Request, NEW c \in Credential, SetPassword(r, c) PROVE Placed' /\ Found'
  BY <1>7, SetPasswordMoves, OthersStand
<1>8. ASSUME NEW r \in Request, FindSessions(r) PROVE Placed' /\ Found'
  BY <1>8, FindSessionsMoves, OthersStand
<1>9. ASSUME NEW r \in Request, FlushRevoked(r) PROVE Placed' /\ Found'
  BY <1>9, IdleAlone, OthersStand DEF FlushRevoked
<1>10. ASSUME NEW r \in Request, NEW c \in Credential, LoginRead(r, c) PROVE Placed' /\ Found'
  BY <1>10, LoginReadMoves, OthersStand
<1>11. ASSUME NEW r \in Request, NEW s \in Session, LoginIssue(r, s) PROVE Placed' /\ Found'
  BY <1>11, IdleAlone, OthersStand DEF LoginIssue
<1>12. ASSUME NEW r \in Request, NEW s \in Session, RefreshLoad(r, s) PROVE Placed' /\ Found'
  BY <1>12, RefreshLoadMoves, OthersStand
<1>13. ASSUME NEW r \in Request, RefreshMint(r) PROVE Placed' /\ Found'
  BY <1>13, RefreshMintMoves, OthersStand
<1>14. ASSUME NEW r \in Request, Abort(r) PROVE Placed' /\ Found'
  BY <1>14, IdleAlone, OthersStand DEF Abort
<1>15. CASE UNCHANGED rvars
  BY <1>15 DEF rvars, RInv, Placed, Stands, Found
<1> QED
  BY <1>1, <1>2, <1>3, <1>4, <1>5, <1>6, <1>7, <1>8, <1>9, <1>10, <1>11, <1>12, <1>13,
     <1>14, <1>15 DEF Next, ResetStep, SessionStep

(* What was queued refers to a stored link or code. *)
LEMMA ReferredKept == RInv /\ Next => Referred'
<1> SUFFICES ASSUME RInv, Next, NEW m \in Message
             PROVE  (sent'[m] > 0 => job'[m] # "none") /\ (job'[m] # "none" => kind'[m] # "none")
  BY DEF Referred
<1>1. kind[m] # "none" => kind'[m] # "none"
  BY KindsStay
<1>2. (sent[m] > 0 => job[m] # "none") /\ (job[m] # "none" => kind[m] # "none")
  BY DEF RInv, Referred
<1>3. CASE UNCHANGED nvars
  BY <1>1, <1>2, <1>3 DEF nvars
<1>4. ASSUME NEW r \in Request, Send(r) PROVE sent' = sent /\ (job'[m] = job[m] \/ kind[m] # "none")
  <2>1. req[r].held \in Message /\ kind[req[r].held] # "none"
    BY <1>4, HeldMessage DEF Send, RInv, Placed, Stands
  <2> QED
    BY <1>4, <2>1 DEF Send, Add, RInv, NInv, NotificationsTypeOK
<1>5. ASSUME NEW r \in Request, Send(r) PROVE job[m] # "none" => job'[m] # "none"
  BY <1>5, HeldMessage DEF Send, Add, RInv, NInv, NotificationsTypeOK
<1>6. CASE \E r \in Request : Send(r)
  BY <1>1, <1>2, <1>4, <1>5, <1>6
<1>7. ASSUME NEW n \in Message, Work(n) PROVE job[n] \notin {"none"} /\ job'[n] # "none"
  BY <1>7 DEF Work, Take, Accepted, Refused, AnswerLost, WorkerDies, Retry, RInv, NInv, NotificationsTypeOK
<1>8. ASSUME NEW n \in Message \ {m}, Work(n) PROVE job'[m] = job[m] /\ sent'[m] = sent[m]
  BY <1>8 DEF Work, Take, Accepted, Refused, AnswerLost, WorkerDies, Retry, Deliver, RInv, NInv,
              NotificationsTypeOK
<1>9. CASE \E n \in Message : Work(n)
  BY <1>1, <1>2, <1>7, <1>8, <1>9
<1>10. UNCHANGED nvars \/ (\E r \in Request : Send(r)) \/ (\E n \in Message : Work(n))
  <2>1. ASSUME NEW r \in Request, ResetStep(r) \/ SessionStep(r) \/ Abort(r) PROVE UNCHANGED nvars
    BY <2>1 DEF ResetStep, AcceptCode, FlushConfirm, FindCredential, SetPassword, FindSessions,
                FlushRevoked, SessionStep, LoginRead, LoginIssue, RefreshLoad, RefreshMint, Abort
  <2>2. ASSUME NEW r \in Request, NEW n \in Message, NEW k \in Kind, Ask(r, n, k) \/ Present(r, n)
        PROVE UNCHANGED nvars
    BY <2>2 DEF Ask, Present
  <2>3. ASSUME NEW r \in Request, NEW n \in Message, Present(r, n) PROVE UNCHANGED nvars
    BY <2>3 DEF Present
  <2> QED
    BY <2>1, <2>2, <2>3 DEF Next
<1> QED
  BY <1>3, <1>6, <1>9, <1>10

-----------------------------------------------------------------------------
(* The holders of links and codes. *)
LEMMA HoldersStay ==
  ASSUME RInv, NEW r \in Request, Alone(r), NEW m \in Message,
         req'[r].held # m \/ (req[r].held = m /\ req[r].pc # "send")
  PROVE  Holding(m)' \subseteq Holding(m)
  BY DEF Holding, Alone, Alike

LEMMA LettingGo ==
  ASSUME RInv, NEW r \in Request, Alone(r), req'[r].held = None
  PROVE  \A m \in Message : Holding(m)' \subseteq Holding(m) \ {r}
<1> TAKE m \in Message
<1>1. req'[r].held # m
  BY NoneIsNew
<1> QED
  BY <1>1 DEF Holding, Alone, Alike

(* Spending goes on where nobody new holds a message and nothing is written. *)
LEMMA QuietSpending ==
  ASSUME RInv, UNCHANGED <<consumed, resets, shared>>,
         \A m \in Message : kind[m] # "none" => kind'[m] = kind[m],
         \A m \in Message : Holding(m)' \subseteq Holding(m)
  PROVE  Spending'
  BY DEF RInv, Spending, Spent

LEMMA SpendingKept == RInv /\ Next => Spending'
<1> SUFFICES ASSUME RInv, Next PROVE Spending'
  OBVIOUS
<1>0. \A m \in Message : kind[m] # "none" => kind'[m] = kind[m]
  BY KindsStay
<1>1. ASSUME NEW r \in Request, NEW m \in Message, NEW k \in Kind \ {"none"}, Ask(r, m, k)
      PROVE Spending'
  <2>1. Alone(r) /\ req'[r].pc = "send"
    BY <1>1, AskMoves
  <2>2. \A n \in Message : Holding(n)' \subseteq Holding(n)
    BY <2>1 DEF Holding, Alone, Alike
  <2>3. UNCHANGED <<consumed, resets, shared>>
    BY <1>1 DEF Ask
  <2> QED
    BY <1>0, <2>2, <2>3, QuietSpending
<1>2. ASSUME NEW r \in Request, NEW m \in Message, Present(r, m) PROVE Spending'
  <2>1. /\ Alone(r) /\ req'[r].held = m /\ req'[r].pc # "send"
        /\ req[r].pc = "idle" /\ m \notin consumed
        /\ UNCHANGED <<kind, consumed, resets>>
        /\ shared \subseteq shared'
        /\ Holding(m) # {} => m \in shared'
    BY <1>2, PresentMoves DEF Present, Good
  <2>2. SUFFICES ASSUME NEW n \in Message PROVE Spent(n)'
    BY DEF Spending
  <2>3. Spent(n) /\ resets[n] \in Nat
    BY DEF RInv, Spending, OwnTypeOK
  <2>4. CASE n # m
    <3>1. Holding(n)' \subseteq Holding(n)
      BY <2>1, <2>4, HoldersStay
    <3> QED
      BY <2>1, <2>3, <3>1 DEF Spent
  <2>5. CASE n = m
    <3>1. resets[m] = 0
      BY <2>1, <2>3, <2>5 DEF Spent
    <3>2. Holding(m) = {} => Holding(m)' \subseteq {r}
      BY <2>1 DEF Holding, Alone, Alike
    <3> QED
      BY <2>1, <2>3, <2>5, <3>1, <3>2 DEF Spent
  <2> QED
    BY <2>4, <2>5
<1>3. ASSUME NEW r \in Request, Goto(r, Idle), UNCHANGED <<consumed, resets, shared>>
      PROVE Spending'
  <2>1. Alone(r) /\ req'[r].held = None
    BY <1>3, IdleAlone
  <2>2. \A n \in Message : Holding(n)' \subseteq Holding(n)
    BY <2>1, LettingGo
  <2> QED
    BY <1>0, <1>3, <2>2, QuietSpending
<1>4. ASSUME NEW r \in Request, AcceptCode(r) PROVE Spending'
  <2> DEFINE m == req[r].held
  <2>1. /\ Alone(r) /\ req'[r].held = m /\ req[r].pc = "code" /\ m \in Message
        /\ kind[m] \in {"phone", "code"} /\ consumed' = consumed \cup {m}
        /\ UNCHANGED <<kind, resets, shared>>
    BY <1>4, AcceptCodeMoves, HeldMessage DEF AcceptCode, RInv, Placed, Stands
  <2>2. \A n \in Message : Holding(n)' \subseteq Holding(n)
    BY <2>1, HoldersStay
  <2> QED
    BY <2>1, <2>2 DEF RInv, Spending, Spent
<1>5. ASSUME NEW r \in Request, FlushConfirm(r) PROVE Spending'
  <2> DEFINE m == req[r].held
  <2>1. /\ Alone(r) /\ req'[r].held = None /\ req[r].pc = "confirm" /\ m \in Message
        /\ kind[m] \in {"confirm", "phone"} /\ consumed' = consumed \cup {m}
        /\ UNCHANGED <<kind, resets, shared>>
    BY <1>5, IdleAlone, HeldMessage DEF FlushConfirm, RInv, Placed, Stands
  <2>2. \A n \in Message : Holding(n)' \subseteq Holding(n)
    BY <2>1, LettingGo
  <2> QED
    BY <2>1, <2>2 DEF RInv, Spending, Spent
<1>6. ASSUME NEW r \in Request, FindCredential(r) PROVE Spending'
  <2>1. /\ Alone(r) /\ req'[r].held = req[r].held /\ req[r].pc = "find"
        /\ UNCHANGED <<consumed, resets, shared>>
    BY <1>6, FindCredentialMoves DEF FindCredential
  <2>2. \A n \in Message : Holding(n)' \subseteq Holding(n)
    BY <2>1, HoldersStay
  <2> QED
    BY <1>0, <2>1, <2>2, QuietSpending
<1>7. ASSUME NEW r \in Request, NEW c \in Credential, SetPassword(r, c) PROVE Spending'
  <2> DEFINE m == req[r].held
  <2>1. /\ Alone(r) /\ req'[r].held = None /\ req[r].pc = "set" /\ m \in Message
        /\ kind[m] \in {"link", "code"} /\ consumed' = consumed \cup {m}
        /\ UNCHANGED <<kind, shared>> /\ resets' = [resets EXCEPT ![m] = @ + 1]
    BY <1>7, SetPasswordMoves, HeldMessage DEF SetPassword, RInv, Placed, Stands
  <2>2. SUFFICES ASSUME NEW n \in Message PROVE Spent(n)'
    BY DEF Spending
  <2>3. Holding(n)' \subseteq Holding(n) \ {r}
    BY <2>1, LettingGo
  <2>4. Spent(n) /\ resets[n] \in Nat /\ resets \in [Message -> Nat]
    BY DEF RInv, Spending, OwnTypeOK
  <2>5. CASE n # m
    <3>1. resets'[n] = resets[n] /\ (n \in consumed' <=> n \in consumed)
      BY <2>1, <2>4, <2>5
    <3> QED
      BY <2>1, <2>3, <2>4, <3>1 DEF Spent
  <2>6. CASE n = m
    <3>1. resets'[n] = resets[n] + 1 /\ n \in consumed' /\ r \in Holding(n)
      BY <2>1, <2>4, <2>6 DEF Holding
    <3>2. n \notin shared => resets[n] = 0 /\ Holding(n) \subseteq {r}
      BY <2>4, <3>1 DEF Spent, Holding
    <3> QED
      BY <2>1, <2>3, <2>4, <3>1, <3>2 DEF Spent
  <2> QED
    BY <2>5, <2>6
<1>8. ASSUME NEW r \in Request, Alone(r), req'[r].held = None, UNCHANGED <<consumed, resets, shared>>
      PROVE Spending'
  <2>1. \A n \in Message : Holding(n)' \subseteq Holding(n)
    BY <1>8, LettingGo
  <2> QED
    BY <1>0, <1>8, <2>1, QuietSpending
<1>9. ASSUME NEW r \in Request, FindSessions(r) PROVE Spending'
  BY <1>8, <1>9, FindSessionsMoves DEF FindSessions
<1>10. ASSUME NEW r \in Request, NEW c \in Credential, LoginRead(r, c) PROVE Spending'
  BY <1>8, <1>10, LoginReadMoves DEF LoginRead
<1>11. ASSUME NEW r \in Request, NEW s \in Session, RefreshLoad(r, s) PROVE Spending'
  BY <1>8, <1>11, RefreshLoadMoves DEF RefreshLoad
<1>12. ASSUME NEW r \in Request, RefreshMint(r) PROVE Spending'
  BY <1>8, <1>12, RefreshMintMoves DEF RefreshMint, Idle
<1>13. ASSUME NEW r \in Request, Send(r) \/ FlushRevoked(r) \/ Abort(r) PROVE Spending'
  BY <1>3, <1>13 DEF Send, FlushRevoked, Abort
<1>14. ASSUME NEW r \in Request, NEW s \in Session, LoginIssue(r, s) PROVE Spending'
  BY <1>3, <1>14 DEF LoginIssue
<1>15. CASE UNCHANGED rvars
  BY <1>15 DEF rvars, RInv, Spending, Spent, Holding
<1> QED
  BY <1>1, <1>2, <1>4, <1>5, <1>6, <1>7, <1>9, <1>10, <1>11, <1>12, <1>13,
     <1>14, <1>15 DEF Next, ResetStep, SessionStep

-----------------------------------------------------------------------------
LEMMA QuietRow ==
  ASSUME RInv, NEW r \in Request, Alone(r), req'[r].pc # "set",
         UNCHANGED <<rows, hash, password, doubled>>
  PROVE  OneRow'
  BY DEF RInv, OneRow, Alone, Alike

LEMMA OneRowKept == RInv /\ Next => OneRow'
<1> SUFFICES ASSUME RInv, Next PROVE OneRow'
  OBVIOUS
<1>1. ASSUME NEW r \in Request, NEW m \in Message, NEW k \in Kind \ {"none"}, Ask(r, m, k)
      PROVE OneRow'
  BY <1>1, AskMoves, QuietRow DEF Ask
<1>2. ASSUME NEW r \in Request, NEW m \in Message, Present(r, m) PROVE OneRow'
  BY <1>2, PresentMoves, QuietRow DEF Present
<1>3. ASSUME NEW r \in Request, Goto(r, Idle), UNCHANGED <<rows, hash, password, doubled>>
      PROVE OneRow'
  BY <1>3, IdleAlone, QuietRow
<1>4. ASSUME NEW r \in Request, AcceptCode(r) PROVE OneRow'
  BY <1>4, AcceptCodeMoves, QuietRow DEF AcceptCode
<1>5. ASSUME NEW r \in Request, Send(r) \/ FlushConfirm(r) \/ FlushRevoked(r) \/ Abort(r)
      PROVE OneRow'
  BY <1>3, <1>5 DEF Send, FlushConfirm, FlushRevoked, Abort
<1>6. ASSUME NEW r \in Request, FindCredential(r) PROVE OneRow'
  <2>1. /\ Alone(r) /\ UNCHANGED <<rows, hash, password>>
        /\ req'[r].row \in rows \/ (req'[r].row = None /\ rows = {})
    BY <1>6, FindCredentialMoves DEF FindCredential
  <2>2. ASSUME ~doubled'
        PROVE ~doubled /\ (rows = {} => \A q \in Request : ~(req[q].pc = "set" /\ req[q].row = None))
    BY <1>6, <2>2 DEF FindCredential
  <2>3. None \notin rows
    BY NoneIsNew DEF RInv, OwnTypeOK
  <2> QED
    BY <2>1, <2>2, <2>3 DEF RInv, OneRow, Alone, Alike
<1>7. ASSUME NEW r \in Request, NEW c \in Credential, SetPassword(r, c) PROVE OneRow'
  <2>1. /\ Alone(r) /\ req'[r].pc = "sessions" /\ req[r].pc = "set"
        /\ rows' = rows \cup {c} /\ hash' = [hash EXCEPT ![c] = password + 1]
        /\ password' = password + 1 /\ doubled' = doubled
        /\ req[r].row = c \/ req[r].row = None
    BY <1>7, SetPasswordMoves DEF SetPassword
  <2>2. SUFFICES ASSUME ~doubled PROVE OneRow'
    BY <2>1 DEF OneRow
  <2>3. rows \subseteq {c}
    <3>1. CASE req[r].row = None
      BY <2>1, <2>2, <3>1 DEF RInv, OneRow
    <3>2. CASE req[r].row = c
      <4>1. c # None
        BY NoneIsNew
      <4>2. c \in rows
        BY <2>1, <3>2, <4>1 DEF RInv, Placed, Stands
      <4> QED
        BY <2>2, <4>2 DEF RInv, OneRow
    <3> QED
      BY <2>1, <3>1, <3>2
  <2>4. rows' = {c} /\ hash'[c] = password'
    BY <2>1, <2>3 DEF RInv, OwnTypeOK
  <2>5. ASSUME NEW q \in Request, req'[q].pc = "set", req'[q].row = None PROVE FALSE
    <3>1. q # r /\ req[q].pc = "set" /\ req[q].row = None
      BY <2>1, <2>5 DEF Alone, Alike
    <3>2. rows = {} /\ (req[r].row = None => r = q)
      BY <2>1, <2>2, <3>1 DEF RInv, OneRow
    <3>3. req[r].row = c /\ c # None
      BY <2>1, <3>1, <3>2, NoneIsNew
    <3>4. c \in rows
      BY <2>1, <3>3 DEF RInv, Placed, Stands
    <3> QED
      BY <3>2, <3>4
  <2> QED
    BY <2>4, <2>5 DEF OneRow
<1>8. ASSUME NEW r \in Request, FindSessions(r) PROVE OneRow'
  BY <1>8, FindSessionsMoves, QuietRow DEF FindSessions
<1>9. ASSUME NEW r \in Request, NEW c \in Credential, LoginRead(r, c) PROVE OneRow'
  BY <1>9, LoginReadMoves, QuietRow DEF LoginRead
<1>10. ASSUME NEW r \in Request, NEW s \in Session, LoginIssue(r, s) PROVE OneRow'
  BY <1>10, <1>3 DEF LoginIssue
<1>11. ASSUME NEW r \in Request, NEW s \in Session, RefreshLoad(r, s) PROVE OneRow'
  BY <1>11, RefreshLoadMoves, QuietRow DEF RefreshLoad
<1>12. ASSUME NEW r \in Request, RefreshMint(r) PROVE OneRow'
  BY <1>12, RefreshMintMoves, QuietRow DEF RefreshMint, Idle
<1>13. CASE UNCHANGED rvars
  BY <1>13 DEF rvars, RInv, OneRow
<1> QED
  BY <1>1, <1>2, <1>4, <1>5, <1>6, <1>7, <1>8, <1>9, <1>10, <1>11, <1>12, <1>13
  DEF Next, ResetStep, SessionStep

-----------------------------------------------------------------------------
(* A step of one handler that leaves the sessions and the password alone.   *)
Still(r) == \A q \in Request \ {r} : req'[q] = req[q]

LEMMA GotoStill ==
  ASSUME RInv, NEW r \in Request, NEW h, Goto(r, h)
  PROVE  Still(r) /\ req'[r] = h
  BY DEF Goto, Still, RInv, OwnTypeOK

LEMMA QuietSettling ==
  ASSUME RInv, NEW r \in Request, Still(r),
         UNCHANGED <<session, opened, password, overlapped>>,
         cut => cut', doubled => doubled',
         ~cut' => req[r].pc \notin {"sessions", "revoke"},
         req'[r].pc \notin {"sessions", "revoke", "issue", "mint"}
  PROVE  Settling'
<1> SUFFICES ASSUME ~cut', ~doubled' PROVE (\A s \in Session : Doomed(s)') /\ (\A q \in Request : Overtaken(q)')
  BY DEF Settling
<1>1. (\A s \in Session : Doomed(s)) /\ (\A q \in Request : Overtaken(q))
  BY DEF RInv, Settling
<1>2. Looking' <=> Looking
  BY DEF Looking, Still
<1>3. \A s : FoundBy(s)' = FoundBy(s)
  BY DEF FoundBy, Still
<1>4. \A s \in Session : Doomed(s)'
  BY <1>1, <1>2, <1>3 DEF Doomed
<1>5. ASSUME NEW q \in Request PROVE Overtaken(q)'
  <2>1. CASE q = r
    BY <2>1 DEF Overtaken
  <2>2. CASE q # r
    <3>1. req'[q] = req[q] /\ Overtaken(q)
      BY <1>1, <2>2 DEF Still
    <3> QED
      BY <1>2, <1>3, <3>1 DEF Overtaken
  <2> QED
    BY <2>1, <2>2
<1> QED
  BY <1>4, <1>5

LEMMA SetPasswordSettles ==
  ASSUME RInv, NEW r \in Request, NEW c \in Credential, SetPassword(r, c)
  PROVE  Settling'
<1>1. /\ Still(r) /\ req[r].pc = "set" /\ req'[r].pc = "sessions"
      /\ UNCHANGED <<session, opened, overlapped, cut, doubled>>
  BY GotoStill, SetPasswordMoves DEF SetPassword
<1>2. Looking'
  BY <1>1 DEF Looking
<1>3. \A s : FoundBy(s)' = FoundBy(s)
  BY <1>1 DEF FoundBy, Still
<1>4. \A q \in Request : req'[q].pc = "mint" => req'[q] = req[q]
  BY <1>1 DEF Still
<1> QED
  BY <1>1, <1>2, <1>3, <1>4 DEF RInv, Settling, Doomed, Overtaken

LEMMA FindSessionsSettles ==
  ASSUME RInv, NEW r \in Request, FindSessions(r)
  PROVE  Settling'
<1>1. /\ req'[r].pc = "revoke" /\ req'[r].found = {s \in Session : session[s] = "active"}
      /\ \A q \in Request \ {r} : req'[q].passed <=> req[q].pc \in {"issue", "mint"}
      /\ \A q \in Request \ {r} : req'[q].pc = req[q].pc
      /\ session' = session
  BY FindSessionsMoves DEF FindSessions, Alone, Alike
<1>2. \A s \in Session : session'[s] = "active" => r \in FoundBy(s)'
  BY <1>1 DEF FoundBy
<1>3. \A q \in Request : req'[q].pc \in {"issue", "mint"} => req'[q].passed
  BY <1>1
<1> QED
  BY <1>2, <1>3 DEF Settling, Doomed, Overtaken

LEMMA FlushRevokedSettles ==
  ASSUME RInv, NEW r \in Request, FlushRevoked(r)
  PROVE  Settling'
<1>1. /\ Still(r) /\ req[r].pc = "revoke" /\ req'[r].pc = "idle"
      /\ UNCHANGED <<opened, password, overlapped, cut, doubled>>
      /\ \A s \in Session : session'[s] = IF s \in req[r].found THEN "revoked" ELSE session[s]
  BY GotoStill DEF FlushRevoked, Idle
<1>2. SUFFICES ASSUME ~cut, ~doubled
               PROVE  (\A s \in Session : Doomed(s)') /\ (\A q \in Request : Overtaken(q)')
  BY <1>1 DEF Settling
<1>3. (\A s \in Session : Doomed(s)) /\ (\A q \in Request : Overtaken(q))
  BY <1>2 DEF RInv, Settling
<1>4. Looking => Looking'
  BY <1>1 DEF Looking, Still
<1>5. \A s : FoundBy(s)' = FoundBy(s) \ {r}
  BY <1>1 DEF FoundBy, Still
<1>6. ASSUME NEW s \in Session PROVE Doomed(s)'
  <2>1. CASE s \in req[r].found
    BY <1>1, <2>1 DEF Doomed
  <2>2. CASE s \notin req[r].found
    <3>1. r \notin FoundBy(s) /\ session'[s] = session[s]
      BY <1>1, <2>2 DEF FoundBy
    <3> QED
      BY <1>1, <1>3, <1>4, <1>5, <3>1 DEF Doomed
  <2> QED
    BY <2>1, <2>2
<1>7. ASSUME NEW q \in Request PROVE Overtaken(q)'
  <2>1. CASE q = r
    BY <1>1, <2>1 DEF Overtaken
  <2>2. CASE q # r
    <3>1. req'[q] = req[q] /\ Overtaken(q)
      BY <1>1, <1>3, <2>2 DEF Still
    <3>2. CASE req[q].pc = "mint" /\ ~req[q].passed
      <4>1. req[q].session \in Session /\ FoundBy(req[q].session) = {}
        BY <3>1, <3>2, HandlerFields DEF Overtaken, RInv, Placed, Stands
      <4>2. req[q].session \notin req[r].found
        BY <1>1, <4>1 DEF FoundBy
      <4> QED
        BY <1>1, <1>5, <3>1, <3>2, <4>1, <4>2 DEF Overtaken
    <3> QED
      BY <1>1, <1>4, <3>1, <3>2 DEF Overtaken
  <2> QED
    BY <2>1, <2>2
<1> QED
  BY <1>6, <1>7

LEMMA LoginReadSettles ==
  ASSUME RInv, NEW r \in Request, NEW c \in Credential, LoginRead(r, c)
  PROVE  Settling'
<1>1. /\ Still(r) /\ req[r].pc = "idle" /\ req'[r].pc = "issue"
      /\ req'[r].password = hash[c] /\ c \in rows
      /\ UNCHANGED <<session, opened, password, overlapped, cut, doubled>>
  BY GotoStill, LoginReadMoves DEF LoginRead
<1>2. SUFFICES ASSUME ~cut, ~doubled
               PROVE  (\A s \in Session : Doomed(s)') /\ (\A q \in Request : Overtaken(q)')
  BY <1>1 DEF Settling
<1>3. (\A s \in Session : Doomed(s)) /\ (\A q \in Request : Overtaken(q)) /\ hash[c] = password
  BY <1>1, <1>2 DEF RInv, Settling, OneRow
<1>4. Looking' <=> Looking
  BY <1>1 DEF Looking, Still
<1>5. \A s : FoundBy(s)' = FoundBy(s)
  BY <1>1 DEF FoundBy, Still
<1>6. \A q \in Request \ {r} : req'[q] = req[q]
  BY <1>1 DEF Still
<1>7. \A s \in Session : Doomed(s)'
  BY <1>1, <1>3, <1>4, <1>5 DEF Doomed
<1>8. \A q \in Request : Overtaken(q)'
  BY <1>1, <1>3, <1>4, <1>5, <1>6 DEF Overtaken
<1> QED
  BY <1>7, <1>8

LEMMA LoginIssueSettles ==
  ASSUME RInv, NEW r \in Request, NEW s \in Session, LoginIssue(r, s)
  PROVE  Settling'
<1>1. /\ Still(r) /\ req[r].pc = "issue" /\ req'[r].pc = "idle"
      /\ session[s] = "none" /\ session' = [session EXCEPT ![s] = "active"]
      /\ opened' = [opened EXCEPT ![s] = req[r].password]
      /\ overlapped' = overlapped \cup {t \in {s} : req[r].passed}
      /\ UNCHANGED <<password, cut, doubled>>
  BY GotoStill DEF LoginIssue, Idle
<1>2. SUFFICES ASSUME ~cut, ~doubled
               PROVE  (\A t \in Session : Doomed(t)') /\ (\A q \in Request : Overtaken(q)')
  BY <1>1 DEF Settling
<1>3. (\A t \in Session : Doomed(t)) /\ (\A q \in Request : Overtaken(q))
  BY <1>2 DEF RInv, Settling
<1>4. Looking' <=> Looking
  BY <1>1 DEF Looking, Still
<1>5. \A t : FoundBy(t)' = FoundBy(t)
  BY <1>1 DEF FoundBy, Still
<1>6. \A q \in Request \ {r} : req'[q] = req[q]
  BY <1>1 DEF Still
<1>7. ASSUME NEW t \in Session PROVE Doomed(t)'
  <2>1. CASE t = s
    <3>1. opened'[s] = req[r].password
      BY <1>1 DEF RInv, OwnTypeOK
    <3>2. s \notin overlapped' => ~req[r].passed
      BY <1>1
    <3> QED
      BY <1>1, <1>3, <1>4, <2>1, <3>1, <3>2 DEF Doomed, Overtaken
  <2>2. CASE t # s
    <3>1. session'[t] = session[t] /\ opened'[t] = opened[t]
      BY <1>1, <2>2 DEF RInv, OwnTypeOK
    <3> QED
      BY <1>1, <1>3, <1>4, <1>5, <2>2, <3>1 DEF Doomed
  <2> QED
    BY <2>1, <2>2
<1>8. \A t \in Session : session[t] = "active" => session'[t] = "active"
  BY <1>1 DEF RInv, OwnTypeOK
<1>9. ASSUME NEW q \in Request PROVE Overtaken(q)'
  <2>1. CASE q = r
    BY <1>1, <2>1 DEF Overtaken
  <2>2. CASE q # r
    <3>1. req'[q] = req[q] /\ Overtaken(q)
      BY <1>3, <1>6, <2>2
    <3>2. req[q].pc = "mint" => req[q].session \in Session
      BY HandlerFields DEF RInv, Placed, Stands
    <3> QED
      BY <1>1, <1>4, <1>5, <1>8, <3>1, <3>2 DEF Overtaken
  <2> QED
    BY <2>1, <2>2
<1> QED
  BY <1>7, <1>9

LEMMA RefreshLoadSettles ==
  ASSUME RInv, NEW r \in Request, NEW s \in Session, RefreshLoad(r, s)
  PROVE  Settling'
<1>1. /\ Still(r) /\ req[r].pc = "idle" /\ req'[r].pc = "mint" /\ req'[r].session = s
      /\ session[s] = "active"
      /\ req'[r].passed <=> \E q \in Request : s \in req[q].found
      /\ UNCHANGED <<session, opened, password, overlapped, cut, doubled>>
  BY GotoStill, RefreshLoadMoves DEF RefreshLoad
<1>2. SUFFICES ASSUME ~cut, ~doubled
               PROVE  (\A t \in Session : Doomed(t)') /\ (\A q \in Request : Overtaken(q)')
  BY <1>1 DEF Settling
<1>3. (\A t \in Session : Doomed(t)) /\ (\A q \in Request : Overtaken(q))
  BY <1>2 DEF RInv, Settling
<1>4. Looking' <=> Looking
  BY <1>1 DEF Looking, Still
<1>5. \A t : FoundBy(t)' = FoundBy(t)
  BY <1>1 DEF FoundBy, Still
<1>6. ~req'[r].passed => FoundBy(s) = {}
  BY <1>1 DEF FoundBy
<1>7. \A t \in Session : Doomed(t)'
  BY <1>1, <1>3, <1>4, <1>5 DEF Doomed
<1>8. Overtaken(r)'
  BY <1>1, <1>5, <1>6 DEF Overtaken
<1>9. ASSUME NEW q \in Request \ {r} PROVE Overtaken(q)'
  <2>1. req'[q] = req[q] /\ Overtaken(q)
    BY <1>1, <1>3 DEF Still
  <2> QED
    BY <1>1, <1>4, <1>5, <2>1 DEF Overtaken
<1> QED
  BY <1>7, <1>8, <1>9

LEMMA RefreshMintSettles ==
  ASSUME RInv, NEW r \in Request, RefreshMint(r)
  PROVE  Settling'
<1> DEFINE s == req[r].session
<1>1. /\ req[r].pc = "mint" /\ req'[r] = Idle
      /\ session' = [session EXCEPT ![s] = "active"]
      /\ overlapped' = overlapped \cup {t \in {s} : req[r].passed}
      /\ UNCHANGED <<opened, password, cut, doubled>>
      /\ \A q \in Request \ {r} :
           /\ req'[q].passed = req[q].passed
           /\ req'[q].found = req[q].found \ {s}
           /\ Alike(req'[q], req[q])
  BY RefreshMintMoves DEF RefreshMint, Alone
<1>2. s \in Session /\ req'[r].pc = "idle"
  BY <1>1, HandlerFields DEF RInv, Placed, Stands, Idle
<1>3. SUFFICES ASSUME ~cut, ~doubled
               PROVE  (\A t \in Session : Doomed(t)') /\ (\A q \in Request : Overtaken(q)')
  BY <1>1 DEF Settling
<1>4. (\A t \in Session : Doomed(t)) /\ (\A q \in Request : Overtaken(q))
  BY <1>3 DEF RInv, Settling
<1>5. Looking' <=> Looking
  BY <1>1, <1>2 DEF Looking, Alike
<1>6. \A t : FoundBy(t)' \subseteq FoundBy(t)
  BY <1>1, <1>2 DEF FoundBy, Alike
<1>7. \A t : t # s => FoundBy(t)' = FoundBy(t)
  BY <1>1, <1>2 DEF FoundBy, Alike
<1> HIDE DEF s
<1>8. ASSUME NEW t \in Session PROVE Doomed(t)'
  <2>1. CASE t # s
    <3>1. session'[t] = session[t]
      BY <1>1, <2>1 DEF RInv, OwnTypeOK
    <3> QED
      BY <1>1, <1>4, <1>5, <1>7, <2>1, <3>1 DEF Doomed
  <2>2. CASE t = s
    <3>1. SUFFICES ASSUME s \notin overlapped', opened'[s] # password' PROVE Looking'
      BY <2>2 DEF Doomed
    <3>2. ~req[r].passed /\ s \notin overlapped /\ opened[s] # password
      BY <1>1, <3>1
    <3>3. session[s] = "active" /\ FoundBy(s) = {}
      BY <1>1, <1>4, <3>2 DEF Overtaken, s
    <3> QED
      BY <1>2, <1>4, <1>5, <3>2, <3>3 DEF Doomed
  <2> QED
    BY <2>1, <2>2
<1>9. \A t \in Session : session[t] = "active" => session'[t] = "active"
  BY <1>1, <1>2 DEF RInv, OwnTypeOK
<1>10. ASSUME NEW q \in Request PROVE Overtaken(q)'
  <2>1. CASE q = r
    BY <1>2, <2>1 DEF Overtaken
  <2>2. CASE q # r
    <3>1. /\ Overtaken(q) /\ Alike(req'[q], req[q])
          /\ req'[q].passed = req[q].passed
      BY <1>1, <1>4, <2>2
    <3>2. req[q].pc = "mint" => req[q].session \in Session
      BY HandlerFields DEF RInv, Placed, Stands
    <3>3. CASE req[q].pc = "mint" /\ ~req[q].passed
      <4>1. session[req[q].session] = "active" /\ FoundBy(req[q].session) = {}
        BY <3>1, <3>3 DEF Overtaken
      <4>2. session'[req[q].session] = "active" /\ FoundBy(req[q].session)' = {}
        BY <1>6, <1>9, <3>1, <3>2, <3>3, <4>1 DEF FoundBy, Alike
      <4> QED
        BY <3>1, <3>3, <4>2 DEF Overtaken, Alike, FoundBy
    <3> QED
      BY <1>1, <1>5, <3>1, <3>3 DEF Overtaken, Alike
  <2> QED
    BY <2>1, <2>2
<1> QED
  BY <1>8, <1>10

LEMMA SettlingKept == RInv /\ Next => Settling'
<1> SUFFICES ASSUME RInv, Next PROVE Settling'
  OBVIOUS
<1>1. ASSUME NEW r \in Request, NEW m \in Message, NEW k \in Kind \ {"none"}, Ask(r, m, k)
      PROVE Settling'
  BY <1>1, AskMoves, GotoStill, QuietSettling DEF Ask
<1>2. ASSUME NEW r \in Request, NEW m \in Message, Present(r, m) PROVE Settling'
  BY <1>2, PresentMoves, GotoStill, QuietSettling DEF Present
<1>3. ASSUME NEW r \in Request, Goto(r, Idle), req[r].pc \notin {"sessions", "revoke"},
             UNCHANGED <<session, opened, password, overlapped, doubled>>, cut => cut'
      PROVE Settling'
  BY <1>3, IdleAlone, GotoStill, QuietSettling
<1>4. ASSUME NEW r \in Request, Send(r) \/ FlushConfirm(r) PROVE Settling'
  BY <1>3, <1>4 DEF Send, FlushConfirm
<1>5. ASSUME NEW r \in Request, Abort(r) PROVE Settling'
  <2>1. CASE req[r].pc \in {"sessions", "revoke"}
    BY <1>5, <2>1 DEF Abort, Settling
  <2>2. CASE req[r].pc \notin {"sessions", "revoke"}
    BY <1>3, <1>5, <2>2 DEF Abort
  <2> QED
    BY <2>1, <2>2
<1>6. ASSUME NEW r \in Request, AcceptCode(r) PROVE Settling'
  BY <1>6, AcceptCodeMoves, GotoStill, QuietSettling DEF AcceptCode
<1>7. ASSUME NEW r \in Request, FindCredential(r) PROVE Settling'
  <2>1. Still(r)
    BY <1>7, GotoStill DEF FindCredential
  <2>2. /\ req[r].pc = "find" /\ req'[r].pc = "set" /\ (doubled => doubled')
        /\ UNCHANGED <<session, opened, password, overlapped, cut>>
    BY <1>7, FindCredentialMoves DEF FindCredential
  <2> QED
    BY <2>1, <2>2, QuietSettling
<1>8. CASE UNCHANGED rvars
  BY <1>8 DEF rvars, RInv, Settling, Doomed, Overtaken, Looking, FoundBy
<1> QED
  BY <1>1, <1>2, <1>4, <1>5, <1>6, <1>7, <1>8, SetPasswordSettles, FindSessionsSettles,
     FlushRevokedSettles, LoginReadSettles, LoginIssueSettles, RefreshLoadSettles, RefreshMintSettles
  DEF Next, ResetStep, SessionStep

-----------------------------------------------------------------------------
LEMMA StepInv == RInv /\ [Next]_vars => RInv'
<1> SUFFICES ASSUME RInv, [Next]_vars PROVE RInv'
  OBVIOUS
<1>1. NInv'
  BY QueueStep, NNextInv DEF RInv
<1>2. CASE Next
  BY <1>1, <1>2, TypeKept, PlacedKept, ReferredKept, SpendingKept, OneRowKept, SettlingKept DEF RInv
<1>3. CASE UNCHANGED vars
  <2>1. UNCHANGED rvars /\ UNCHANGED nvars
    BY <1>3 DEF vars
  <2>2. OwnTypeOK' /\ Placed' /\ Found'
    BY <2>1 DEF rvars, RInv, OwnTypeOK, Placed, Stands, Found
  <2>3. Referred'
    BY <2>1 DEF rvars, nvars, RInv, Referred
  <2>4. Spending'
    BY <2>1 DEF rvars, RInv, Spending, Spent, Holding
  <2>5. OneRow' /\ Settling'
    BY <2>1 DEF rvars, RInv, OneRow, Settling, Doomed, Overtaken, Looking, FoundBy
  <2> QED
    BY <1>1, <2>2, <2>3, <2>4, <2>5 DEF RInv
<1> QED
  BY <1>2, <1>3

(* The inductive invariant of recovery. *)
THEOREM RecoveryInvariant == Spec => []RInv
  BY InitInv, StepInv, PTL DEF Spec

(* Recovery uses the queue as the queue promises: every behaviour of it is  *)
(* one of the queue, so that what is proved of NSpec holds here.            *)
THEOREM QueueIsKept == Spec => NSpec
<1>1. Init => NInit
  BY DEF Init
<1> QED
  BY RecoveryInvariant, QueueStep, <1>1, PTL DEF Spec, NSpec

(* What the queue promises, for the messages of recovery. *)
THEOREM MessagesBounded ==
  Spec => []SentOnceUnlessLost /\ WorkRunsOut
  BY QueueIsKept, SentOnce, RunsOut, PTL

-----------------------------------------------------------------------------
(* The state of recovery is well typed. *)
THEOREM TypeCorrect == Spec => []RecoveryTypeOK
<1>1. RInv => RecoveryTypeOK
  BY DEF RInv, NInv, OwnTypeOK, RecoveryTypeOK
<1> QED
  BY RecoveryInvariant, <1>1, PTL

(* Once no reset is under way the sessions are those of the new password,   *)
(* outside the overlaps named.                                              *)
THEOREM OldSessions == Spec => []OldSessionsEnd
<1>1. ASSUME RInv, \A r \in Request : req[r].pc \notin {"sessions", "revoke"}, ~cut, ~doubled,
             NEW s \in Session \ overlapped, session[s] = "active"
      PROVE  opened[s] = password
  <2>1. ~Looking /\ FoundBy(s) = {}
    BY <1>1 DEF Looking, FoundBy
  <2> QED
    BY <1>1, <2>1 DEF RInv, Settling, Doomed
<1>2. RInv => OldSessionsEnd
  BY <1>1 DEF OldSessionsEnd
<1> QED
  BY RecoveryInvariant, <1>2, PTL

(* A link or a code sets one password unless two handlers held it at once,  *)
(* and whatever dies, a link is consumed only together with a new password. *)
THEOREM LinksOnce == Spec => []LinksResetOnce
<1>1. ASSUME RInv, NEW m \in Message
      PROVE  /\ resets[m] > 1 => m \in shared
             /\ kind[m] = "link" /\ m \in consumed => resets[m] > 0
  <2>1. Spent(m) /\ resets[m] \in Nat
    BY <1>1 DEF RInv, Spending, OwnTypeOK
  <2> QED
    BY <2>1 DEF Spent
<1>2. RInv => LinksResetOnce
  BY <1>1 DEF LinksResetOnce
<1> QED
  BY RecoveryInvariant, <1>2, PTL

(* The account has one credentials row unless two handlers found none.      *)
THEOREM OneCredential == Spec => []OneCredentialUnlessRaced
<1>1. ASSUME RInv, ~doubled PROVE ~(Cardinality(rows) > 1)
  <2>1. \A c, d \in rows : c = d
    BY <1>1 DEF RInv, OneRow
  <2>2. CASE rows = {}
    BY <2>2, FS_EmptySet
  <2>3. ASSUME NEW c \in rows PROVE ~(Cardinality(rows) > 1)
    <3>1. rows = {c}
      BY <2>1, <2>3
    <3>2. Cardinality(rows) = 1
      BY <3>1, FS_Singleton
    <3> QED
      BY <3>2
  <2> QED
    BY <2>2, <2>3
<1>2. RInv => OneCredentialUnlessRaced
  BY <1>1 DEF OneCredentialUnlessRaced, RInv, OwnTypeOK
<1> QED
  BY RecoveryInvariant, <1>2, PTL

(* Whatever the gateway accepts refers to a stored link or code. *)
THEOREM NothingSentAhead == Spec => []MessagesRefer
<1>1. RInv => MessagesRefer
  BY DEF RInv, Referred, MessagesRefer
<1> QED
  BY RecoveryInvariant, <1>1, PTL
=============================================================================
