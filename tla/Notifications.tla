--------------------------- MODULE Notifications ---------------------------
(***************************************************************************)
(* The notification queue: NotificationService adds a BullMQ job for each   *)
(* message, NotificationProcessor in a worker hands it to the chapar        *)
(* gateway, and the queue tries again after an error, a lost answer or the  *)
(* death of the worker.                                                     *)
(*                                                                         *)
(* The queue and the gateway are not in the repository: they are modelled   *)
(* by the options and the time limit the code gives them.  A job is one     *)
(* message.  The delays between attempts only reorder messages, and two     *)
(* jobs are unordered here anyway.                                          *)
(***************************************************************************)
EXTENDS Integers

CONSTANTS
  Message,    \* messages that may ever be queued
  Attempts,   \* defaultJobOptions.attempts
  MaxStalls,  \* how often a job may outlive its worker (the queue's default)
  Unlucky     \* messages whose attempts may go wrong

ASSUME AttemptsArePositive == Attempts \in Nat \ {0} /\ MaxStalls \in Nat
ASSUME UnluckyMessages == Unlucky \subseteq Message

VARIABLES
  job,     \* job[m]: "none" before the job is added
  tries,   \* tries[m]: attempts that ended in an error
  stalls,  \* stalls[m]: workers that died on the job
  sent,    \* sent[m]: how often the gateway accepted the message
  lost     \* history: messages with an attempt whose outcome the queue missed

nvars == <<job, tries, stalls, sent, lost>>

Job == {"none", "waiting", "active", "done", "failed"}

NotificationsTypeOK ==
  /\ job \in [Message -> Job]
  /\ tries \in [Message -> 0 .. Attempts]
  /\ stalls \in [Message -> 0 .. MaxStalls]
  /\ sent \in [Message -> Nat]
  /\ lost \subseteq Message

NInit ==
  /\ job = [m \in Message |-> "none"]
  /\ tries = [m \in Message |-> 0]
  /\ stalls = [m \in Message |-> 0]
  /\ sent = [m \in Message |-> 0]
  /\ lost = {}

(* sendSms, sendEmail: queue.add. *)
Add(m) ==
  /\ job[m] = "none"
  /\ job' = [job EXCEPT ![m] = "waiting"]
  /\ UNCHANGED <<tries, stalls, sent, lost>>

(* A worker takes the job: NotificationProcessor.process begins. *)
Take(m) ==
  /\ job[m] = "waiting"
  /\ job' = [job EXCEPT ![m] = "active"]
  /\ UNCHANGED <<tries, stalls, sent, lost>>

Deliver(m) == sent' = [sent EXCEPT ![m] = @ + 1]

(* Mutant: process does not await the gateway and the job is tried again. *)
AcceptedAgain(m) ==
  /\ job[m] = "active"
  /\ Deliver(m)
  /\ tries' = [tries EXCEPT ![m] = @ + 1]
  /\ job' = [job EXCEPT ![m] = IF tries[m] + 1 < Attempts THEN "waiting" ELSE "failed"]
  /\ UNCHANGED <<stalls, lost>>

(* The gateway accepts the message and its answer arrives. *)
Accepted(m) ==
  /\ job[m] = "active"
  /\ Deliver(m)
  /\ job' = [job EXCEPT ![m] = "done"]
  /\ UNCHANGED <<tries, stalls, lost>>

(* Mutant: the attempts are not counted. *)
RetryForever(m) ==
  /\ job' = [job EXCEPT ![m] = "waiting"]
  /\ UNCHANGED <<tries, stalls>>

(* process threw: another attempt, unless this was the last. *)
Retry(m) ==
  /\ tries' = [tries EXCEPT ![m] = @ + 1]
  /\ job' = [job EXCEPT ![m] = IF tries[m] + 1 < Attempts THEN "waiting" ELSE "failed"]
  /\ UNCHANGED stalls

(* The gateway refuses the message or cannot be reached. *)
Refused(m) ==
  /\ m \in Unlucky
  /\ job[m] = "active"
  /\ Retry(m)
  /\ UNCHANGED <<sent, lost>>

(* The gateway accepts the message and its answer misses the time limit. *)
AnswerLost(m) ==
  /\ m \in Unlucky
  /\ job[m] = "active"
  /\ Deliver(m)
  /\ lost' = lost \cup {m}
  /\ Retry(m)

(* The worker dies before or after the gateway accepted; the queue notices  *)
(* the stalled job and gives it to another worker, MaxStalls times.         *)
WorkerDies(m) ==
  /\ m \in Unlucky
  /\ job[m] = "active"
  /\ Deliver(m) \/ UNCHANGED sent
  /\ lost' = lost \cup {m}
  /\ IF stalls[m] < MaxStalls
     THEN /\ stalls' = [stalls EXCEPT ![m] = @ + 1]
          /\ job' = [job EXCEPT ![m] = "waiting"]
     ELSE /\ job' = [job EXCEPT ![m] = "failed"]
          /\ UNCHANGED stalls
  /\ UNCHANGED tries

Work(m) == Take(m) \/ Accepted(m) \/ Refused(m) \/ AnswerLost(m) \/ WorkerDies(m)

NNext == \E m \in Message : Add(m) \/ Work(m)

NSpec == NInit /\ [][NNext]_nvars

-----------------------------------------------------------------------------
(* Properties *)

(* A message reaches the gateway twice only where an answer was lost or a   *)
(* worker died, and then the user gets at most one copy for each attempt    *)
(* the queue is configured for and each worker the job may outlive.         *)
SentOnceUnlessLost ==
  \A m \in Message :
    /\ sent[m] > 1 => m \in lost
    /\ sent[m] <= Attempts + MaxStalls

(* A message is never tried for ever: whatever the gateway and the workers  *)
(* do, each step of the queue on a message lowers the work left on it, so   *)
(* that it ends accepted or kept as a failed job.                           *)
Left(m) ==
  LET rounds == (Attempts - tries[m]) + (MaxStalls - stalls[m]) IN
  CASE job[m] = "waiting" -> 2 * rounds + 1
    [] job[m] = "active" -> 2 * rounds
    [] OTHER -> 0

WorkRunsOut ==
  [][\A m \in Message : Work(m) => Left(m) > 0 /\ Left(m)' < Left(m)]_nvars
=============================================================================
