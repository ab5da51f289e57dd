-------------------------------- MODULE Otp --------------------------------
(***************************************************************************)
(* One-time passcodes: OtpService.issue and verify over the otp_codes rows  *)
(* of one (identifier, purpose); rows of different pairs never meet.        *)
(*                                                                         *)
(* Handlers of several api replicas overlap.  issue looks for a recent row  *)
(* and inserts after an await; verify decides on the row it has read and    *)
(* flush writes the changed columns by primary key: the number of attempts  *)
(* is written as a literal and not incremented in the database.             *)
(*                                                                         *)
(* Time is counted in ticks, which are long beside a handler: a handler     *)
(* that has begun ends within its tick.                                     *)
(***************************************************************************)
EXTENDS Integers, FiniteSets

CONSTANTS
  Code,         \* otp_codes rows that may ever be created
  Request,      \* handlers in flight at once, over all replicas
  None,         \* no row
  Window,       \* OTP_RESEND_WINDOW_SECONDS, in ticks
  TTL,          \* OTP_TTL_SECONDS, in ticks
  MaxAttempts,  \* OTP_MAX_ATTEMPTS
  MaxTime       \* bound on the clock

ASSUME NoneIsNoCode == None \notin Code
ASSUME LimitsArePositive ==
  /\ Window \in Nat \ {0} /\ TTL \in Nat \ {0}
  /\ MaxAttempts \in Nat \ {0} /\ MaxTime \in Nat

VARIABLES
  now,
  issued,    \* rows that exist
  created,   \* created[c]: createdAt
  attempts,  \* attempts[c]
  consumed,  \* rows whose consumedAt is set
  req,       \* req[r]: where handler r is, the row it has read, what it writes
  accepted,  \* history: accepted[c] calls of verify answered that c matched
  rejected,  \* history: rejected[c] calls of verify compared c and refused
  raced,     \* history: rows two calls of verify held at once
  crowded    \* history: did two calls of issue overlap?

vars == <<now, issued, created, attempts, consumed, req, accepted, rejected, raced, crowded>>

Handler == [pc : {"idle", "insert", "verify", "lock"}, held : Code \cup {None},
            attempts : Nat, matches : BOOLEAN]
Idle == [pc |-> "idle", held |-> None, attempts |-> 0, matches |-> FALSE]

Expired(c) == created[c] + TTL <= now
(* Mutant: the window is not turned from seconds into milliseconds. *)
RecentInSeconds == {c \in issued : created[c] > now - (Window \div 1000)}

Recent == {c \in issued : created[c] > now - Window}

Open == issued \ consumed

(* findOne ... orderBy createdAt desc: a latest row that is not consumed. *)
Latest == {c \in Open : \A d \in Open : created[d] <= created[c]}

Goto(r, state) == req' = [req EXCEPT ![r] = state]
Holding(c) == {r \in Request : req[r].pc = "verify" /\ req[r].held = c}

-----------------------------------------------------------------------------
OtpTypeOK ==
  /\ now \in Nat
  /\ issued \subseteq Code
  /\ created \in [Code -> Nat]
  /\ attempts \in [Code -> 0 .. MaxAttempts]
  /\ consumed \subseteq issued
  /\ req \in [Request -> Handler]
  /\ accepted \in [Code -> Nat] /\ rejected \in [Code -> Nat]
  /\ raced \subseteq Code
  /\ crowded \in BOOLEAN

Init ==
  /\ now = 0
  /\ issued = {} /\ consumed = {}
  /\ created = [c \in Code |-> 0]
  /\ attempts = [c \in Code |-> 0]
  /\ req = [r \in Request |-> Idle]
  /\ accepted = [c \in Code |-> 0] /\ rejected = [c \in Code |-> 0]
  /\ raced = {}
  /\ crowded = FALSE

(* issue: no row was created within the window. *)
CheckRecent(r) ==
  /\ req[r].pc = "idle"
  /\ Recent = {}
  /\ Goto(r, [Idle EXCEPT !.pc = "insert"])
  /\ crowded' = (crowded \/ \E q \in Request : req[q].pc = "insert")
  /\ UNCHANGED <<now, issued, created, attempts, consumed, accepted, rejected, raced>>

(* issue: the row is inserted. *)
InsertCode(r, c) ==
  /\ req[r].pc = "insert"
  /\ c \notin issued
  /\ issued' = issued \cup {c}
  /\ created' = [created EXCEPT ![c] = now]
  /\ Goto(r, Idle)
  /\ UNCHANGED <<now, attempts, consumed, accepted, rejected, raced, crowded>>

(* verify: the latest open row, neither expired nor out of attempts; the    *)
(* code presented is that of the row, or another.                           *)
ReadCode(r, c, matches) ==
  /\ req[r].pc = "idle"
  /\ c \in Latest
  /\ ~Expired(c)
  /\ attempts[c] < MaxAttempts
  /\ Goto(r, [pc |-> "verify", held |-> c,
              attempts |-> attempts[c] + 1, matches |-> matches])
  /\ raced' = raced \cup {d \in {c} : Holding(d) # {}}
  /\ UNCHANGED <<now, issued, created, attempts, consumed, accepted, rejected, crowded>>

(* verify: the attempts of the row are used up. *)
ReadLocked(r, c) ==
  /\ req[r].pc = "idle"
  /\ c \in Latest
  /\ ~Expired(c)
  /\ attempts[c] >= MaxAttempts
  /\ Goto(r, [Idle EXCEPT !.pc = "lock", !.held = c])
  /\ UNCHANGED <<now, issued, created, attempts, consumed, accepted, rejected, raced, crowded>>

(* Mutant: a match is answered without consuming the row. *)
FlushUnconsumed(r) ==
  LET c == req[r].held IN
  /\ req[r].pc = "verify"
  /\ attempts' = [attempts EXCEPT ![c] = req[r].attempts]
  /\ IF req[r].matches
     THEN accepted' = [accepted EXCEPT ![c] = @ + 1] /\ UNCHANGED rejected
     ELSE rejected' = [rejected EXCEPT ![c] = @ + 1] /\ UNCHANGED accepted
  /\ Goto(r, Idle)
  /\ UNCHANGED <<now, issued, created, consumed, raced, crowded>>

(* Mutant: a wrong code is answered before the flush. *)
FlushUncounted(r) ==
  LET c == req[r].held IN
  /\ req[r].pc = "verify"
  /\ IF req[r].matches
     THEN /\ attempts' = [attempts EXCEPT ![c] = req[r].attempts]
          /\ consumed' = consumed \cup {c}
          /\ accepted' = [accepted EXCEPT ![c] = @ + 1]
          /\ UNCHANGED rejected
     ELSE /\ rejected' = [rejected EXCEPT ![c] = @ + 1]
          /\ UNCHANGED <<attempts, consumed, accepted>>
  /\ Goto(r, Idle)
  /\ UNCHANGED <<now, issued, created, raced, crowded>>

(* verify: the attempt is written, and a match consumes the row. *)
FlushAttempt(r) ==
  LET c == req[r].held IN
  /\ req[r].pc = "verify"
  /\ attempts' = [attempts EXCEPT ![c] = req[r].attempts]
  /\ \/ /\ req[r].matches
        /\ consumed' = consumed \cup {c}
        /\ accepted' = [accepted EXCEPT ![c] = @ + 1]
        /\ UNCHANGED rejected
     \/ /\ ~req[r].matches
        /\ rejected' = [rejected EXCEPT ![c] = @ + 1]
        /\ UNCHANGED <<consumed, accepted>>
  /\ Goto(r, Idle)
  /\ UNCHANGED <<now, issued, created, raced, crowded>>

(* verify: a row out of attempts is consumed and the code refused. *)
FlushLocked(r) ==
  /\ req[r].pc = "lock"
  /\ consumed' = consumed \cup {req[r].held}
  /\ Goto(r, Idle)
  /\ UNCHANGED <<now, issued, created, attempts, accepted, rejected, raced, crowded>>

(* An error or a restart ends a handler between its two awaits. *)
Abort(r) ==
  /\ req[r].pc # "idle"
  /\ Goto(r, Idle)
  /\ UNCHANGED <<now, issued, created, attempts, consumed, accepted, rejected, raced, crowded>>

Tick ==
  /\ now < MaxTime
  /\ \A r \in Request : req[r].pc = "idle"
  /\ now' = now + 1
  /\ UNCHANGED <<issued, created, attempts, consumed, req, accepted, rejected, raced, crowded>>

Next ==
  \/ \E r \in Request :
       \/ CheckRecent(r)
       \/ \E c \in Code : InsertCode(r, c) \/ ReadLocked(r, c)
       \/ \E c \in Code, matches \in BOOLEAN : ReadCode(r, c, matches)
       \/ FlushAttempt(r)
       \/ FlushLocked(r)
       \/ Abort(r)
  \/ Tick

Spec == Init /\ [][Next]_vars

-----------------------------------------------------------------------------
(* Properties *)

(* A code is accepted at most once, except where two verifications read its *)
(* row before either wrote.                                                 *)
AcceptedOnceUnlessRaced == \A c \in Code : accepted[c] > 1 => c \in raced

(* At most MaxAttempts presentations are compared with a code, right ones   *)
(* included, except where two verifications read its row at once.           *)
GuessesBoundedUnlessRaced ==
  \A c \in Code : accepted[c] + rejected[c] > MaxAttempts => c \in raced

(* The resend window bounds how many codes may be right at one time: with   *)
(* issues that do not overlap, the rows still verifiable were created a     *)
(* window apart, so there are at most TTL / Window of them, rounded up.     *)
Usable == {c \in Open : ~Expired(c) /\ attempts[c] < MaxAttempts}
FewUsableCodes ==
  ~crowded => Cardinality(Usable) <= (TTL + Window - 1) \div Window

(* A code that was compared with its last attempt is never accepted later,  *)
(* unless two verifications read it at once.                                *)
ExhaustedCodesAreDead ==
  [][\A c \in Code \ raced' : attempts[c] = MaxAttempts => accepted'[c] = accepted[c]]_vars
=============================================================================
