----------------------------- MODULE OtpProofs -----------------------------
(***************************************************************************)
(* Theorems about Otp, for any rows, handlers, window, lifetime, number of  *)
(* attempts and clock.                                                      *)
(***************************************************************************)
EXTENDS Otp, FiniteSetTheorems, FunctionTheorems, TLAPS

(* What a handler holds is a row; the attempt it will write is allowed. *)
Base ==
  /\ OtpTypeOK
  /\ \A r \in Request :
       /\ req[r].pc = "verify" => req[r].held \in issued /\ req[r].attempts \in 1 .. MaxAttempts
       /\ req[r].pc = "lock" => req[r].held \in issued

(* A row that was not raced has one holder at most, whose copy of the       *)
(* attempts is true, and its attempts count the answers given on it.        *)
Single(c) ==
  /\ \A p, q \in Holding(c) : p = q
  /\ \A r \in Holding(c) :
       req[r].attempts = attempts[c] + 1 /\ attempts[c] < MaxAttempts /\ accepted[c] = 0
  /\ accepted[c] + rejected[c] = attempts[c]
  /\ accepted[c] > 0 => accepted[c] = 1 /\ c \in consumed

(* Issues that do not overlap leave a window between any two rows. *)
Apart(c, d) == created[c] + Window <= created[d] \/ created[d] + Window <= created[c]
Spaced ==
  /\ \A c \in issued : created[c] <= now
  /\ ~crowded =>
       /\ \A p, q \in Request : req[p].pc = "insert" /\ req[q].pc = "insert" => p = q
       /\ (\E r \in Request : req[r].pc = "insert") => Recent = {}
       /\ \A c, d \in issued : c # d => Apart(c, d)

IInv == Base /\ (\A c \in Code \ raced : Single(c)) /\ Spaced

-----------------------------------------------------------------------------
LEMMA InitInv == Init => IInv
<1> SUFFICES ASSUME Init PROVE IInv
  OBVIOUS
<1>1. Base
  <2>1. Idle \in Handler /\ Idle.pc = "idle"
    BY DEF Idle, Handler
  <2>2. req \in [Request -> Handler]
    BY <2>1 DEF Init
  <2>3. attempts \in [Code -> 0 .. MaxAttempts] /\ created \in [Code -> Nat]
        /\ accepted \in [Code -> Nat] /\ rejected \in [Code -> Nat]
    BY LimitsArePositive DEF Init
  <2>4. OtpTypeOK
    BY <2>2, <2>3 DEF Init, OtpTypeOK
  <2> QED
    BY <2>1, <2>4 DEF Init, Base
<1>2. \A c \in Code : Holding(c) = {}
  BY DEF Init, Holding, Idle
<1>3. \A c \in Code : Single(c)
  BY <1>2 DEF Init, Single
<1>4. Spaced
  BY DEF Init, Spaced, Idle
<1> QED
  BY <1>1, <1>3, <1>4 DEF IInv

(* A handler that moves leaves the others where they are. *)
LEMMA Moves ==
  ASSUME Base, NEW r \in Request, NEW h \in Handler, Goto(r, h)
  PROVE  /\ req' \in [Request -> Handler] /\ req'[r] = h
         /\ \A q \in Request : q # r => req'[q] = req[q]
  BY DEF Base, OtpTypeOK, Goto

LEMMA IdleIsAHandler ==
  /\ Idle \in Handler /\ Idle.pc = "idle"
  /\ [Idle EXCEPT !.pc = "insert"] \in Handler
  /\ \A c \in Code : [Idle EXCEPT !.pc = "lock", !.held = c] \in Handler
  BY DEF Idle, Handler

-----------------------------------------------------------------------------
(* Base *)


(* A handler goes on to something that fits its place, and the rest is typed. *)
LEMMA BaseMoves ==
  ASSUME Base, NEW r \in Request, NEW h \in Handler, Goto(r, h),
         h.pc = "verify" => h.held \in issued' /\ h.attempts \in 1 .. MaxAttempts,
         h.pc = "lock" => h.held \in issued',
         issued \subseteq issued',
         /\ now' \in Nat /\ issued' \subseteq Code /\ created' \in [Code -> Nat]
         /\ attempts' \in [Code -> 0 .. MaxAttempts] /\ consumed' \subseteq issued'
         /\ accepted' \in [Code -> Nat] /\ rejected' \in [Code -> Nat]
         /\ raced' \subseteq Code /\ crowded' \in BOOLEAN
  PROVE  Base'
<1>1. req' \in [Request -> Handler]
  BY Moves
<1>2. ASSUME NEW q \in Request
      PROVE  /\ req'[q].pc = "verify" => req'[q].held \in issued' /\ req'[q].attempts \in 1 .. MaxAttempts
             /\ req'[q].pc = "lock" => req'[q].held \in issued'
  BY Moves DEF Base
<1> QED
  BY <1>1, <1>2 DEF Base, OtpTypeOK

LEMMA BaseKept == Base /\ [Next]_vars => Base'
<1> SUFFICES ASSUME Base, [Next]_vars PROVE Base'
  OBVIOUS
<1>0. /\ now \in Nat /\ issued \subseteq Code /\ created \in [Code -> Nat]
      /\ attempts \in [Code -> 0 .. MaxAttempts] /\ consumed \subseteq issued
      /\ accepted \in [Code -> Nat] /\ rejected \in [Code -> Nat]
      /\ raced \subseteq Code /\ crowded \in BOOLEAN
  BY DEF Base, OtpTypeOK
<1>1. ASSUME NEW r \in Request, CheckRecent(r) PROVE Base'
  <2> DEFINE h == [Idle EXCEPT !.pc = "insert"]
  <2>1. h \in Handler /\ h.pc = "insert" /\ Goto(r, h)
    BY <1>1, IdleIsAHandler DEF CheckRecent, Idle
  <2>2. crowded' \in BOOLEAN
    BY <1>0, <1>1 DEF CheckRecent
  <2> HIDE DEF h
  <2> QED
    BY <1>0, <1>1, <2>1, <2>2, BaseMoves DEF CheckRecent
<1>2. ASSUME NEW r \in Request, NEW c \in Code, InsertCode(r, c) PROVE Base'
  BY <1>0, <1>2, BaseMoves, IdleIsAHandler DEF InsertCode, Idle
<1>3. ASSUME NEW r \in Request, NEW c \in Code, ReadLocked(r, c) PROVE Base'
  <2> DEFINE h == [Idle EXCEPT !.pc = "lock", !.held = c]
  <2>1. h \in Handler /\ h.pc = "lock" /\ h.held = c /\ Goto(r, h) /\ c \in issued
    BY <1>3, IdleIsAHandler DEF ReadLocked, Idle, Latest, Open
  <2> HIDE DEF h
  <2> QED
    BY <1>0, <1>3, <2>1, BaseMoves DEF ReadLocked
<1>4. ASSUME NEW r \in Request, NEW c \in Code, NEW b \in BOOLEAN, ReadCode(r, c, b) PROVE Base'
  <2> DEFINE h == [pc |-> "verify", held |-> c, attempts |-> attempts[c] + 1, matches |-> b]
  <2>1. c \in issued /\ attempts[c] + 1 \in 1 .. MaxAttempts
    BY <1>0, <1>4, LimitsArePositive DEF ReadCode, Latest, Open
  <2>2. h \in Handler /\ h.pc = "verify" /\ h.held = c /\ h.attempts = attempts[c] + 1
    BY <2>1 DEF Handler
  <2>3. Goto(r, h) /\ raced' \subseteq Code
    BY <1>0, <1>4 DEF ReadCode
  <2> HIDE DEF h
  <2> QED
    BY <1>0, <1>4, <2>1, <2>2, <2>3, BaseMoves DEF ReadCode
<1>5. ASSUME NEW r \in Request, FlushAttempt(r) PROVE Base'
  <2> DEFINE c == req[r].held
  <2>1. c \in issued /\ c \in Code /\ req[r].attempts \in 0 .. MaxAttempts
    BY <1>0, <1>5 DEF FlushAttempt, Base
  <2>2. /\ attempts' = [attempts EXCEPT ![c] = req[r].attempts]
        /\ consumed' = consumed \/ consumed' = consumed \cup {c}
        /\ accepted' = accepted \/ accepted' = [accepted EXCEPT ![c] = @ + 1]
        /\ rejected' = rejected \/ rejected' = [rejected EXCEPT ![c] = @ + 1]
        /\ Goto(r, Idle) /\ UNCHANGED <<now, issued, created, raced, crowded>>
    BY <1>5 DEF FlushAttempt
  <2> HIDE DEF c
  <2>3. attempts' \in [Code -> 0 .. MaxAttempts] /\ consumed' \subseteq issued
    BY <1>0, <2>1, <2>2
  <2>4. accepted' \in [Code -> Nat] /\ rejected' \in [Code -> Nat]
    BY <1>0, <2>1, <2>2
  <2> QED
    BY <1>0, <2>2, <2>3, <2>4, BaseMoves, IdleIsAHandler
<1>6. ASSUME NEW r \in Request, FlushLocked(r) PROVE Base'
  <2>1. consumed' \subseteq issued
    BY <1>0, <1>6 DEF FlushLocked, Base
  <2> QED
    BY <1>0, <1>6, <2>1, BaseMoves, IdleIsAHandler DEF FlushLocked
<1>7. ASSUME NEW r \in Request, Abort(r) PROVE Base'
  BY <1>0, <1>7, BaseMoves, IdleIsAHandler DEF Abort
<1>8. CASE Tick
  BY <1>8 DEF Tick, Base, OtpTypeOK
<1>9. CASE UNCHANGED vars
  BY <1>9 DEF vars, Base, OtpTypeOK
<1> QED
  BY <1>1, <1>2, <1>3, <1>4, <1>5, <1>6, <1>7, <1>8, <1>9 DEF Next

-----------------------------------------------------------------------------
(* Single *)

(* A step that lets go of rows or touches none. *)
LEMMA QuietKept ==
  ASSUME NEW c \in Code, Single(c),
         \A r \in Request : r \in Holding(c)' => r \in Holding(c) /\ req'[r] = req[r],
         UNCHANGED <<attempts, accepted, rejected>>, consumed \subseteq consumed'
  PROVE  Single(c)'
<1>1. Holding(c)' \subseteq Request
  BY DEF Holding
<1> QED
  BY <1>1 DEF Single

LEMMA ReadCodeKept ==
  ASSUME Base, NEW c \in Code \ raced', Single(c), NEW r \in Request, NEW d \in Code,
         NEW b \in BOOLEAN, ReadCode(r, d, b)
  PROVE  Single(c)'
<1> DEFINE h == [pc |-> "verify", held |-> d, attempts |-> attempts[d] + 1, matches |-> b]
<1>1. h \in Handler /\ h.pc = "verify" /\ h.held = d /\ h.attempts = attempts[d] + 1
  BY DEF Handler, Base, OtpTypeOK
<1>2. Goto(r, h) /\ req[r].pc = "idle" /\ UNCHANGED <<attempts, accepted, rejected, consumed>>
      /\ d \notin consumed /\ attempts[d] < MaxAttempts
  BY DEF ReadCode, Latest, Open
<1> HIDE DEF h
<1>3. req'[r] = h /\ \A q \in Request : q # r => req'[q] = req[q]
  BY <1>1, <1>2, Moves
<1>4. CASE c # d
  <2>1. \A q \in Request : q \in Holding(c)' => q \in Holding(c) /\ req'[q] = req[q]
    BY <1>1, <1>3, <1>4 DEF Holding
  <2> QED
    BY <1>2, <2>1, QuietKept
<1>5. CASE c = d
  <2>1. Holding(c) = {}
    BY <1>5 DEF ReadCode
  <2>2. Holding(c)' = {r}
    BY <1>1, <1>3, <1>5, <2>1 DEF Holding
  <2>3. accepted[c] = 0
    BY <1>2, <1>5 DEF Single, Base, OtpTypeOK
  <2> QED
    BY <1>1, <1>2, <1>3, <1>5, <2>2, <2>3 DEF Single
<1> QED
  BY <1>4, <1>5

LEMMA FlushAttemptKept ==
  ASSUME Base, NEW c \in Code \ raced, Single(c), NEW r \in Request, FlushAttempt(r)
  PROVE  Single(c)'
<1> DEFINE d == req[r].held
<1>1. d \in Code /\ req[r].pc = "verify" /\ r \in Holding(d)
  BY DEF FlushAttempt, Base, OtpTypeOK, Holding
<1>2. req'[r].pc = "idle" /\ \A q \in Request : q # r => req'[q] = req[q]
  BY Moves, IdleIsAHandler DEF FlushAttempt
<1>3. attempts' = [attempts EXCEPT ![d] = req[r].attempts] /\ consumed \subseteq consumed'
  BY DEF FlushAttempt
<1>4. \/ /\ d \in consumed' /\ accepted' = [accepted EXCEPT ![d] = @ + 1] /\ UNCHANGED rejected
      \/ /\ rejected' = [rejected EXCEPT ![d] = @ + 1] /\ UNCHANGED accepted
  BY DEF FlushAttempt
<1> HIDE DEF d
<1>5. CASE c # d
  <2>1. \A q \in Request : q \in Holding(c)' => q \in Holding(c) /\ req'[q] = req[q]
    BY <1>2 DEF Holding
  <2>2. attempts'[c] = attempts[c] /\ accepted'[c] = accepted[c] /\ rejected'[c] = rejected[c]
    BY <1>3, <1>4, <1>5 DEF Base, OtpTypeOK
  <2>3. Holding(c)' \subseteq Request
    BY DEF Holding
  <2> QED
    BY <1>3, <2>1, <2>2, <2>3 DEF Single
<1>6. CASE c = d
  <2>1. Holding(c) = {r}
    BY <1>1, <1>6 DEF Single
  <2>2. Holding(c)' = {}
    BY <1>2, <2>1 DEF Holding
  <2>3. req[r].attempts = attempts[c] + 1 /\ accepted[c] = 0
    BY <2>1 DEF Single
  <2>4. attempts'[c] = attempts[c] + 1
    BY <1>3, <1>6, <2>3 DEF Base, OtpTypeOK
  <2>5. \/ c \in consumed' /\ accepted'[c] = 1 /\ rejected'[c] = rejected[c]
        \/ accepted'[c] = 0 /\ rejected'[c] = rejected[c] + 1
    BY <1>4, <1>6, <2>3 DEF Base, OtpTypeOK
  <2>6. attempts[c] \in Nat /\ rejected[c] \in Nat
    BY DEF Base, OtpTypeOK
  <2> QED
    BY <2>2, <2>3, <2>4, <2>5, <2>6 DEF Single
<1> QED
  BY <1>5, <1>6

LEMMA SingleKept ==
  ASSUME IInv, [Next]_vars, NEW c \in Code \ raced'
  PROVE  Single(c)'
<1>0. Base /\ raced \subseteq raced'
  BY DEF IInv, Next, vars, CheckRecent, InsertCode, ReadLocked, ReadCode, FlushAttempt, FlushLocked, Abort, Tick
<1>1. c \in Code \ raced /\ Single(c)
  BY <1>0 DEF IInv
<1>2. ASSUME NEW r \in Request,
             CheckRecent(r) \/ (\E d \in Code : InsertCode(r, d) \/ ReadLocked(r, d)) \/ FlushLocked(r) \/ Abort(r)
      PROVE  Single(c)'
  <2>1. /\ UNCHANGED <<attempts, accepted, rejected>> /\ consumed \subseteq consumed'
        /\ \E h \in Handler : Goto(r, h) /\ h.pc # "verify"
    BY <1>2, IdleIsAHandler DEF CheckRecent, InsertCode, ReadLocked, FlushLocked, Abort, Idle
  <2>2. req'[r].pc # "verify" /\ \A q \in Request : q # r => req'[q] = req[q]
    BY <1>0, <2>1, Moves
  <2>3. \A q \in Request : q \in Holding(c)' => q \in Holding(c) /\ req'[q] = req[q]
    BY <2>2 DEF Holding
  <2> QED
    BY <1>1, <2>1, <2>3, QuietKept
<1>3. CASE Tick \/ UNCHANGED vars
  <2>1. UNCHANGED <<attempts, accepted, rejected, consumed, req>>
    BY <1>3 DEF Tick, vars
  <2> QED
    BY <1>1, <2>1, QuietKept DEF Holding
<1> QED
  BY <1>0, <1>1, <1>2, <1>3, ReadCodeKept, FlushAttemptKept DEF Next

-----------------------------------------------------------------------------
(* Spaced *)

LEMMA SpacedKept == Base /\ Spaced /\ [Next]_vars => Spaced'
<1> SUFFICES ASSUME Base, Spaced, [Next]_vars PROVE Spaced'
  OBVIOUS
<1>0. now \in Nat /\ issued \subseteq Code /\ created \in [Code -> Nat] /\ Window \in Nat
  BY LimitsArePositive DEF Base, OtpTypeOK
<1>1. ASSUME NEW r \in Request, NEW h \in Handler, h.pc # "insert", Goto(r, h),
             UNCHANGED <<now, issued, created, crowded>>
      PROVE  Spaced'
  <2>1. \A q \in Request : req'[q].pc = "insert" => req[q].pc = "insert"
    BY <1>1, Moves
  <2>2. Recent' = Recent
    BY <1>1 DEF Recent
  <2> QED
    BY <1>1, <2>1, <2>2 DEF Spaced, Apart
<1>2. ASSUME NEW r \in Request, FlushAttempt(r) \/ FlushLocked(r) \/ Abort(r) PROVE Spaced'
  BY <1>1, <1>2, IdleIsAHandler DEF FlushAttempt, FlushLocked, Abort
<1>3. ASSUME NEW r \in Request, NEW c \in Code, ReadLocked(r, c) PROVE Spaced'
  <2>1. [Idle EXCEPT !.pc = "lock", !.held = c].pc # "insert"
    BY DEF Idle
  <2> QED
    BY <1>1, <1>3, <2>1, IdleIsAHandler DEF ReadLocked
<1>4. ASSUME NEW r \in Request, NEW c \in Code, NEW b \in BOOLEAN, ReadCode(r, c, b) PROVE Spaced'
  <2>1. [pc |-> "verify", held |-> c, attempts |-> attempts[c] + 1, matches |-> b] \in Handler
    BY DEF Handler, Base, OtpTypeOK
  <2> QED
    BY <1>1, <1>4, <2>1 DEF ReadCode
<1>5. ASSUME NEW r \in Request, CheckRecent(r) PROVE Spaced'
  <2> DEFINE h == [Idle EXCEPT !.pc = "insert"]
  <2>1. h \in Handler /\ Goto(r, h)
    BY <1>5, IdleIsAHandler DEF CheckRecent
  <2> HIDE DEF h
  <2>2. \A q \in Request : q # r => req'[q] = req[q]
    BY <2>1, Moves
  <2>3. Recent = {} /\ UNCHANGED <<now, issued, created>>
        /\ (~crowded' => ~crowded /\ \A q \in Request : req[q].pc # "insert")
    BY <1>5 DEF CheckRecent
  <2>4. Recent' = {}
    BY <2>3 DEF Recent
  <2> QED
    BY <2>2, <2>3, <2>4 DEF Spaced, Apart
<1>6. ASSUME NEW r \in Request, NEW c \in Code, InsertCode(r, c) PROVE Spaced'
  <2>1. req'[r] = Idle /\ Idle.pc = "idle" /\ \A q \in Request : q # r => req'[q] = req[q]
    BY <1>6, Moves, IdleIsAHandler DEF InsertCode
  <2>2. /\ req[r].pc = "insert" /\ c \notin issued /\ issued' = issued \cup {c}
        /\ created' = [created EXCEPT ![c] = now] /\ UNCHANGED <<now, crowded>>
    BY <1>6 DEF InsertCode
  <2>3. created'[c] = now /\ \A d \in issued : created'[d] = created[d]
    BY <1>0, <2>2
  <2>4. \A d \in issued' : created'[d] <= now'
    BY <1>0, <2>2, <2>3 DEF Spaced
  <2>5. ASSUME ~crowded
        PROVE  /\ \A q \in Request : req'[q].pc # "insert"
               /\ \A d, e \in issued' : d # e => Apart(d, e)'
    <3>1. \A q \in Request : req'[q].pc # "insert"
      BY <2>1, <2>2, <2>5 DEF Spaced
    <3>2. ASSUME NEW d \in issued PROVE created[d] + Window <= now /\ created[d] \in Nat
      <4>1. d \notin Recent
        BY <2>2, <2>5 DEF Spaced
      <4> QED
        BY <1>0, <4>1 DEF Recent
    <3>3. \A d \in issued : Apart(d, c)' /\ Apart(c, d)'
      BY <2>3, <3>2 DEF Apart
    <3>4. \A d, e \in issued : d # e => Apart(d, e)'
      BY <2>3, <2>5 DEF Apart, Spaced
    <3> QED
      BY <2>2, <3>1, <3>3, <3>4
  <2> QED
    BY <2>2, <2>4, <2>5 DEF Spaced
<1>7. CASE Tick
  <2>1. \A r \in Request : req'[r].pc = "idle"
    BY <1>7 DEF Tick
  <2>2. now' = now + 1 /\ UNCHANGED <<issued, created, crowded>>
    BY <1>7 DEF Tick
  <2>3. \A c \in issued : created[c] <= now + 1
    BY <1>0 DEF Spaced
  <2> QED
    BY <2>1, <2>2, <2>3 DEF Spaced, Apart
<1>8. CASE UNCHANGED vars
  BY <1>8 DEF vars, Spaced, Apart, Recent
<1> QED
  BY <1>2, <1>3, <1>4, <1>5, <1>6, <1>7, <1>8 DEF Next

LEMMA NextInv == IInv /\ [Next]_vars => IInv'
<1> SUFFICES ASSUME IInv, [Next]_vars PROVE IInv'
  OBVIOUS
<1>1. Base' /\ Spaced'
  BY BaseKept, SpacedKept DEF IInv
<1>2. \A c \in Code \ raced' : Single(c)'
  BY SingleKept
<1> QED
  BY <1>1, <1>2 DEF IInv

(* The inductive invariant. *)
THEOREM Invariant == Spec => []IInv
  BY InitInv, NextInv, PTL DEF Spec

-----------------------------------------------------------------------------
(* The state is well typed. *)
THEOREM TypeCorrect == Spec => []OtpTypeOK
<1>1. IInv => OtpTypeOK
  BY DEF IInv, Base
<1> QED
  BY Invariant, <1>1, PTL

(* A code is accepted at most once, unless two verifications held it. *)
THEOREM AcceptedOnce == Spec => []AcceptedOnceUnlessRaced
<1>1. IInv => AcceptedOnceUnlessRaced
  <2> SUFFICES ASSUME IInv, NEW c \in Code \ raced PROVE ~(accepted[c] > 1)
    BY DEF AcceptedOnceUnlessRaced
  <2>1. Single(c) /\ accepted[c] \in Nat
    BY DEF IInv, Base, OtpTypeOK
  <2> QED
    BY <2>1 DEF Single
<1> QED
  BY Invariant, <1>1, PTL

(* At most MaxAttempts presentations are compared with a code, unless two   *)
(* verifications held it.                                                   *)
THEOREM GuessesBounded == Spec => []GuessesBoundedUnlessRaced
<1>1. IInv => GuessesBoundedUnlessRaced
  <2> SUFFICES ASSUME IInv, NEW c \in Code \ raced PROVE ~(accepted[c] + rejected[c] > MaxAttempts)
    BY DEF GuessesBoundedUnlessRaced
  <2>1. Single(c) /\ attempts[c] \in 0 .. MaxAttempts
    BY DEF IInv, Base, OtpTypeOK
  <2> QED
    BY <2>1, LimitsArePositive DEF Single
<1> QED
  BY Invariant, <1>1, PTL

(* A code whose attempts are used up is never accepted later, unless two    *)
(* verifications held it.                                                   *)
THEOREM ExhaustedStayDead == Spec => ExhaustedCodesAreDead
<1> DEFINE Dead == \A c \in Code \ raced' : attempts[c] = MaxAttempts => accepted'[c] = accepted[c]
<1>1. IInv /\ [Next]_vars => Dead
  <2> SUFFICES ASSUME IInv, [Next]_vars, NEW c \in Code \ raced', attempts[c] = MaxAttempts
               PROVE  accepted'[c] = accepted[c]
    OBVIOUS
  <2>1. CASE UNCHANGED accepted
    BY <2>1
  <2>2. ASSUME NEW r \in Request, FlushAttempt(r) PROVE accepted'[c] = accepted[c]
    <3>1. Single(c)
      BY <2>2 DEF IInv, FlushAttempt
    <3>2. req[r].held # c
      BY <2>2, <3>1, LimitsArePositive DEF FlushAttempt, Single, Holding
    <3> QED
      BY <2>2, <3>2 DEF FlushAttempt, IInv, Base, OtpTypeOK
  <2>3. UNCHANGED accepted \/ \E r \in Request : FlushAttempt(r)
    BY DEF Next, vars, CheckRecent, InsertCode, ReadLocked, ReadCode, FlushLocked, Abort, Tick
  <2> QED
    BY <2>1, <2>2, <2>3
<1> HIDE DEF Dead
<1>2. IInv /\ [Next]_vars => [Dead]_vars
  BY <1>1
<1>3. Spec => [][Dead]_vars
  BY Invariant, <1>2, PTL DEF Spec
<1> QED
  BY <1>3 DEF Dead, ExhaustedCodesAreDead

-----------------------------------------------------------------------------
(* How many windows fit into the life of a code. *)

(* Division with remainder, by a window of any length. *)
LEMMA Quotients ==
  ASSUME NEW w \in Nat \ {0}, NEW n \in Nat
  PROVE  n \div w \in Nat /\ w * (n \div w) <= n /\ n < w * (n \div w) + w
  BY SMT

(* Numbers a window apart are in different windows. *)
LEMMA OtherWindow ==
  ASSUME NEW w \in Nat \ {0}, NEW m \in Nat, NEW n \in Nat, m + w <= n
  PROVE  m \div w # n \div w
<1> SUFFICES ASSUME m \div w = n \div w PROVE FALSE
  OBVIOUS
<1> DEFINE q == m \div w
<1>1. q \in Nat /\ w * q <= m /\ m < w * q + w /\ n < w * q + w
  BY Quotients
<1> HIDE DEF q
<1>2. w * q \in Nat
  BY <1>1
<1> QED
  BY <1>1, <1>2

(* Numbers below a lifetime are in one of its windows. *)
LEMMA WindowsOfLife ==
  ASSUME NEW w \in Nat \ {0}, NEW t \in Nat \ {0}, NEW n \in 0 .. t - 1
  PROVE  n \div w \in 0 .. (t + w - 1) \div w - 1
<1> DEFINE q == n \div w
           k == (t + w - 1) \div w
<1>1. t + w - 1 \in Nat
  OBVIOUS
<1>2. n \in Nat /\ q \in Nat /\ w * q <= n
  BY Quotients
<1>3. k \in Nat /\ t + w - 1 < w * k + w
  BY <1>1, Quotients
<1> HIDE DEF q, k
<1>4. w * q < w * k
  BY <1>2, <1>3
<1>5. q < k
  <2> SUFFICES ASSUME k <= q PROVE FALSE
    BY <1>2, <1>3
  <2>1. w * k <= w * q
    BY <1>2, <1>3
  <2> QED
    BY <1>2, <1>3, <1>4, <2>1
<1>6. q \in 0 .. k - 1
  BY <1>2, <1>3, <1>5
<1> QED
  BY <1>6 DEF q, k

LEMMA FewCodes == IInv => FewUsableCodes
<1> SUFFICES ASSUME IInv, ~crowded
             PROVE  Cardinality(Usable) <= (TTL + Window - 1) \div Window
  BY DEF FewUsableCodes
<1> DEFINE age == [c \in Usable |-> created[c] + TTL - now - 1]
           f == [c \in Usable |-> age[c] \div Window]
           k == (TTL + Window - 1) \div Window
<1>0. now \in Nat /\ TTL \in Nat \ {0} /\ Window \in Nat \ {0} /\ k \in Nat
  <2>1. TTL + Window - 1 \in Nat /\ TTL \in Nat \ {0} /\ Window \in Nat \ {0}
    BY LimitsArePositive
  <2> QED
    BY <2>1, Quotients DEF IInv, Base, OtpTypeOK
<1>1. ASSUME NEW c \in Usable PROVE c \in issued /\ created[c] \in Nat /\ age[c] \in 0 .. TTL - 1
  <2>1. c \in issued /\ ~(created[c] + TTL <= now)
    BY DEF Usable, Open, Expired
  <2>2. created[c] \in Nat /\ created[c] <= now
    BY <2>1 DEF IInv, Base, OtpTypeOK, Spaced
  <2> QED
    BY <1>0, <2>1, <2>2
<1>2. ASSUME NEW c \in Usable PROVE f[c] \in 0 .. k - 1
  BY <1>0, <1>1, WindowsOfLife
<1>3. ASSUME NEW c \in Usable, NEW d \in Usable, f[c] = f[d] PROVE c = d
  <2> SUFFICES ASSUME c # d PROVE FALSE
    OBVIOUS
  <2>1. Apart(c, d)
    BY <1>1 DEF IInv, Spaced
  <2>2. age[c] \in Nat /\ age[d] \in Nat
    BY <1>1
  <2>3. age[c] + Window <= age[d] \/ age[d] + Window <= age[c]
    BY <1>0, <1>1, <2>1 DEF Apart
  <2> QED
    BY <1>0, <1>3, <2>2, <2>3, OtherWindow
<1> HIDE DEF f, k
<1>4. f \in Injection(Usable, 0 .. k - 1)
  <2>1. f \in [Usable -> 0 .. k - 1]
    BY <1>2 DEF f
  <2> QED
    BY <1>3, <2>1 DEF Injection, IsInjective
<1>5. IsFiniteSet(0 .. k - 1) /\ Cardinality(0 .. k - 1) = k
  BY <1>0, FS_Interval
<1>6. Cardinality(Usable) <= k
  BY <1>4, <1>5, FS_Injection
<1> QED
  BY <1>6 DEF k

(* With issues that do not overlap, at most TTL / Window codes (rounded up) *)
(* can be right at one time.                                                *)
THEOREM FewAtOnce == Spec => []FewUsableCodes
  BY Invariant, FewCodes, PTL
=============================================================================
