------------------------- MODULE ResourceServerProofs -------------------------
(***************************************************************************)
(* Theorems about ResourceServer, for any cooldown, ages, cache time and    *)
(* lag of its clock, and any number of verifications at once; and first     *)
(* about the issuer it extends, for any tokens, keys, handlers, lifetime    *)
(* and clock.                                                               *)
(***************************************************************************)
EXTENDS ResourceServer, TLAPS

USE DEF ring

(* A handler that is not idle holds a token that was issued. *)
Holds(r) ==
  IF chk[r].pc = "idle" THEN chk[r] = Idle
  ELSE chk[r].token \in Token /\ Issued(chk[r].token)

(* A token issued names a key that was published; its denylist entry was    *)
(* written for at least the rest of its life, and only for a revocation.    *)
Recorded(t) ==
  /\ Issued(t) => born[key[t]] # Never
  /\ Revoked(t) => Issued(t) /\ deniedTo[t] >= 2 * exp[t] /\ revokedAt[t] <= now
  /\ ~Revoked(t) => deniedTo[t] = 0

(* A key is served from its publication until it is dropped.                *)
Served(k) ==
  /\ k \in published => born[k] <= now
  /\ k \notin published \cup dropped => born[k] = Never

AInv ==
  /\ AccessTokensTypeOK
  /\ signer \in published
  /\ \A r \in Handler : Holds(r)
  /\ \A t \in Token : Recorded(t)
  /\ \A k \in Key : Served(k)

-----------------------------------------------------------------------------
(* Half seconds and seconds. *)
LEMMA Halves ==
  ASSUME NEW n \in Nat
  PROVE  Floor(n) \in Nat /\ 2 * Floor(n) <= n /\ n < 2 * Floor(n) + 2
  BY SMT DEF Floor

(* The entry written now for t lasts to the end of its life at least. *)
LEMMA EntryOutlives ==
  ASSUME AccessTokensTypeOK, NEW t \in Token
  PROVE  now + 2 * TimeToLive(t) \in Nat /\ now + 2 * TimeToLive(t) >= 2 * exp[t]
<1>1. now \in Nat /\ exp[t] \in Nat
  BY TokensLive DEF AccessTokensTypeOK
<1>2. Floor(now) \in Nat /\ 2 * Floor(now) <= now
  BY <1>1, Halves
<1> DEFINE f == Floor(now)
<1>3. f \in Nat /\ 2 * f <= now
  BY <1>2
<1>4. TimeToLive(t) = Atleast(exp[t] - f, 1)
  BY DEF TimeToLive
<1> HIDE DEF f
<1>5. exp[t] - f \in Int
  BY <1>1, <1>3
<1>6. TimeToLive(t) \in Int /\ TimeToLive(t) >= exp[t] - f /\ TimeToLive(t) >= 1
  BY <1>4, <1>5 DEF Atleast
<1> QED
  BY <1>1, <1>3, <1>6

(* A token that is not expired has life left in half seconds. *)
LEMMA LifeLeft ==
  ASSUME AccessTokensTypeOK, NEW t \in Token, ~Expired(t)
  PROVE  now < 2 * exp[t]
<1>1. now \in Nat /\ exp[t] \in Nat
  BY TokensLive DEF AccessTokensTypeOK
<1> DEFINE f == Floor(now)
<1>2. f \in Nat /\ now < 2 * f + 2
  BY <1>1, Halves
<1>3. f < exp[t]
  BY <1>1, <1>2 DEF Expired
<1> HIDE DEF f
<1> QED
  BY <1>1, <1>2, <1>3

LEMMA NeverTime == Never \in Nat /\ ~(Never \in 0 .. MaxTime)
  BY TokensLive DEF Never

LEMMA AInitInv == AInit => AInv
<1> SUFFICES ASSUME AInit PROVE AInv
  OBVIOUS
<1>1. AccessTokensTypeOK
  BY TokensLive, NeverTime DEF AInit, RingInit, AccessTokensTypeOK, Check, Idle, Never
<1>2. \A r \in Handler : Holds(r)
  BY DEF AInit, RingInit, Holds, Idle
<1>3. \A t \in Token : Recorded(t)
  BY DEF AInit, RingInit, Recorded, Issued, Revoked
<1>4. \A k \in Key : Served(k)
  <2>1. published = {signer} /\ now = 0
    BY DEF AInit, RingInit
  <2>2. \A k \in Key : /\ k \in published => born[k] = 0
                       /\ k \notin published => born[k] = Never
    BY <2>1 DEF AInit
  <2>3. \A k \in Key : k \notin published \cup dropped => k \notin published
    OBVIOUS
  <2>4. \A k \in Key : k \in published => born[k] <= now
    BY <2>1, <2>2
  <2> QED
    BY <2>2, <2>3, <2>4, Zenon DEF Served
<1> QED
  BY <1>1, <1>2, <1>3, <1>4 DEF AInv, AInit, RingInit

-----------------------------------------------------------------------------
(* One step per action. *)

LEMMA PublishKeeps ==
  ASSUME AInv, NEW k \in Key, Publish(k)
  PROVE  AInv'
<1>1. AccessTokensTypeOK'
  <2>1. now \in 0 .. Never
    BY TokensLive DEF AInv, AccessTokensTypeOK, Never
  <2>2. published' \subseteq Key /\ born' \in [Key -> 0 .. Never]
    BY <2>1 DEF Publish, Serve, AInv, AccessTokensTypeOK
  <2> QED
    BY <2>2 DEF Publish, Serve, AInv, AccessTokensTypeOK
<1>2. signer' \in published'
  BY DEF Publish, Serve, AInv
<1>3. \A r \in Handler : Holds(r)'
  BY DEF Publish, Serve, AInv, Holds, Issued
<1>4. now # Never /\ born' = [born EXCEPT ![k] = now] /\ born \in [Key -> 0 .. Never]
  BY NeverTime DEF Publish, Serve, AInv, AccessTokensTypeOK
<1>5. \A j \in Key : born[j] # Never => born'[j] # Never
  BY <1>4
<1>6. \A t \in Token : Recorded(t)'
  BY <1>5 DEF Publish, Serve, AInv, Recorded, Issued, Revoked, AccessTokensTypeOK
<1>7. \A j \in Key : Served(j)'
  BY <1>4, TokensLive DEF Publish, Serve, AInv, Served, AccessTokensTypeOK
<1> QED
  BY <1>1, <1>2, <1>3, <1>6, <1>7 DEF AInv

LEMMA PromoteKeeps ==
  ASSUME AInv, NEW k \in Key, Promote(k)
  PROVE  AInv'
  BY DEF Promote, Elect, AInv, AccessTokensTypeOK, Holds, Recorded, Issued, Revoked, Served

LEMMA PurgeKeysKeep ==
  ASSUME AInv, NEW S \in SUBSET Key, PurgeKeys(S)
  PROVE  AInv'
  BY DEF PurgeKeys, Drop, AInv, AccessTokensTypeOK, Holds, Recorded, Issued, Revoked, Served

LEMMA SignKeeps ==
  ASSUME AInv, NEW t \in Token, Sign(t)
  PROVE  AInv'
<1>0. now \in Nat
  BY TokensLive DEF AInv, AccessTokensTypeOK
<1>1. Floor(now) + TTL \in Nat
  <2>1. Floor(now) \in Nat
    BY <1>0, Halves
  <2> QED
    BY <2>1, TokensLive
<1>2. AccessTokensTypeOK'
  BY <1>1 DEF Sign, AInv, AccessTokensTypeOK
<1>3. \A u \in Token : Issued(u) => u # t /\ key'[u] = key[u] /\ exp'[u] = exp[u]
  BY DEF Sign, AInv, AccessTokensTypeOK, Issued
<1>4. \A r \in Handler : Holds(r)'
  BY <1>3 DEF Sign, AInv, Holds, Issued
<1>5. born[signer] # Never
  BY NeverTime, TokensLive DEF AInv, Served, AccessTokensTypeOK, Never
<1>6. key'[t] = signer
  BY DEF Sign, AInv, AccessTokensTypeOK
<1>7. ASSUME NEW u \in Token PROVE Recorded(u)'
  <2>1. Recorded(u) /\ UNCHANGED <<born, revokedAt, deniedTo, now>>
    BY DEF Sign, AInv
  <2>2. CASE u = t
    BY <1>3, <1>5, <1>6, <2>1, <2>2 DEF Sign, Recorded, Issued, Revoked
  <2>3. CASE u # t
    <3>1. key'[u] = key[u] /\ exp'[u] = exp[u]
      BY <2>3 DEF Sign, AInv, AccessTokensTypeOK
    <3> QED
      BY <2>1, <3>1 DEF Recorded, Issued, Revoked
  <2> QED
    BY <2>2, <2>3
<1>8. signer' \in published' /\ \A k \in Key : Served(k)'
  BY DEF Sign, AInv, Served
<1> QED
  BY <1>2, <1>4, <1>7, <1>8 DEF AInv

(* A handler that moves on leaves the records alone. *)
LEMMA HandlerMoves ==
  ASSUME AInv, NEW r \in Handler, NEW c \in Check,
         chk' = [chk EXCEPT ![r] = c],
         IF c.pc = "idle" THEN c = Idle ELSE c.token \in Token /\ Issued(c.token),
         UNCHANGED <<now, ring, born, key, exp, deniedTo, revokedAt>>
  PROVE  AInv'
<1>1. AccessTokensTypeOK'
  BY DEF AInv, AccessTokensTypeOK
<1>2. chk'[r] = c /\ \A q \in Handler \ {r} : chk'[q] = chk[q]
  BY DEF AInv, AccessTokensTypeOK
<1>3. \A q \in Handler : Holds(q)'
  BY <1>2 DEF AInv, Holds, Issued
<1>4. (\A t \in Token : Recorded(t)') /\ (\A k \in Key : Served(k)') /\ signer' \in published'
  BY DEF AInv, Recorded, Issued, Revoked, Served
<1> QED
  BY <1>1, <1>3, <1>4 DEF AInv

LEMMA CheckType ==
  ASSUME AInv, NEW r \in Handler
  PROVE  /\ chk[r] \in Check /\ chk[r].token \in Token \cup {None}
         /\ chk[r].pc # "idle" => chk[r].token \in Token /\ Issued(chk[r].token)
         /\ chk[r].pc = "idle" => chk[r] = Idle
         /\ Idle \in Check /\ Idle.pc = "idle" /\ Idle.token = None
  BY DEF AInv, AccessTokensTypeOK, Check, Idle, Holds

LEMMA VerifyJwtKeeps ==
  ASSUME AInv, NEW r \in Handler, NEW t \in Token, VerifyJwt(r, t)
  PROVE  AInv'
<1> DEFINE c == [Idle EXCEPT !.pc = IF JwtValid(t) THEN "denylist" ELSE "answer", !.token = t]
<1>1. c \in Check /\ c.pc # "idle" /\ c.token = t
  BY DEF Check, Idle
<1>2. chk' = [chk EXCEPT ![r] = c] /\ Issued(t)
      /\ UNCHANGED <<now, ring, born, key, exp, deniedTo, revokedAt>>
  BY Zenon DEF VerifyJwt
<1> HIDE DEF c
<1> QED
  BY <1>1, <1>2, HandlerMoves

LEMMA ReadFailsKeeps ==
  ASSUME AInv, NEW r \in Handler, NEW t \in Token, ReadFails(r, t)
  PROVE  AInv'
<1> DEFINE b == r \in Reader
           c == [Idle EXCEPT !.pc = "answer", !.token = t, !.erred = b]
<1>0. b \in BOOLEAN
  OBVIOUS
<1> HIDE DEF b
<1>1. c \in Check /\ c.pc # "idle" /\ c.token = t
  BY <1>0 DEF Check, Idle
<1>2. Issued(t)
  BY CheckType DEF ReadFails
<1>3. chk' = [chk EXCEPT ![r] = c] /\ UNCHANGED <<now, ring, born, key, exp, deniedTo, revokedAt>>
  BY Zenon DEF ReadFails, b
<1> HIDE DEF c
<1> QED
  BY <1>1, <1>2, <1>3, HandlerMoves

LEMMA ReadDenylistKeeps ==
  ASSUME AInv, NEW r \in Handler, ReadDenylist(r)
  PROVE  AInv'
<1> DEFINE c == [chk[r] EXCEPT !.pc = "answer", !.active = ~Denied(chk[r].token)]
<1>1. Denied(chk[r].token) \in BOOLEAN
  BY DEF Denied
<1>2. c \in Check /\ c.pc = "answer" /\ c.token = chk[r].token
  BY <1>1, CheckType DEF Check
<1>3. chk' = [chk EXCEPT ![r] = c]
  <2>1. chk \in [Handler -> Check]
    BY DEF AInv, AccessTokensTypeOK
  <2> QED
    BY <2>1 DEF ReadDenylist
<1>4. chk[r].token \in Token /\ Issued(chk[r].token)
  BY CheckType DEF ReadDenylist
<1>5. UNCHANGED <<now, ring, born, key, exp, deniedTo, revokedAt>>
  BY DEF ReadDenylist
<1> HIDE DEF c
<1> QED
  BY <1>2, <1>3, <1>4, <1>5, HandlerMoves

LEMMA LeaveKeeps ==
  ASSUME AInv, NEW r \in Handler, Leave(r)
  PROVE  AInv'
  BY CheckType, HandlerMoves DEF Leave

LEMMA WriteDenylistKeeps ==
  ASSUME AInv, NEW r \in Revoker, WriteDenylist(r)
  PROVE  AInv'
<1> DEFINE t == chk[r].token
           ends == now + 2 * TimeToLive(t)
<1>1. r \in Handler /\ t \in Token /\ Issued(t)
  BY CheckType DEF Handler, WriteDenylist
<1>2. ends \in Nat /\ ends >= 2 * exp[t]
  BY <1>1, EntryOutlives DEF AInv
<1>3. /\ deniedTo' = [deniedTo EXCEPT ![t] = ends]
      /\ revokedAt' = [revokedAt EXCEPT ![t] = IF Revoked(t) THEN @ ELSE now]
      /\ chk' = [chk EXCEPT ![r] = Idle]
      /\ UNCHANGED <<now, ring, born, key, exp>>
  BY DEF WriteDenylist
<1> HIDE DEF ends, t
<1>4. now \in 0 .. Never /\ now # Never /\ now \in Nat
  BY NeverTime, TokensLive DEF AInv, AccessTokensTypeOK, Never
<1>5. AccessTokensTypeOK'
  BY <1>1, <1>2, <1>3, <1>4, CheckType DEF AInv, AccessTokensTypeOK
<1>6. \A q \in Handler : Holds(q)'
  BY <1>1, <1>3, CheckType DEF AInv, AccessTokensTypeOK, Holds, Issued
<1>7. ASSUME NEW u \in Token PROVE Recorded(u)'
  <2>1. Recorded(u)
    BY DEF AInv
  <2>2. CASE u = t
    <3>1. deniedTo'[u] = ends /\ revokedAt'[u] = IF Revoked(t) THEN revokedAt[t] ELSE now
      BY <1>1, <1>3, <2>2 DEF AInv, AccessTokensTypeOK
    <3> QED
      BY <1>1, <1>2, <1>3, <1>4, <2>1, <2>2, <3>1 DEF Recorded, Issued, Revoked
  <2>3. CASE u # t
    <3>1. deniedTo'[u] = deniedTo[u] /\ revokedAt'[u] = revokedAt[u]
      BY <1>3, <2>3 DEF AInv, AccessTokensTypeOK
    <3> QED
      BY <1>3, <2>1, <3>1 DEF Recorded, Issued, Revoked
  <2> QED
    BY <2>2, <2>3
<1>8. signer' \in published' /\ \A k \in Key : Served(k)'
  BY <1>3 DEF AInv, Served
<1> QED
  BY <1>5, <1>6, <1>7, <1>8 DEF AInv

LEMMA TickKeeps ==
  ASSUME AInv, Tick
  PROVE  AInv'
<1>1. now' = now + 1 /\ now' \in 0 .. MaxTime /\ now \in Nat
  BY TokensLive DEF Tick, AInv, AccessTokensTypeOK
<1>2. AccessTokensTypeOK'
  BY <1>1 DEF Tick, AInv, AccessTokensTypeOK
<1>3. \A r \in Handler : Holds(r)'
  BY DEF Tick, AInv, Holds, Issued
<1>4. ASSUME NEW t \in Token PROVE Recorded(t)'
  <2>1. Recorded(t) /\ revokedAt[t] \in Nat
    BY NeverTime DEF AInv, AccessTokensTypeOK
  <2> QED
    BY <1>1, <2>1 DEF Tick, Recorded, Issued, Revoked
<1>5. ASSUME NEW k \in Key PROVE Served(k)'
  <2>1. Served(k) /\ born[k] \in Nat
    BY NeverTime DEF AInv, AccessTokensTypeOK
  <2> QED
    BY <1>1, <2>1 DEF Tick, Served
<1>6. signer' \in published'
  BY DEF Tick, AInv
<1> QED
  BY <1>2, <1>3, <1>4, <1>5, <1>6 DEF AInv

LEMMA ANextInv == AInv /\ [ANext]_avars => AInv'
<1> SUFFICES ASSUME AInv, [ANext]_avars PROVE AInv'
  OBVIOUS
<1>1. CASE UNCHANGED avars
  BY <1>1 DEF avars, AInv, AccessTokensTypeOK, Holds, Recorded, Issued, Revoked, Served
<1>2. ASSUME NEW r \in Handler, VerifyStep(r) PROVE AInv'
  BY <1>2, VerifyJwtKeeps, ReadFailsKeeps, ReadDenylistKeeps, LeaveKeeps DEF VerifyStep
<1>3. CASE IssuerStep
  BY <1>2, <1>3, PublishKeeps, PromoteKeeps, PurgeKeysKeep, SignKeeps, WriteDenylistKeeps, TickKeeps
  DEF IssuerStep, Handler
<1> QED
  BY <1>1, <1>2, <1>3 DEF ANext, Handler

(* The inductive invariant of the issuer. *)
THEOREM IssuerInvariant == ASpec => []AInv
  BY AInitInv, ANextInv, PTL DEF ASpec

-----------------------------------------------------------------------------
(* The state of the issuer is well typed. *)
THEOREM TypeCorrect == ASpec => []AccessTokensTypeOK
<1>1. AInv => AccessTokensTypeOK
  BY DEF AInv
<1> QED
  BY IssuerInvariant, <1>1, PTL

LEMMA Outlives == AInv => DenylistOutlivesToken
<1> SUFFICES ASSUME AInv, NEW t \in Token, Revoked(t), ~Expired(t) PROVE Denied(t)
  BY DEF DenylistOutlivesToken
<1>1. now < 2 * exp[t] /\ deniedTo[t] >= 2 * exp[t]
  BY LifeLeft DEF AInv, Recorded
<1>2. now \in Nat /\ deniedTo[t] \in Nat /\ exp[t] \in Nat
  BY TokensLive DEF AInv, AccessTokensTypeOK
<1> QED
  BY <1>1, <1>2 DEF Denied

(* A revoked token is on the denylist until it expires. *)
THEOREM DenylistLasts == ASpec => []DenylistOutlivesToken
  BY IssuerInvariant, Outlives, PTL

-----------------------------------------------------------------------------
OwnTypeOK ==
  /\ keyset \in [keys : SUBSET Key, at : 0 .. Never]
  /\ cache \in [Token -> [active : BOOLEAN, at : 0 .. Never]]
  /\ ask \in [Reader -> [pc : {"idle", "verified", "asked"}, token : Token \cup {None}]]
  /\ failed \subseteq Token
  /\ overtaken \subseteq Token

(* A published key the set does not know was published after its fetch. *)
Newer ==
  keyset.at # Never =>
    /\ keyset.at <= now
    /\ \A k \in published : k \notin keyset.keys => keyset.at <= born[k]

(* What is asked about is an issued token, and a handler of the issuer has  *)
(* the token of the verification that asked.                                *)
Asking ==
  \A q \in Reader :
    /\ ask[q].pc # "idle" => ask[q].token \in Token /\ Issued(ask[q].token)
    /\ chk[q].pc # "idle" => ask[q].pc = "asked" /\ chk[q].token = ask[q].token

Dated(t) == cache[t].at # Never => Issued(t) /\ cache[t].at <= now

(* No answer says active of a token revoked before, unless one was          *)
(* overtaken.                                                               *)
Heeded(t) ==
  Revoked(t) /\ ~Expired(t) /\ t \notin overtaken =>
    /\ cache[t].active /\ cache[t].at # Never => cache[t].at <= revokedAt[t]
    /\ \A q \in Reader : chk[q].token = t => ~chk[q].active

(* No answer says inactive of a live token nobody revoked, but one that     *)
(* stands for an error.                                                     *)
Sound(t) == Issued(t) /\ Live(t) /\ ~Revoked(t)
Trusted(t) ==
  Sound(t) =>
    /\ cache[t].at # Never /\ ~cache[t].active => t \in failed
    /\ \A q \in Reader :
         chk[q].token = t /\ chk[q].pc = "answer" => chk[q].active \/ chk[q].erred

SInv ==
  /\ AInv /\ OwnTypeOK /\ Newer /\ Asking
  /\ \A t \in Token : Dated(t) /\ Heeded(t) /\ Trusted(t)

-----------------------------------------------------------------------------
LEMMA Times ==
  ASSUME AInv
  PROVE  now \in Nat /\ now # Never /\ now \in 0 .. Never /\ Never \in Nat
  BY TokensLive DEF AInv, AccessTokensTypeOK, Never

LEMMA InitInv == Init => SInv
<1> SUFFICES ASSUME Init PROVE SInv
  OBVIOUS
<1>1. AInv
  BY AInitInv DEF Init
<1>2. OwnTypeOK
  BY NeverTime DEF Init, OwnTypeOK, NoKeys, NoAnswer, NotAsking
<1>3. Newer
  BY DEF Init, Newer, NoKeys
<1>4. \A q \in Reader : ask[q].pc = "idle" /\ chk[q] = Idle
  <2>1. \A q \in Reader : chk[q] = Idle
    BY DEF Init, AInit, Handler
  <2> QED
    BY <2>1 DEF Init, NotAsking
<1>5. Asking
  BY <1>4 DEF Asking, Idle
<1>6. \A t \in Token : cache[t] = NoAnswer /\ key[t] = None
  BY DEF Init, AInit
<1>7. ASSUME NEW t \in Token PROVE Dated(t) /\ Heeded(t) /\ Trusted(t)
  <2>1. cache[t].at = Never /\ key[t] = None
    BY <1>6 DEF NoAnswer
  <2>2. \A q \in Reader : ~chk[q].active
    BY <1>4 DEF Idle
  <2> QED
    BY <2>1, <2>2 DEF Dated, Heeded, Trusted, Sound, Issued
<1> QED
  BY <1>1, <1>2, <1>3, <1>5, <1>7 DEF SInv

-----------------------------------------------------------------------------
(* The resource server asks of the issuer nothing it does not offer. *)
LEMMA IssuerStepKept == SInv /\ [Next]_vars => [ANext]_avars
<1> SUFFICES ASSUME SInv, [Next]_vars PROVE [ANext]_avars
  OBVIOUS
<1>1. CASE UNCHANGED vars
  BY <1>1 DEF vars
<1>2. CASE Issuer
  BY <1>2 DEF Issuer, ANext
<1>3. ASSUME NEW k \in Key, FetchKeys(k) PROVE UNCHANGED avars
  BY <1>3 DEF FetchKeys
<1>4. ASSUME NEW q \in Reader, NEW t \in Token, UseKeys(q, t) PROVE UNCHANGED avars
  BY <1>4 DEF UseKeys
<1>5. ASSUME NEW q \in Reader, UseAnswer(q) \/ Call(q) PROVE UNCHANGED avars
  BY <1>5 DEF UseAnswer, Call
<1>6. ASSUME NEW q \in Reader, Introspect(q) PROVE ANext
  <2>1. ask[q].token \in Token
    BY <1>6 DEF Introspect, SInv, Asking
  <2> QED
    BY <1>6, <2>1 DEF Introspect, ANext, VerifyStep
<1>7. ASSUME NEW q \in Reader, Arrive(q) \/ ErrorArrives(q) \/ CallFails(q)
      PROVE Leave(q) \/ UNCHANGED avars
  <2>1. chk' = [chk EXCEPT ![q] = Idle]
        /\ UNCHANGED <<now, ring, born, key, exp, deniedTo, revokedAt>>
    BY <1>7 DEF Arrive, ErrorArrives, CallFails
  <2>2. CASE chk[q].pc # "idle"
    BY <2>1, <2>2 DEF Leave
  <2>3. CASE chk[q].pc = "idle"
    <3>1. chk[q] = Idle /\ chk \in [Handler -> Check]
      BY <2>3, CheckType DEF Handler, SInv, AInv, AccessTokensTypeOK
    <3>2. chk' = chk
      BY <2>1, <3>1
    <3> QED
      BY <2>1, <3>2 DEF avars
  <2> QED
    BY <2>2, <2>3
<1>8. ASSUME NEW q \in Reader, Arrive(q) \/ ErrorArrives(q) \/ CallFails(q)
      PROVE [ANext]_avars
  BY <1>7, <1>8 DEF ANext, VerifyStep
<1> QED
  BY <1>1, <1>2, <1>3, <1>4, <1>5, <1>6, <1>8 DEF Next

-----------------------------------------------------------------------------
(* The steps of the issuer. *)

(* An expired token stays expired. *)
LEMMA ExpiryIsFinal ==
  ASSUME AInv, now' = now + 1 \/ now' = now, NEW t \in Token, exp'[t] = exp[t], ~Expired(t)'
  PROVE  ~Expired(t)
<1>1. now \in Nat /\ now' \in Nat /\ exp[t] \in Nat
  BY Times DEF AInv, AccessTokensTypeOK
<1> DEFINE f == Floor(now)
           g == Floor(now')
<1>2. f \in Nat /\ 2 * f <= now /\ g \in Nat /\ now' < 2 * g + 2
  BY <1>1, Halves
<1>3. exp[t] > g
  BY <1>1, <1>2 DEF Expired
<1> HIDE DEF f, g
<1>4. exp[t] > f
  BY <1>1, <1>2, <1>3
<1> QED
  BY <1>1, <1>2, <1>4 DEF Expired, f

(* What a step of the issuer does to the clock, the keys and the tokens. *)
Moved ==
  /\ now' = now + 1 \/ now' = now
  /\ \A k \in published' : k \in published \/ (born[k] = Never /\ born'[k] = now)
  /\ \A k \in published : born'[k] = born[k]

LEMMA IssuerMoves == AInv /\ IssuerStep => Moved
<1> SUFFICES ASSUME AInv, IssuerStep PROVE Moved
  OBVIOUS
<1>1. ASSUME UNCHANGED <<now, published, born>> PROVE Moved
  BY <1>1 DEF Moved
<1>2. ASSUME NEW k \in Key, Publish(k) PROVE Moved
  <2>1. k \notin published /\ born[k] = Never
    BY <1>2 DEF Publish, Serve, AInv, Served
  <2>2. born' = [born EXCEPT ![k] = now] /\ born \in [Key -> 0 .. Never] /\ published \subseteq Key
    BY <1>2 DEF Publish, Serve, AInv, AccessTokensTypeOK
  <2> QED
    BY <1>2, <2>1, <2>2 DEF Publish, Serve, Moved
<1>3. ASSUME NEW k \in Key, Promote(k) PROVE Moved
  BY <1>1, <1>3 DEF Promote, Elect
<1>4. ASSUME NEW S \in SUBSET Key, PurgeKeys(S) PROVE Moved
  BY <1>4 DEF PurgeKeys, Drop, Moved
<1>5. ASSUME NEW t \in Token, Sign(t) PROVE Moved
  BY <1>1, <1>5 DEF Sign
<1>6. ASSUME NEW r \in Revoker, WriteDenylist(r) PROVE Moved
  BY <1>1, <1>6 DEF WriteDenylist
<1>7. ASSUME NEW r \in Revoker, VerifyStep(r) PROVE Moved
  BY <1>1, <1>7 DEF VerifyStep, VerifyJwt, ReadFails, ReadDenylist, Leave
<1>8. CASE Tick
  BY <1>8 DEF Tick, Moved
<1> QED
  BY <1>2, <1>3, <1>4, <1>5, <1>6, <1>7, <1>8 DEF IssuerStep

(* What the server has is as good as before where the issuer's records of   *)
(* its tokens are.                                                          *)
LEMMA IssuerKeeps ==
  ASSUME SInv, Issuer
  PROVE  OwnTypeOK' /\ Newer' /\ Asking' /\ \A t \in Token : Dated(t)' /\ Heeded(t)' /\ Trusted(t)'
<1>0. /\ UNCHANGED <<keyset, cache, ask, failed>> /\ overtaken \subseteq overtaken'
      /\ overtaken' \subseteq Token
  BY DEF Issuer, SInv, OwnTypeOK
<1>1. OwnTypeOK'
  BY <1>0 DEF SInv, OwnTypeOK
<1>2. Moved /\ now' \in Nat /\ (now' = now + 1 \/ now' = now)
  <2>1. Moved
    BY IssuerMoves DEF SInv, Issuer
  <2> QED
    BY <2>1, Times DEF SInv, Moved
<1>3. \A q \in Reader : chk'[q] = chk[q]
  BY HandlersDiffer DEF SInv, AInv, AccessTokensTypeOK, Handler, Issuer, IssuerStep,
     Publish, Serve, Promote, Elect, PurgeKeys, Drop, Sign, VerifyStep, VerifyJwt, ReadFails, ReadDenylist, Leave, WriteDenylist, Tick
<1>4. \A t \in Token : Issued(t) => key'[t] = key[t] /\ exp'[t] = exp[t] /\ Issued(t)'
  BY DEF SInv, AInv, AccessTokensTypeOK, Issued, Issuer, IssuerStep, Publish,
     Serve, Promote, Elect, PurgeKeys, Drop, Sign, VerifyStep, VerifyJwt, ReadFails, ReadDenylist, Leave, WriteDenylist, Tick
<1>5. \A k \in published' : k \in published \/ (born[k] = Never /\ born'[k] = now)
  BY <1>2 DEF Moved
<1>6. \A k \in published : born'[k] = born[k]
  BY <1>2 DEF Moved
<1>7. \A t \in Token : revokedAt'[t] = revokedAt[t] \/ (revokedAt[t] = Never /\ revokedAt'[t] = now)
  BY DEF SInv, AInv, AccessTokensTypeOK, Revoked, Issuer, IssuerStep, Publish,
     Serve, Promote, Elect, PurgeKeys, Drop, Sign, VerifyStep, VerifyJwt, ReadFails, ReadDenylist, Leave, WriteDenylist, Tick
<1>8. \A q \in Reader : chk[q].token \in Token => Issued(chk[q].token)
  <2> TAKE q \in Reader
  <2> QED
    BY CheckType, NoneIsNew DEF SInv, Handler
<1>9. published' \subseteq Key /\ published \subseteq Key
  BY IssuerStepKept, ANextInv DEF SInv, AInv, AccessTokensTypeOK, Next
<1>10. Newer'
  <2>1. SUFFICES ASSUME keyset.at # Never
                 PROVE  keyset.at <= now' /\ \A k \in published' : k \notin keyset.keys => keyset.at <= born'[k]
    BY <1>0 DEF Newer, Never
  <2>2. keyset.at \in Nat /\ keyset.at <= now /\ now \in Nat
    BY <2>1, Times DEF SInv, Newer, OwnTypeOK
  <2> QED
    BY <1>2, <1>5, <1>6, <1>9, <2>1, <2>2 DEF SInv, Newer
<1>11. Asking'
  BY <1>0, <1>3, <1>4 DEF SInv, Asking
<1>12. ASSUME NEW t \in Token PROVE Dated(t)'
  <2>1. Dated(t) /\ cache[t].at \in Nat /\ now \in Nat
    BY Times DEF SInv, OwnTypeOK
  <2> QED
    BY <1>0, <1>2, <1>4, <2>1 DEF Dated, Never
<1>13. ASSUME NEW t \in Token PROVE Heeded(t)'
  <2>1. SUFFICES ASSUME Revoked(t)', ~Expired(t)', t \notin overtaken'
        PROVE  /\ cache[t].active /\ cache[t].at # Never => cache[t].at <= revokedAt'[t]
               /\ \A q \in Reader : chk[q].token = t => ~chk[q].active
    BY <1>0, <1>3 DEF Heeded, Never
  <2>2. CASE Revoked(t)
    <3>1. Issued(t) /\ revokedAt'[t] = revokedAt[t]
      BY <1>7, <2>2 DEF SInv, AInv, Recorded, Revoked
    <3>2. ~Expired(t)
      BY <1>2, <1>4, <2>1, <3>1, ExpiryIsFinal DEF SInv
    <3> QED
      BY <1>0, <2>1, <2>2, <3>1, <3>2 DEF SInv, Heeded
  <2>3. CASE ~Revoked(t)
    <3>1. revokedAt'[t] # revokedAt[t] /\ revokedAt'[t] = now
      BY <1>7, <2>1, <2>3 DEF Revoked, Never
    <3>2. \A q \in Reader : chk[q].token = t => ~chk[q].active
      BY <2>1, <3>1 DEF Issuer
    <3> QED
      BY <3>1, <3>2 DEF SInv, Dated
  <2> QED
    BY <2>2, <2>3
<1>14. ASSUME NEW t \in Token PROVE Trusted(t)'
  <2>1. SUFFICES ASSUME Sound(t)'
        PROVE  /\ cache[t].at # Never /\ ~cache[t].active => t \in failed
               /\ \A q \in Reader :
                    chk[q].token = t /\ chk[q].pc = "answer" => chk[q].active \/ chk[q].erred
    BY <1>0, <1>3 DEF Trusted, Never
  <2>2. CASE Issued(t)
    <3>1. ~Expired(t) /\ key'[t] = key[t]
      BY <1>2, <1>4, <2>1, <2>2, ExpiryIsFinal DEF SInv, Sound, Live
    <3>2. ~Revoked(t)
      BY <1>7, <2>1, Times DEF SInv, Sound, Revoked, Never
    <3>3. key[t] \in published
      <4>1. key'[t] \in published' /\ born[key[t]] # Never
        BY <2>1, <2>2 DEF Sound, Live, SInv, AInv, Recorded
      <4> QED
        BY <1>5, <1>9, <3>1, <4>1
    <3> QED
      BY <2>2, <3>1, <3>2, <3>3 DEF SInv, Trusted, Sound, Live
  <2>3. CASE ~Issued(t)
    BY <1>8, <2>3 DEF SInv, Dated
  <2> QED
    BY <2>2, <2>3
<1> QED
  BY <1>1, <1>10, <1>11, <1>12, <1>13, <1>14

-----------------------------------------------------------------------------
(* The steps of the server. *)

LEMMA IssuerSound == SInv /\ [Next]_vars => AInv'
  BY IssuerStepKept, ANextInv DEF SInv

(* What a verification knows of its token and of the handler that asks. *)
LEMMA OneAsks ==
  ASSUME SInv, NEW q \in Reader
  PROVE  /\ ask \in [Reader -> [pc : {"idle", "verified", "asked"}, token : Token \cup {None}]]
         /\ chk \in [Handler -> Check] /\ q \in Handler
         /\ ask[q].pc # "idle" => ask[q].token \in Token /\ Issued(ask[q].token)
         /\ ask[q].pc # "asked" => chk[q] = Idle
         /\ chk[q].pc # "idle" => chk[q].token = ask[q].token
         /\ Idle.pc = "idle" /\ ~Idle.active /\ Idle.token = None
  BY CheckType DEF SInv, OwnTypeOK, Asking, AInv, AccessTokensTypeOK, Handler, Idle

LEMMA FetchKeysKeeps ==
  ASSUME SInv, NEW k \in Key, FetchKeys(k)
  PROVE  OwnTypeOK' /\ Newer' /\ Asking' /\ \A t \in Token : Dated(t)' /\ Heeded(t)' /\ Trusted(t)'
<1>0. UNCHANGED <<avars, cache, ask, failed, overtaken>> /\ keyset' = [keys |-> published, at |-> now]
  BY DEF FetchKeys
<1>1. OwnTypeOK'
  BY <1>0, Times DEF SInv, OwnTypeOK, AInv, AccessTokensTypeOK
<1>2. Newer'
  BY <1>0, Times DEF SInv, Newer, avars
<1>3. Asking'
  BY <1>0 DEF SInv, Asking, Issued, avars
<1>4. \A t \in Token : Dated(t)' /\ Heeded(t)' /\ Trusted(t)'
  BY <1>0 DEF SInv, Dated, Heeded, Trusted, Sound, Live, Issued, Revoked, Expired, avars, Never
<1> QED
  BY <1>1, <1>2, <1>3, <1>4

(* A verification that moves on before it asks, or that uses what is cached. *)
LEMMA AskMoves ==
  ASSUME SInv, NEW q \in Reader,
         NEW a \in [pc : {"idle", "verified", "asked"}, token : Token \cup {None}],
         a.pc # "idle" => a.token \in Token /\ Issued(a.token),
         ask[q].pc # "asked",
         ask' = [ask EXCEPT ![q] = a],
         UNCHANGED <<avars, keyset, cache, failed, overtaken>>
  PROVE  OwnTypeOK' /\ Newer' /\ Asking' /\ \A t \in Token : Dated(t)' /\ Heeded(t)' /\ Trusted(t)'
<1>1. OwnTypeOK'
  BY DEF SInv, OwnTypeOK
<1>2. Newer'
  BY DEF SInv, Newer, avars, Never
<1>3. Asking'
  <2> SUFFICES ASSUME NEW p \in Reader
               PROVE  /\ ask'[p].pc # "idle" => ask'[p].token \in Token /\ key'[ask'[p].token] # None
                      /\ chk'[p].pc # "idle" => ask'[p].pc = "asked" /\ chk'[p].token = ask'[p].token
    BY DEF Asking, Issued
  <2>1. chk' = chk /\ key' = key
    BY DEF avars
  <2>2. CASE p = q
    <3>1. ask'[p] = a /\ chk'[p].pc = "idle"
      BY <2>1, <2>2, OneAsks
    <3> QED
      BY <2>1, <3>1 DEF Issued
  <2>3. CASE p # q
    <3>1. ask'[p] = ask[p]
      BY <2>3, OneAsks
    <3> QED
      BY <2>1, <3>1 DEF SInv, Asking, Issued
  <2> QED
    BY <2>2, <2>3
<1>4. \A t \in Token : Dated(t)' /\ Heeded(t)' /\ Trusted(t)'
  BY DEF SInv, Dated, Heeded, Trusted, Sound, Live, Issued, Revoked, Expired, avars, Never
<1> QED
  BY <1>1, <1>2, <1>3, <1>4

LEMMA UseKeysKeeps ==
  ASSUME SInv, NEW q \in Reader, NEW t \in Token, UseKeys(q, t)
  PROVE  OwnTypeOK' /\ Newer' /\ Asking' /\ \A u \in Token : Dated(u)' /\ Heeded(u)' /\ Trusted(u)'
  BY AskMoves DEF UseKeys, Hold

LEMMA UseAnswerKeeps ==
  ASSUME SInv, NEW q \in Reader, UseAnswer(q)
  PROVE  OwnTypeOK' /\ Newer' /\ Asking' /\ \A t \in Token : Dated(t)' /\ Heeded(t)' /\ Trusted(t)'
  BY AskMoves DEF UseAnswer, Finish, NotAsking

LEMMA CallKeeps ==
  ASSUME SInv, NEW q \in Reader, Call(q)
  PROVE  OwnTypeOK' /\ Newer' /\ Asking' /\ \A t \in Token : Dated(t)' /\ Heeded(t)' /\ Trusted(t)'
  BY AskMoves, OneAsks DEF Call, Hold

(* The issuer answers a verification: what it says is as good as what the   *)
(* server may hold.                                                         *)
LEMMA IntrospectKeeps ==
  ASSUME SInv, NEW q \in Reader, Introspect(q)
  PROVE  OwnTypeOK' /\ Newer' /\ Asking' /\ \A t \in Token : Dated(t)' /\ Heeded(t)' /\ Trusted(t)'
<1> DEFINE u == ask[q].token
<1>1. u \in Token /\ Issued(u) /\ ask[q].pc = "asked" /\ UNCHANGED rvars
  BY OneAsks DEF Introspect
<1>2. UNCHANGED <<now, ring, born, key, exp, deniedTo, revokedAt>>
  BY DEF Introspect, VerifyJwt, ReadFails, ReadDenylist
<1>3. \A p \in Reader : p # q => chk'[p] = chk[p]
  BY OneAsks DEF Introspect, VerifyJwt, ReadFails, ReadDenylist, Idle
<1>4. chk'[q].token = u
  <2>1. CASE VerifyJwt(q, u)
    BY <2>1, OneAsks DEF VerifyJwt, Idle
  <2>2. CASE ReadDenylist(q)
    BY <2>2, OneAsks DEF ReadDenylist
  <2>3. CASE ReadFails(q, u)
    BY <2>3, OneAsks DEF ReadFails, Idle
  <2> QED
    BY <2>1, <2>2, <2>3 DEF Introspect
<1>5. Revoked(u) /\ ~Expired(u) => ~chk'[q].active
  <2>1. CASE VerifyJwt(q, u)
    BY <2>1, OneAsks DEF VerifyJwt, Idle
  <2>2. CASE ReadDenylist(q)
    <3>1. Revoked(u) /\ ~Expired(u) => Denied(u)
      BY <1>1, Outlives DEF SInv, DenylistOutlivesToken
    <3>2. chk'[q].active = ~Denied(u)
      BY <2>2, OneAsks DEF ReadDenylist, Check
    <3> QED
      BY <3>1, <3>2
  <2>3. CASE ReadFails(q, u)
    BY <2>3, OneAsks DEF ReadFails, Idle
  <2> QED
    BY <2>1, <2>2, <2>3 DEF Introspect
<1>6. Sound(u) /\ chk'[q].pc = "answer" => chk'[q].active \/ chk'[q].erred
  <2>1. CASE VerifyJwt(q, u)
    <3>1. Sound(u) => JwtValid(u)
      BY DEF Sound, Live, JwtValid
    <3>2. JwtValid(u) => chk'[q].pc = "denylist"
      BY <2>1, OneAsks DEF VerifyJwt, Idle
    <3> QED
      BY <3>1, <3>2
  <2>2. CASE ReadDenylist(q)
    <3>1. Sound(u) => ~Denied(u)
      BY <1>1, Times DEF Sound, SInv, AInv, Recorded, Denied
    <3>2. chk'[q].active = ~Denied(u)
      BY <2>2, OneAsks DEF ReadDenylist, Check
    <3> QED
      BY <3>1, <3>2
  <2>3. CASE ReadFails(q, u)
    BY <2>3, OneAsks DEF ReadFails, Idle
  <2> QED
    BY <2>1, <2>2, <2>3 DEF Introspect
<1> HIDE DEF u
<1>7. OwnTypeOK' /\ Newer'
  BY <1>1, <1>2 DEF SInv, OwnTypeOK, Newer, rvars, Never
<1>8. Asking'
  <2>1. ask' = ask /\ key' = key
    BY <1>1, <1>2 DEF rvars
  <2>2. \A p \in Reader : chk'[p].pc # "idle" => ask[p].pc = "asked" /\ chk'[p].token = ask[p].token
    BY <1>1, <1>3, <1>4 DEF SInv, Asking, u
  <2> QED
    BY <2>1, <2>2 DEF SInv, Asking, Issued
<1>9. ASSUME NEW t \in Token PROVE Dated(t)'
  BY <1>1, <1>2 DEF SInv, Dated, rvars, Issued, Never
<1>10. ASSUME NEW t \in Token PROVE Heeded(t)'
  <2>1. Heeded(t) /\ (Heeded(t)' <=>
          (Revoked(t) /\ ~Expired(t) /\ t \notin overtaken =>
             /\ cache[t].active /\ cache[t].at # Never => cache[t].at <= revokedAt[t]
             /\ \A p \in Reader : chk'[p].token = t => ~chk'[p].active))
    BY <1>1, <1>2 DEF SInv, Heeded, Revoked, Expired, rvars, Never
  <2> QED
    BY <1>3, <1>4, <1>5, <2>1 DEF Heeded
<1>11. ASSUME NEW t \in Token PROVE Trusted(t)'
  <2>1. Trusted(t) /\ (Trusted(t)' <=>
          (Sound(t) =>
             /\ cache[t].at # Never /\ ~cache[t].active => t \in failed
             /\ \A p \in Reader : chk'[p].token = t /\ chk'[p].pc = "answer" =>
                  chk'[p].active \/ chk'[p].erred))
    BY <1>1, <1>2 DEF SInv, Trusted, Sound, Live, Issued, Revoked, Expired, rvars, Never
  <2> QED
    BY <1>3, <1>4, <1>6, <2>1 DEF Trusted
<1> QED
  BY <1>7, <1>8, <1>9, <1>10, <1>11

(* The call of a verification ends: its handler at the issuer is gone, and  *)
(* the cache holds answers as good as before for the token it asked about.  *)
LEMMA CallEnds ==
  ASSUME SInv, NEW q \in Reader, NEW u \in Token, u = ask[q].token, ask[q].pc = "asked",
         chk' = [chk EXCEPT ![q] = Idle], Finish(q),
         UNCHANGED <<now, ring, born, key, exp, deniedTo, revokedAt, keyset, overtaken>>,
         NEW b \in BOOLEAN,
         failed' \subseteq Token,
         \A t \in Token \ {u} : t \in failed => t \in failed',
         \/ UNCHANGED <<cache, failed>>
         \/ /\ Store(u, b)
            /\ b /\ Revoked(u) /\ ~Expired(u) => u \in overtaken
            /\ ~b /\ Sound(u) => u \in failed'
  PROVE  OwnTypeOK' /\ Newer' /\ Asking' /\ \A t \in Token : Dated(t)' /\ Heeded(t)' /\ Trusted(t)'
<1>1. /\ ask' = [ask EXCEPT ![q] = NotAsking] /\ NotAsking.pc = "idle"
      /\ NotAsking \in [pc : {"idle", "verified", "asked"}, token : Token \cup {None}]
      /\ ask \in [Reader -> [pc : {"idle", "verified", "asked"}, token : Token \cup {None}]]
  BY OneAsks DEF Finish, NotAsking
<1>2. chk'[q] = Idle /\ \A p \in Reader : p # q => chk'[p] = chk[p]
  BY OneAsks
<1>3. /\ cache \in [Token -> [active : BOOLEAN, at : 0 .. Never]]
      /\ now \in 0 .. Never /\ now \in Nat /\ Never \in Nat /\ now # Never
  BY Times DEF SInv, OwnTypeOK
<1>4. [active |-> b, at |-> now] \in [active : BOOLEAN, at : 0 .. Never]
  BY <1>3
<1>5. OwnTypeOK'
  BY <1>1, <1>3, <1>4 DEF SInv, OwnTypeOK, Store, Never
<1>6. Newer'
  BY DEF SInv, Newer, Never
<1>7. Asking'
  <2>1. ASSUME NEW p \in Reader
        PROVE  /\ ask'[p].pc # "idle" => ask'[p].token \in Token /\ key'[ask'[p].token] # None
               /\ chk'[p].pc # "idle" => ask'[p].pc = "asked" /\ chk'[p].token = ask'[p].token
    <3>1. CASE p = q
      BY <1>1, <1>2, <3>1, OneAsks
    <3>2. CASE p # q
      <4>1. ask'[p] = ask[p] /\ chk'[p] = chk[p]
        BY <1>1, <1>2, <3>2
      <4> QED
        BY <4>1 DEF SInv, Asking, Issued
    <3> QED
      BY <3>1, <3>2
  <2> QED
    BY <2>1 DEF Asking, Issued
<1>8. ASSUME NEW t \in Token PROVE cache'[t] = cache[t] \/ (t = u /\ ~UNCHANGED <<cache, failed>> /\ cache'[t] = [active |-> b, at |-> now])
  <2>1. CASE Store(u, b)
    BY <1>3, <2>1 DEF Store
  <2> QED
    BY <2>1
<1>9. Issued(u)
  BY OneAsks
<1>10. ASSUME NEW t \in Token PROVE Dated(t)'
  BY <1>3, <1>8, <1>9 DEF SInv, Dated, Issued, Never
<1>11. ASSUME NEW t \in Token PROVE Heeded(t)'
  <2>1. SUFFICES ASSUME Revoked(t), ~Expired(t), t \notin overtaken
        PROVE  /\ cache'[t].active /\ cache'[t].at # Never => cache'[t].at <= revokedAt[t]
               /\ \A p \in Reader : chk'[p].token = t => ~chk'[p].active
    BY DEF Heeded, Revoked, Expired, Never
  <2>2. /\ cache[t].active /\ cache[t].at # Never => cache[t].at <= revokedAt[t]
        /\ \A p \in Reader : chk[p].token = t => ~chk[p].active
    BY <2>1 DEF SInv, Heeded
  <2>3. \A p \in Reader : chk'[p].token = t => ~chk'[p].active
    BY <1>2, <2>2 DEF Idle
  <2>4. cache'[t].active => cache'[t] = cache[t]
    BY <1>8, <2>1
  <2> QED
    BY <2>2, <2>3, <2>4
<1>12. ASSUME NEW t \in Token PROVE Trusted(t)'
  <2>1. SUFFICES ASSUME Sound(t)
        PROVE  /\ cache'[t].at # Never /\ ~cache'[t].active => t \in failed'
               /\ \A p \in Reader : chk'[p].token = t /\ chk'[p].pc = "answer" =>
                    chk'[p].active \/ chk'[p].erred
    BY DEF Trusted, Sound, Live, Issued, Revoked, Expired, Never
  <2>2. /\ cache[t].at # Never /\ ~cache[t].active => t \in failed
        /\ \A p \in Reader : chk[p].token = t /\ chk[p].pc = "answer" =>
             chk[p].active \/ chk[p].erred
    BY <2>1 DEF SInv, Trusted
  <2>3. \A p \in Reader : chk'[p].token = t /\ chk'[p].pc = "answer" =>
          chk'[p].active \/ chk'[p].erred
    BY <1>2, <2>2 DEF Idle
  <2>4. CASE t # u
    BY <1>8, <2>2, <2>3, <2>4
  <2>5. CASE t = u /\ ~UNCHANGED <<cache, failed>>
    <3>1. cache'[t] = [active |-> b, at |-> now]
      BY <1>3, <2>5 DEF Store
    <3> QED
      BY <2>1, <2>3, <2>5, <3>1
  <2>6. CASE UNCHANGED <<cache, failed>>
    BY <2>2, <2>3, <2>6
  <2> QED
    BY <2>4, <2>5, <2>6
<1> QED
  BY <1>5, <1>6, <1>7, <1>10, <1>11, <1>12

LEMMA ArriveKeeps ==
  ASSUME SInv, NEW q \in Reader, Arrive(q)
  PROVE  OwnTypeOK' /\ Newer' /\ Asking' /\ \A t \in Token : Dated(t)' /\ Heeded(t)' /\ Trusted(t)'
<1> DEFINE u == ask[q].token
           b == chk[q].active
<1>1. u \in Token /\ b \in BOOLEAN /\ chk[q].token = u /\ chk[q].pc = "answer" /\ ask[q].pc = "asked"
  BY OneAsks DEF Arrive, Check
<1>2. b => (Revoked(u) /\ ~Expired(u) => u \in overtaken)
  BY <1>1 DEF SInv, Heeded
<1>3. ~b /\ Sound(u) => chk[q].erred
  BY <1>1 DEF SInv, Trusted
<1>4. /\ failed' = IF chk[q].erred THEN failed \cup {u} ELSE failed \ {u}
      /\ failed' \subseteq Token
  BY <1>1 DEF Arrive, SInv, OwnTypeOK
<1>5. /\ Store(u, b) /\ Finish(q) /\ chk' = [chk EXCEPT ![q] = Idle]
      /\ UNCHANGED <<now, ring, born, key, exp, deniedTo, revokedAt, keyset, overtaken>>
  BY DEF Arrive
<1> HIDE DEF u, b
<1> QED
  BY <1>1, <1>2, <1>3, <1>4, <1>5, CallEnds DEF u

LEMMA ErrorArrivesKeeps ==
  ASSUME SInv, NEW q \in Reader, ErrorArrives(q)
  PROVE  OwnTypeOK' /\ Newer' /\ Asking' /\ \A t \in Token : Dated(t)' /\ Heeded(t)' /\ Trusted(t)'
<1> DEFINE u == ask[q].token
<1>1. u \in Token /\ ask[q].pc = "asked" /\ u \in failed' /\ failed' \subseteq Token
      /\ \A t \in failed : t \in failed'
  BY OneAsks DEF ErrorArrives, SInv, OwnTypeOK
<1>2. /\ Store(u, FALSE) /\ Finish(q) /\ chk' = [chk EXCEPT ![q] = Idle]
      /\ UNCHANGED <<now, ring, born, key, exp, deniedTo, revokedAt, keyset, overtaken>>
  BY DEF ErrorArrives
<1> HIDE DEF u
<1> QED
  BY <1>1, <1>2, CallEnds DEF u

LEMMA CallFailsKeeps ==
  ASSUME SInv, NEW q \in Reader, CallFails(q)
  PROVE  OwnTypeOK' /\ Newer' /\ Asking' /\ \A t \in Token : Dated(t)' /\ Heeded(t)' /\ Trusted(t)'
<1> DEFINE u == ask[q].token
<1>1. u \in Token /\ ask[q].pc = "asked" /\ failed' = failed /\ failed' \subseteq Token
  BY OneAsks DEF CallFails, SInv, OwnTypeOK
<1>2. /\ UNCHANGED <<cache, failed>> /\ Finish(q) /\ chk' = [chk EXCEPT ![q] = Idle]
      /\ UNCHANGED <<now, ring, born, key, exp, deniedTo, revokedAt, keyset, overtaken>>
  BY DEF CallFails
<1> HIDE DEF u
<1> QED
  BY <1>1, <1>2, CallEnds DEF u

LEMMA UnchangedKeeps ==
  ASSUME SInv, UNCHANGED vars
  PROVE  OwnTypeOK' /\ Newer' /\ Asking' /\ \A t \in Token : Dated(t)' /\ Heeded(t)' /\ Trusted(t)'
<1>1. UNCHANGED <<now, published, born, key, exp, revokedAt, chk, keyset, cache, ask, failed, overtaken>>
  BY DEF vars, avars, rvars
<1> QED
  BY <1>1 DEF SInv, OwnTypeOK, Newer, Asking, Dated, Heeded, Trusted, Sound, Live, Issued, Revoked,
              Expired, Never

LEMMA NextInv == SInv /\ [Next]_vars => SInv'
<1> SUFFICES ASSUME SInv, [Next]_vars
             PROVE  OwnTypeOK' /\ Newer' /\ Asking' /\ \A t \in Token : Dated(t)' /\ Heeded(t)' /\ Trusted(t)'
  BY IssuerSound DEF SInv
<1>1. CASE UNCHANGED vars
  BY <1>1, UnchangedKeeps
<1>2. CASE Issuer
  BY <1>2, IssuerKeeps
<1>3. ASSUME NEW k \in Key, FetchKeys(k)
      PROVE  OwnTypeOK' /\ Newer' /\ Asking' /\ \A t \in Token : Dated(t)' /\ Heeded(t)' /\ Trusted(t)'
  BY <1>3, FetchKeysKeeps
<1>4. ASSUME NEW q \in Reader, (\E t \in Token : UseKeys(q, t)) \/ UseAnswer(q) \/ Call(q)
      PROVE  OwnTypeOK' /\ Newer' /\ Asking' /\ \A t \in Token : Dated(t)' /\ Heeded(t)' /\ Trusted(t)'
  BY <1>4, UseKeysKeeps, UseAnswerKeeps, CallKeeps
<1>5. ASSUME NEW q \in Reader, Introspect(q) \/ Arrive(q) \/ ErrorArrives(q) \/ CallFails(q)
      PROVE  OwnTypeOK' /\ Newer' /\ Asking' /\ \A t \in Token : Dated(t)' /\ Heeded(t)' /\ Trusted(t)'
  BY <1>5, IntrospectKeeps, ArriveKeeps, ErrorArrivesKeeps, CallFailsKeeps
<1> QED
  BY <1>1, <1>2, <1>3, <1>4, <1>5 DEF Next

-----------------------------------------------------------------------------
(* The inductive invariant of the issuer and the server together. *)
THEOREM ServerInvariant == Spec => []SInv
  BY InitInv, NextInv, PTL DEF Spec

(* With the server the issuer does what it does alone: every step of the    *)
(* two is a step of the issuer or changes nothing of it.                    *)
THEOREM IssuerIsKept == Spec => ASpec
<1>1. Init => AInit
  BY DEF Init
<1> QED
  BY <1>1, ServerInvariant, IssuerStepKept, PTL DEF Spec, ASpec

(* The state of the issuer and the server is well typed. *)
THEOREM ServerTypeCorrect == Spec => []ResourceServerTypeOK
<1>1. SInv => ResourceServerTypeOK
  BY DEF SInv, OwnTypeOK, AInv, ResourceServerTypeOK
<1> QED
  BY ServerInvariant, <1>1, PTL

(* A revoked token is on the denylist until it expires, whatever the server *)
(* asks of the issuer meanwhile.                                            *)
THEOREM DenylistLastsHere == Spec => []DenylistOutlivesToken
  BY IssuerIsKept, DenylistLasts, PTL

LEMMA KeysFound == SInv => NewKeysAreFound
<1> SUFFICES ASSUME SInv, NEW t \in Token, Unknown(t), key[t] \in published
             PROVE  now < born[key[t]] + Cooldown
  BY DEF NewKeysAreFound
<1>1. /\ keyset.at # Never /\ now < keyset.at + Cooldown /\ key[t] \notin keyset.keys
  BY DEF Unknown, NeedsKeys, FreshKeys, Cooling, Within
<1>2. keyset.at <= born[key[t]]
  BY <1>1 DEF SInv, Newer
<1>3. now \in Nat /\ keyset.at \in Int /\ born[key[t]] \in Int /\ Cooldown \in Int
  <2>1. key[t] \in Key /\ born \in [Key -> 0 .. Never] /\ keyset.at \in 0 .. Never
    BY DEF SInv, AInv, OwnTypeOK, AccessTokensTypeOK
  <2> QED
    BY <2>1, Times, DurationsAreNatural DEF SInv
<1> QED
  BY <1>1, <1>2, <1>3

(* A token of a published key is refused for its key only within the        *)
(* cooldown of the publication.                                             *)
THEOREM RotationIsSeen == Spec => []NewKeysAreFound
  BY ServerInvariant, KeysFound, PTL

(* A revocation takes hold at the service within the time it caches an      *)
(* answer, unless it overtook an answer on its way.                         *)
THEOREM RevocationHolds == Spec => RevocationTakesHold
<1> DEFINE Held == \A q \in Reader :
             LET t == ask[q].token IN
             Accepts(q) /\ Revoked(t) /\ ~Expired(t) /\ t \notin overtaken
               => now < revokedAt[t] + CacheTTL
<1>1. SInv => Held
  <2> SUFFICES ASSUME SInv, NEW q \in Reader, Accepts(q), Revoked(ask[q].token),
                      ~Expired(ask[q].token), ask[q].token \notin overtaken
               PROVE  now < revokedAt[ask[q].token] + CacheTTL
    BY Zenon
  <2> DEFINE t == ask[q].token
  <2>1. t \in Token /\ (chk[q].pc # "idle" => chk[q].token = t)
    BY OneAsks DEF Accepts, UseAnswer, Arrive
  <2>2. ~(Arrive(q) /\ chk[q].active)
    BY <2>1 DEF SInv, Heeded, Arrive
  <2>3. UseAnswer(q) /\ cache[t].active
    BY <2>2 DEF Accepts
  <2>4. cache[t].at # Never /\ now < cache[t].at + CacheTTL
    BY <2>3 DEF UseAnswer, AnswerCached, Within
  <2>5. cache[t].at <= revokedAt[t]
    BY <2>1, <2>3, <2>4 DEF SInv, Heeded
  <2>6. now \in Nat /\ cache[t].at \in Int /\ revokedAt[t] \in Int /\ CacheTTL \in Int
    <3>1. revokedAt \in [Token -> 0 .. Never] /\ cache \in [Token -> [active : BOOLEAN, at : 0 .. Never]]
      BY DEF SInv, AInv, OwnTypeOK, AccessTokensTypeOK
    <3> QED
      BY <2>1, <3>1, Times, DurationsAreNatural DEF SInv
  <2> HIDE DEF t
  <2>7. now < revokedAt[t] + CacheTTL
    BY <2>4, <2>5, <2>6
  <2> QED
    BY <2>7 DEF t
<1> HIDE DEF Held
<1>2. SInv /\ [Next]_vars => [Held]_vars
  BY <1>1
<1>3. Spec => [][Held]_vars
  BY ServerInvariant, <1>2, PTL DEF Spec
<1> QED
  BY <1>3 DEF Held, RevocationTakesHold

(* A live token that nobody revokes is refused by introspection only when   *)
(* the call made for it fails, or while the answer cached for it came from  *)
(* such a failure.                                                          *)
THEOREM LiveTokensPass == Spec => LiveTokensAreActive
<1> DEFINE Passed == \A q \in Reader :
             LET t == ask[q].token IN
             Refuses(q) /\ Live(t) /\ ~Revoked(t)
               => Failing(q) \/ (t \in failed /\ AnswerCached(t))
<1>1. SInv => Passed
  <2> SUFFICES ASSUME SInv, NEW q \in Reader, Refuses(q), Live(ask[q].token),
                      ~Revoked(ask[q].token), ~Failing(q)
               PROVE  ask[q].token \in failed /\ AnswerCached(ask[q].token)
    BY Zenon
  <2> DEFINE t == ask[q].token
  <2>1. t \in Token /\ Sound(t) /\ (chk[q].pc # "idle" => chk[q].token = t)
    BY OneAsks DEF Refuses, UseAnswer, Arrive, ErrorArrives, CallFails, Sound
  <2>2. ~(Arrive(q) /\ ~chk[q].active)
    BY <2>1 DEF SInv, Trusted, Arrive, Failing
  <2>3. UseAnswer(q) /\ ~cache[t].active
    BY <2>2 DEF Refuses, Failing
  <2>4. AnswerCached(t) /\ cache[t].at # Never
    BY <2>3 DEF UseAnswer, AnswerCached, Within
  <2> QED
    BY <2>1, <2>3, <2>4 DEF SInv, Trusted
<1> HIDE DEF Passed
<1>2. SInv /\ [Next]_vars => [Passed]_vars
  BY <1>1
<1>3. Spec => [][Passed]_vars
  BY ServerInvariant, <1>2, PTL DEF Spec
<1> QED
  BY <1>3 DEF Passed, LiveTokensAreActive
=============================================================================
