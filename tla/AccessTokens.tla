---------------------------- MODULE AccessTokens ----------------------------
(***************************************************************************)
(* Access tokens after they were signed, on the side of the issuer:         *)
(* TokenVerifierService.verify for the guards, introspection and            *)
(* revocation, and the denylist of revoked tokens in Redis.  The keys move  *)
(* as KeyRing lets them, which SigningKeys implements.                      *)
(*                                                                         *)
(* One action is the code between two awaits.  The clock counts half        *)
(* seconds: exp is in whole seconds, the clock of a process and the expiry  *)
(* of a Redis entry are finer.  The clock may advance at any point of a     *)
(* handler.                                                                 *)
(***************************************************************************)
EXTENDS KeyRing, Integers

CONSTANTS
  Token,    \* access tokens that may ever be signed
  Reader,   \* handlers that verify a token: guards and introspection
  Revoker,  \* handlers that revoke a token: revoke and logout
  TTL,      \* accessTokenTtlSeconds
  MaxTime   \* bound on the clock

ASSUME NoneIsNew == None \notin Token \cup Key
ASSUME TokensLive == TTL \in Nat \ {0} /\ MaxTime \in Nat
ASSUME HandlersDiffer == Reader \cap Revoker = {}

VARIABLES
  now,        \* in half seconds
  born,       \* born[k]: when key k was published, MaxTime + 1 before
  key,        \* key[t]: the key that signed t, None before it is issued
  exp,        \* exp[t]: the claim, in seconds
  deniedTo,   \* deniedTo[t]: when the entry revoked:at:t expires
  revokedAt,  \* history: when t was first put on the denylist, or MaxTime + 1
  chk         \* chk[r]: where handler r is, its token and what it found

avars == <<now, ring, born, key, exp, deniedTo, revokedAt, chk>>

Never == MaxTime + 1
Handler == Reader \cup Revoker
(* erred: history of a reader: a read failed, and it was told null.  What a *)
(* revoker is told comes to the same either way.                            *)
Check == [pc : {"idle", "denylist", "answer"}, token : Token \cup {None},
          active : BOOLEAN, erred : BOOLEAN]
Idle == [pc |-> "idle", token |-> None, active |-> FALSE, erred |-> FALSE]

Floor(n) == n \div 2          \* Math.floor(Date.now() / 1000)
Atleast(m, n) == IF m < n THEN n ELSE m

Issued(t) == key[t] # None
Revoked(t) == revokedAt[t] # Never
Expired(t) == exp[t] <= Floor(now)
Denied(t) == now < deniedTo[t]

(* jwtVerify against the served keys: signature and expiry. *)
JwtValid(t) == key[t] \in published /\ ~Expired(t)

-----------------------------------------------------------------------------
AccessTokensTypeOK ==
  /\ now \in 0 .. MaxTime
  /\ published \subseteq Key /\ signer \in Key /\ dropped \subseteq Key
  /\ born \in [Key -> 0 .. Never]
  /\ key \in [Token -> Key \cup {None}]
  /\ exp \in [Token -> Nat]
  /\ deniedTo \in [Token -> Nat]
  /\ revokedAt \in [Token -> 0 .. Never]
  /\ chk \in [Handler -> Check]

AInit ==
  /\ now = 0
  /\ RingInit /\ signer # None
  /\ born = [k \in Key |-> IF k = signer THEN 0 ELSE Never]
  /\ key = [t \in Token |-> None]
  /\ exp = [t \in Token |-> 0]
  /\ deniedTo = [t \in Token |-> 0]
  /\ revokedAt = [t \in Token |-> Never]
  /\ chk = [r \in Handler |-> Idle]

(* The keys move. *)
Publish(k) ==
  /\ Serve(k)
  /\ born' = [born EXCEPT ![k] = now]
  /\ UNCHANGED <<now, key, exp, deniedTo, revokedAt, chk>>

Promote(k) == Elect(k) /\ UNCHANGED <<now, born, key, exp, deniedTo, revokedAt, chk>>

PurgeKeys(S) == Drop(S) /\ UNCHANGED <<now, born, key, exp, deniedTo, revokedAt, chk>>

(* signAccessToken: iat is the second it is signed in, exp is TTL later. *)
Sign(t) ==
  /\ ~Issued(t)
  /\ key' = [key EXCEPT ![t] = signer]
  /\ exp' = [exp EXCEPT ![t] = Floor(now) + TTL]
  /\ UNCHANGED <<now, ring, born, deniedTo, revokedAt, chk>>

(* TokenVerifierService.verify: the JWT itself; a token that fails gets the *)
(* answer null.                                                             *)
VerifyJwt(r, t) ==
  /\ chk[r].pc = "idle"
  /\ Issued(t)
  /\ chk' = [chk EXCEPT ![r] =
       [Idle EXCEPT !.pc = IF JwtValid(t) THEN "denylist" ELSE "answer", !.token = t]]
  /\ UNCHANGED <<now, ring, born, key, exp, deniedTo, revokedAt>>

(* TokenVerifierService.verify: its read of the keys or of the denylist     *)
(* fails, the catch clause takes that for an invalid token, and the answer  *)
(* is null.                                                                 *)
ReadFails(r, t) ==
  /\ \/ chk[r].pc = "idle" /\ Issued(t)
     \/ chk[r].pc = "denylist" /\ chk[r].token = t
  /\ chk' = [chk EXCEPT ![r] = [Idle EXCEPT !.pc = "answer", !.token = t,
                                        !.erred = (r \in Reader)]]
  /\ UNCHANGED <<now, ring, born, key, exp, deniedTo, revokedAt>>

(* Mutant: verify does not consult the denylist. *)
DenylistIgnored(r) ==
  /\ chk[r].pc = "denylist"
  /\ chk' = [chk EXCEPT ![r].pc = "answer", ![r].active = TRUE]
  /\ UNCHANGED <<now, ring, born, key, exp, deniedTo, revokedAt>>

(* TokenVerifierService.verify: isAccessTokenRevoked. *)
ReadDenylist(r) ==
  /\ chk[r].pc = "denylist"
  /\ chk' = [chk EXCEPT ![r].pc = "answer", ![r].active = ~Denied(chk[r].token)]
  /\ UNCHANGED <<now, ring, born, key, exp, deniedTo, revokedAt>>

(* Mutant: the time to live is rounded down. *)
TimeToLiveRoundedDown(t) == Atleast(exp[t] - ((now + 1) \div 2), 1)

(* revokeAccessToken: the time to live of the entry, in seconds. *)
TimeToLive(t) == Atleast(exp[t] - Floor(now), 1)

(* revokeAccess, logout: a token that was verified goes on the denylist. *)
WriteDenylist(r) ==
  LET t == chk[r].token IN
  /\ r \in Revoker
  /\ chk[r].pc = "answer" /\ chk[r].active
  /\ deniedTo' = [deniedTo EXCEPT ![t] = now + 2 * TimeToLive(t)]
  /\ revokedAt' = [revokedAt EXCEPT ![t] = IF Revoked(t) THEN @ ELSE now]
  /\ chk' = [chk EXCEPT ![r] = Idle]
  /\ UNCHANGED <<now, ring, born, key, exp>>

(* The handler answers, or dies at an await. *)
Leave(r) ==
  /\ chk[r].pc # "idle"
  /\ chk' = [chk EXCEPT ![r] = Idle]
  /\ UNCHANGED <<now, ring, born, key, exp, deniedTo, revokedAt>>

Tick ==
  /\ now < MaxTime
  /\ now' = now + 1
  /\ UNCHANGED <<ring, born, key, exp, deniedTo, revokedAt, chk>>

VerifyStep(r) ==
  \/ \E t \in Token : VerifyJwt(r, t) \/ ReadFails(r, t)
  \/ ReadDenylist(r)
  \/ Leave(r)

IssuerStep ==
  \/ \E k \in Key : Publish(k) \/ Promote(k)
  \/ \E S \in SUBSET Key : PurgeKeys(S)
  \/ \E t \in Token : Sign(t)
  \/ \E r \in Revoker : VerifyStep(r) \/ WriteDenylist(r)
  \/ Tick

ANext == IssuerStep \/ \E r \in Reader : VerifyStep(r)

ASpec == AInit /\ [][ANext]_avars

-----------------------------------------------------------------------------
(* Properties *)

(* A revoked token stays on the denylist until it expires: the entry never  *)
(* lapses first, in whatever part of a second and however late in the life  *)
(* of the token it is written.                                              *)
DenylistOutlivesToken ==
  \A t \in Token : Revoked(t) => Denied(t) \/ Expired(t)
=============================================================================
