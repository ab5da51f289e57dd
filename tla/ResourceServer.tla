--------------------------- MODULE ResourceServer ---------------------------
(***************************************************************************)
(* A service that accepts Darboon access tokens: DarboonVerifierService of  *)
(* the verifier package, with introspection enabled, against the issuer of  *)
(* AccessTokens.  It caches the key set, as jose does (external), and the   *)
(* answers of introspection, and its requests overlap.                      *)
(*                                                                         *)
(* Fetching the key set takes one step: its time limit is short beside the  *)
(* cooldown.  A call of introspection may be in flight for any time.        *)
(***************************************************************************)
EXTENDS AccessTokens

CONSTANTS
  Cooldown,  \* cooldownDuration of the key set, in half seconds
  MaxAge,    \* cacheMaxAge of the key set
  CacheTTL,  \* cacheTtlMs of an introspection answer
  Lag        \* by how much the clock of the service is behind

ASSUME DurationsAreNatural ==
  Cooldown \in Nat /\ MaxAge \in Nat /\ CacheTTL \in Nat /\ Lag \in Nat

VARIABLES
  keyset,    \* the fetched keys and when they were fetched
  cache,     \* cache[t]: the cached answer for t and when it arrived
  ask,       \* ask[q]: where the verification q is and its token
  failed,    \* history: tokens whose cached answer stands for an error
  overtaken  \* history: tokens revoked under an answer not yet delivered

rvars == <<keyset, cache, ask, failed, overtaken>>
vars == <<avars, rvars>>

NoKeys == [keys |-> {}, at |-> Never]
NoAnswer == [active |-> FALSE, at |-> Never]
NotAsking == [pc |-> "idle", token |-> None]

Within(start, length) == start # Never /\ now < start + length

(* RemoteJWKSet: fetch when the set is absent or old, and for an unknown    *)
(* key unless the set was fetched within the cooldown.                      *)
FreshKeys == Within(keyset.at, MaxAge)
Cooling == Within(keyset.at, Cooldown)
(* Mutant: an unknown key does not make the key set be fetched again. *)
NeedsKeysIfOld(k) == ~FreshKeys

NeedsKeys(k) == ~FreshKeys \/ (k \notin keyset.keys /\ ~Cooling)

(* The claims nbf and exp against the clock of the service. *)
Local == Floor(now - Lag)
ClaimsHold(t) == exp[t] - TTL <= Local /\ Local < exp[t]

(* Mutant: a cached answer is used however old it is. *)
AnswerKept(t) == cache[t].at # Never

AnswerCached(t) == Within(cache[t].at, CacheTTL)

-----------------------------------------------------------------------------
ResourceServerTypeOK ==
  /\ AccessTokensTypeOK
  /\ keyset \in [keys : SUBSET Key, at : 0 .. Never]
  /\ cache \in [Token -> [active : BOOLEAN, at : 0 .. Never]]
  /\ ask \in [Reader -> [pc : {"idle", "verified", "asked"}, token : Token \cup {None}]]
  /\ failed \subseteq Token
  /\ overtaken \subseteq Token

Init ==
  /\ AInit
  /\ keyset = NoKeys
  /\ cache = [t \in Token |-> NoAnswer]
  /\ ask = [q \in Reader |-> NotAsking]
  /\ failed = {}
  /\ overtaken = {}

Hold(q, pc, t) == ask' = [ask EXCEPT ![q] = [pc |-> pc, token |-> t]]
Finish(q) == ask' = [ask EXCEPT ![q] = NotAsking]

(* verify: a token names key k and the key set is fetched.  Any token does, *)
(* whoever else's it is.                                                    *)
FetchKeys(k) ==
  /\ NeedsKeys(k)
  /\ keyset' = [keys |-> published, at |-> now]
  /\ UNCHANGED <<avars, cache, ask, failed, overtaken>>

(* verify: the key set is fit for use and knows the key. *)
UseKeys(q, t) ==
  /\ ask[q].pc = "idle" /\ Issued(t)
  /\ ~NeedsKeys(key[t])
  /\ key[t] \in keyset.keys /\ ClaimsHold(t)
  /\ Hold(q, "verified", t)
  /\ UNCHANGED <<avars, keyset, cache, failed, overtaken>>

(* verify: the key is unknown and the set is not fetched again.  A token    *)
(* refused here, for a fetch that fails or for its claims changes nothing.  *)
Unknown(t) == Issued(t) /\ ~NeedsKeys(key[t]) /\ key[t] \notin keyset.keys

(* introspect: a cached answer that is recent enough is the verdict. *)
UseAnswer(q) ==
  /\ ask[q].pc = "verified"
  /\ AnswerCached(ask[q].token)
  /\ Finish(q)
  /\ UNCHANGED <<avars, keyset, cache, failed, overtaken>>

(* introspect: otherwise the issuer is asked. *)
Call(q) ==
  /\ ask[q].pc = "verified"
  /\ ~AnswerCached(ask[q].token)
  /\ Hold(q, "asked", ask[q].token)
  /\ UNCHANGED <<avars, keyset, cache, failed, overtaken>>

(* TokenController.introspect at the issuer. *)
Introspect(q) ==
  /\ ask[q].pc = "asked"
  /\ \/ VerifyJwt(q, ask[q].token)
     \/ ReadFails(q, ask[q].token)
     \/ ReadDenylist(q)
  /\ UNCHANGED rvars

(* introspectionCache.set: dated by its arrival, whatever is there by now. *)
Store(t, active) == cache' = [cache EXCEPT ![t] = [active |-> active, at |-> now]]

(* introspect: the answer arrives, is cached and is the verdict, whether    *)
(* the issuer found the token inactive or could not read its own state.     *)
Arrive(q) ==
  /\ ask[q].pc = "asked" /\ chk[q].pc = "answer"
  /\ Store(ask[q].token, chk[q].active)
  /\ failed' = IF chk[q].erred THEN failed \cup {ask[q].token} ELSE failed \ {ask[q].token}
  /\ chk' = [chk EXCEPT ![q] = Idle]
  /\ Finish(q)
  /\ UNCHANGED <<now, ring, born, key, exp, deniedTo, revokedAt,
                 keyset, overtaken>>

(* introspect: the issuer answers with an error, whose body is JSON: the    *)
(* token is taken for inactive, and that is cached like an answer.          *)
ErrorArrives(q) ==
  /\ ask[q].pc = "asked"
  /\ Store(ask[q].token, FALSE)
  /\ failed' = failed \cup {ask[q].token}
  /\ chk' = [chk EXCEPT ![q] = Idle]
  /\ Finish(q)
  /\ UNCHANGED <<now, ring, born, key, exp, deniedTo, revokedAt,
                 keyset, overtaken>>

(* Mutant: the catch clause caches its refusal too. *)
CallFailsCached(q) ==
  /\ ask[q].pc = "asked"
  /\ Store(ask[q].token, FALSE)
  /\ chk' = [chk EXCEPT ![q] = Idle]
  /\ Finish(q)
  /\ UNCHANGED <<now, ring, born, key, exp, deniedTo, revokedAt,
                 keyset, failed, overtaken>>

(* introspect: no answer; the token is refused and nothing is cached. *)
CallFails(q) ==
  /\ ask[q].pc = "asked"
  /\ chk' = [chk EXCEPT ![q] = Idle]
  /\ Finish(q)
  /\ UNCHANGED <<now, ring, born, key, exp, deniedTo, revokedAt,
                 keyset, cache, failed, overtaken>>

(* The issuer moves; a revocation overtakes the answers on their way. *)
Issuer ==
  /\ IssuerStep
  /\ overtaken' = overtaken \cup
       {t \in Token : /\ revokedAt'[t] # revokedAt[t]
                      /\ \E q \in Reader : chk[q].token = t /\ chk[q].active}
  /\ UNCHANGED <<keyset, cache, ask, failed>>

Next ==
  \/ Issuer
  \/ \E k \in Key : FetchKeys(k)
  \/ \E q \in Reader :
       \/ \E t \in Token : UseKeys(q, t)
       \/ UseAnswer(q)
       \/ Call(q)
       \/ Introspect(q)
       \/ Arrive(q)
       \/ ErrorArrives(q)
       \/ CallFails(q)

Spec == Init /\ [][Next]_vars

-----------------------------------------------------------------------------
(* Properties *)

Live(t) == ~Expired(t) /\ key[t] \in published

(* The service accepts the token: on a cached answer, or on one arriving. *)
Accepts(q) ==
  \/ UseAnswer(q) /\ cache[ask[q].token].active
  \/ Arrive(q) /\ chk[q].active

(* The call of this very verification fails: there is no answer, the answer *)
(* is an error, or the issuer failed to read its own state.                 *)
Failing(q) ==
  \/ CallFails(q)
  \/ ErrorArrives(q)
  \/ Arrive(q) /\ chk[q].erred

(* introspect returns false: all four places where it can. *)
Refuses(q) ==
  \/ UseAnswer(q) /\ ~cache[ask[q].token].active
  \/ Arrive(q) /\ ~chk[q].active
  \/ ErrorArrives(q)
  \/ CallFails(q)

(* A revocation takes hold at the service within the time it caches an      *)
(* answer: an unexpired token revoked that long ago is not accepted, unless *)
(* an answer on its way was overtaken by the revocation.                    *)
RevocationTakesHold ==
  [][\A q \in Reader :
       LET t == ask[q].token IN
       Accepts(q) /\ Revoked(t) /\ ~Expired(t) /\ t \notin overtaken
         => now < revokedAt[t] + CacheTTL]_vars

(* A live token that nobody revokes is refused by introspection only when   *)
(* the call made for it fails, or while the answer cached for it came from  *)
(* such a failure: an error response, or an inactive verdict of an issuer   *)
(* that could not read its database or Redis.  A call without an answer     *)
(* refuses that one request only, and no late answer makes another one be   *)
(* refused.                                                                 *)
LiveTokensAreActive ==
  [][\A q \in Reader :
       LET t == ask[q].token IN
       Refuses(q) /\ Live(t) /\ ~Revoked(t)
         => Failing(q) \/ (t \in failed /\ AnswerCached(t))]_vars

(* Rotation needs no action of the service: a token of a published key is   *)
(* refused for its key only within the cooldown of the publication, so that *)
(* a key published that long before it signs is never refused.              *)
NewKeysAreFound ==
  \A t \in Token :
    Unknown(t) /\ key[t] \in published => now < born[key[t]] + Cooldown
=============================================================================
