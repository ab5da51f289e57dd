---------------------------- MODULE SigningKeys ----------------------------
(***************************************************************************)
(* The life of the token signing keys: KeyService.onModuleInit, generateKey,*)
(* getActiveSigningKey, getPublicJwks and rotate over the signing_keys      *)
(* table, with the scheduled rotation job of KeyRotationProcessor and the   *)
(* administrator's rotateKeys endpoint.                                     *)
(*                                                                         *)
(* Every api replica boots on its own, and a scheduled and an administrator *)
(* rotation may run side by side: one action is the code between two awaits *)
(* on the database.  findOne has no order: any matching row may be read.    *)
(* A flush writes by primary key what the handler decided on the rows it    *)
(* read; a row deleted meanwhile is not an error.                           *)
(*                                                                         *)
(* Time is counted in ticks, Period of which are KEY_ROTATION_DAYS.  The     *)
(* clock may advance at any await: between the generation of a key and the  *)
(* purge of the same rotation, or while a signer holds the key it loaded.   *)
(***************************************************************************)
EXTENDS Integers

CONSTANTS
  Key,       \* signing keys that may ever be generated
  Replica,   \* api replicas
  Rotator,   \* handlers of rotate: the worker and administrators
  Worker,    \* the rotator that runs the scheduled job
  Signer,    \* handlers that sign a token
  None,      \* no key
  Period,    \* ticks between two scheduled rotations
  TTL,       \* ticks a token lives
  Lateness,  \* ticks from when a rotation is due by which it has ended
  MaxTime,   \* bound on the clock
  Serial,    \* does a rotation start only when no other runs?
  MayAbort,  \* may a rotation die at an await?
  MaySleep   \* may a signer hold the key it loaded over a tick?

ASSUME NoneIsNoKey == None \notin Key
ASSUME TimesAreNatural ==
  Period \in Nat \ {0} /\ TTL \in Nat /\ Lateness \in Nat /\ MaxTime \in Nat
ASSUME SwitchesAreBoolean ==
  Serial \in BOOLEAN /\ MayAbort \in BOOLEAN /\ MaySleep \in BOOLEAN

VARIABLES
  status,     \* status[k]: "none" before the insert, "purged" after the delete
  expiresAt,  \* expiresAt[k]
  now,
  due,        \* when the next scheduled rotation is due
  boot,       \* boot[p]: "down", "missing" (read no ACTIVE key) or "up"
  rot,        \* rot[r]: where rotation r is and the rows it has read
  signing,    \* signing[s]: the private key a handler has loaded, or None
  liveUntil   \* history: when the last token signed with a key expires, or 0

vars == <<status, expiresAt, now, due, boot, rot, signing, liveUntil>>

Published == {"active", "next", "retiring"}
Idle == [pc |-> "idle", current |-> None, next |-> None, found |-> {}]
Steps == {"idle", "current", "next", "make", "promote", "prepublish", "expired", "purge"}
With(s) == {k \in Key : status[k] = s}
OneOf(S) == IF S = {} THEN {None} ELSE S      \* findOne

(* The keys getPublicJwks serves. *)
Jwks == {k \in Key : status[k] \in Published}

-----------------------------------------------------------------------------
KeysTypeOK ==
  /\ status \in [Key -> Published \cup {"none", "purged"}]
  /\ expiresAt \in [Key -> Nat]
  /\ now \in Nat /\ due \in Nat
  /\ boot \in [Replica -> {"down", "missing", "up"}]
  /\ rot \in [Rotator -> [pc : Steps, current : Key \cup {None},
                          next : Key \cup {None}, found : SUBSET Key]]
  /\ signing \in [Signer -> Key \cup {None}]
  /\ liveUntil \in [Key -> Nat]

Init ==
  /\ status = [k \in Key |-> "none"]
  /\ expiresAt = [k \in Key |-> 0]
  /\ now = 0
  /\ due = Period
  /\ boot = [p \in Replica |-> "down"]
  /\ rot = [r \in Rotator |-> Idle]
  /\ signing = [s \in Signer |-> None]
  /\ liveUntil = [k \in Key |-> 0]

(* generateKeyWithEm: a new row, verifiable for two periods from now. *)
Generate(k, s) ==
  /\ status[k] = "none"
  /\ status' = [status EXCEPT ![k] = s]
  /\ expiresAt' = [expiresAt EXCEPT ![k] = now + 2 * Period]

Goto(r, pc) == rot' = [rot EXCEPT ![r].pc = pc]

-----------------------------------------------------------------------------
(* onModuleInit: look for an ACTIVE key. *)
BootRead(p) ==
  /\ boot[p] = "down"
  /\ boot' = [boot EXCEPT ![p] = IF With("active") = {} THEN "missing" ELSE "up"]
  /\ UNCHANGED <<status, expiresAt, now, due, rot, signing, liveUntil>>

(* onModuleInit: none was found, so generate one. *)
BootGenerate(p, k) ==
  /\ boot[p] = "missing"
  /\ Generate(k, "active")
  /\ boot' = [boot EXCEPT ![p] = "up"]
  /\ UNCHANGED <<now, due, rot, signing, liveUntil>>

(* A replica is replaced: the new pod boots again. *)
Restart(p) ==
  /\ boot[p] = "up"
  /\ boot' = [boot EXCEPT ![p] = "down"]
  /\ UNCHANGED <<status, expiresAt, now, due, rot, signing, liveUntil>>

(* A rotation begins: the job at its time, an administrator at any time. *)
Begin(r) ==
  /\ rot[r].pc = "idle"
  /\ \E p \in Replica : boot[p] = "up"
  /\ r = Worker => now >= due
  /\ Serial => \A q \in Rotator : rot[q].pc = "idle"
  /\ Goto(r, "current")
  /\ UNCHANGED <<status, expiresAt, now, due, boot, signing, liveUntil>>

ReadCurrent(r) ==
  /\ rot[r].pc = "current"
  /\ \E k \in OneOf(With("active")) :
       rot' = [rot EXCEPT ![r].pc = "next", ![r].current = k]
  /\ UNCHANGED <<status, expiresAt, now, due, boot, signing, liveUntil>>

(* Mutant: the query for the key to promote also takes RETIRING keys. *)
ReadNextAny(r) ==
  /\ rot[r].pc = "next"
  /\ \E k \in OneOf(With("next") \cup With("retiring")) :
       rot' = [rot EXCEPT ![r].pc = IF k = None THEN "make" ELSE "promote", ![r].next = k]
  /\ UNCHANGED <<status, expiresAt, now, due, boot, signing, liveUntil>>

ReadNext(r) ==
  /\ rot[r].pc = "next"
  /\ \E k \in OneOf(With("next")) :
       rot' = [rot EXCEPT ![r].pc = IF k = None THEN "make" ELSE "promote", ![r].next = k]
  /\ UNCHANGED <<status, expiresAt, now, due, boot, signing, liveUntil>>

(* No NEXT key was found: generate the key to promote. *)
MakeNext(r, k) ==
  /\ rot[r].pc = "make"
  /\ Generate(k, "next")
  /\ rot' = [rot EXCEPT ![r].pc = "promote", ![r].next = k]
  /\ UNCHANGED <<now, due, boot, signing, liveUntil>>

(* Mutant: the current key is demoted and the next one is left as it is. *)
PromoteDemotesOnly(r) ==
  /\ rot[r].pc = "promote"
  /\ status' = [k \in Key |->
       IF k = rot[r].current /\ status[k] # "purged" THEN "retiring" ELSE status[k]]
  /\ Goto(r, "prepublish")
  /\ UNCHANGED <<expiresAt, now, due, boot, signing, liveUntil>>

(* Mutant: the current key is never demoted. *)
PromoteKeepsCurrent(r) ==
  /\ rot[r].pc = "promote"
  /\ status' = [k \in Key |->
       IF k = rot[r].next /\ status[k] # "purged" THEN "active" ELSE status[k]]
  /\ Goto(r, "prepublish")
  /\ UNCHANGED <<expiresAt, now, due, boot, signing, liveUntil>>

(* current := RETIRING and next := ACTIVE in one transaction. *)
Promote(r) ==
  /\ rot[r].pc = "promote"
  /\ status' = [k \in Key |->
       IF status[k] = "purged" THEN "purged"
       ELSE IF k = rot[r].next THEN "active"
       ELSE IF k = rot[r].current THEN "retiring"
       ELSE status[k]]
  /\ Goto(r, "prepublish")
  /\ UNCHANGED <<expiresAt, now, due, boot, signing, liveUntil>>

(* Generate the key of the rotation after this one. *)
Prepublish(r, k) ==
  /\ rot[r].pc = "prepublish"
  /\ Generate(k, "next")
  /\ Goto(r, "expired")
  /\ UNCHANGED <<now, due, boot, signing, liveUntil>>

(* Mutant: the purge takes every RETIRING key. *)
FindRetiring(r) ==
  /\ rot[r].pc = "expired"
  /\ rot' = [rot EXCEPT ![r].pc = "purge", ![r].found = With("retiring")]
  /\ UNCHANGED <<status, expiresAt, now, due, boot, signing, liveUntil>>

(* Mutant: the purge asks for the expiry and not for the status. *)
FindAnyExpired(r) ==
  /\ rot[r].pc = "expired"
  /\ rot' = [rot EXCEPT ![r].pc = "purge",
                        ![r].found = {k \in Jwks : expiresAt[k] < now}]
  /\ UNCHANGED <<status, expiresAt, now, due, boot, signing, liveUntil>>

FindExpired(r) ==
  /\ rot[r].pc = "expired"
  /\ rot' = [rot EXCEPT ![r].pc = "purge",
                        ![r].found = {k \in With("retiring") : expiresAt[k] < now}]
  /\ UNCHANGED <<status, expiresAt, now, due, boot, signing, liveUntil>>

(* The job of this slot is over, done or failed; the next is a period away. *)
End(r) ==
  /\ rot' = [rot EXCEPT ![r] = Idle]
  /\ due' = IF r = Worker THEN due + Period ELSE due
  /\ UNCHANGED <<expiresAt, now, boot, signing, liveUntil>>

Purge(r) ==
  /\ rot[r].pc = "purge"
  /\ status' = [k \in Key |-> IF k \in rot[r].found THEN "purged" ELSE status[k]]
  /\ End(r)

(* An error or a restart ends a rotation; the queue does not retry it. *)
Abort(r) ==
  /\ MayAbort
  /\ rot[r].pc # "idle"
  /\ End(r)
  /\ UNCHANGED status

(* getActiveSigningKey; with no ACTIVE key the request fails. *)
LoadKey(s) ==
  /\ signing[s] = None
  /\ \E k \in With("active") : signing' = [signing EXCEPT ![s] = k]
  /\ UNCHANGED <<status, expiresAt, now, due, boot, rot, liveUntil>>

(* signAccessToken, signIdToken: the token is signed with the loaded key. *)
Sign(s) ==
  /\ signing[s] # None
  /\ signing' = [signing EXCEPT ![s] = None]
  /\ liveUntil' = [liveUntil EXCEPT ![signing[s]] = now + TTL]
  /\ UNCHANGED <<status, expiresAt, now, due, boot, rot>>

Tick ==
  /\ now < MaxTime
  /\ now < due + Lateness
  /\ ~MaySleep => \A s \in Signer : signing[s] = None
  /\ now' = now + 1
  /\ liveUntil' = [k \in Key |-> IF liveUntil[k] > now' THEN liveUntil[k] ELSE 0]
  /\ UNCHANGED <<status, expiresAt, due, boot, rot, signing>>

RotateStep(r) ==
  \/ ReadCurrent(r)
  \/ ReadNext(r)
  \/ \E k \in Key : MakeNext(r, k) \/ Prepublish(r, k)
  \/ Promote(r)
  \/ FindExpired(r)
  \/ Purge(r)

Next ==
  \/ \E p \in Replica : \/ BootRead(p)
                        \/ \E k \in Key : BootGenerate(p, k)
                        \/ Restart(p)
  \/ \E r \in Rotator : Begin(r) \/ RotateStep(r) \/ Abort(r)
  \/ \E s \in Signer : LoadKey(s) \/ Sign(s)
  \/ Tick

Spec == Init /\ [][Next]_vars

-----------------------------------------------------------------------------
(* Properties *)

(* Once a replica has booted the service can always sign: no interleaving   *)
(* of boots, aborts and two rotations, one of which may sleep while the     *)
(* other runs again and again, leaves the table without an ACTIVE key.      *)
SomeKeySigns == (\E p \in Replica : boot[p] = "up") => With("active") # {}

(* Rotations that do not overlap, however they are cut short, keep one      *)
(* ACTIVE key and at most one NEXT key.                                     *)
OneSigner ==
  \A j, k \in Key :
    status[j] = status[k] /\ status[k] \in {"active", "next"} => j = k

(* No key signs again after it retired, and none is resurrected.            *)
KeysMoveForward ==
  [][\A k \in Key : status[k] \in {"retiring", "purged"} =>
                      status'[k] \notin {"next", "active"}]_vars

(* The reads and writes of rotations that do not overlap, wherever they are *)
(* cut short, amount to the few steps of KeyRing: always one key that signs *)
(* and is served, and none back once purged.                                *)
ActiveKey == CHOOSE k \in OneOf(With("active")) : TRUE
Ring == INSTANCE KeyRing WITH published <- Jwks, signer <- ActiveKey,
                              dropped <- With("purged")
KeysAreARing == Ring!RingSpec

(* Until its expiry a key verifies the tokens it signed, retired or not and *)
(* even when it signs again after its retirement: no rotation purges it     *)
(* sooner, late, cut short, overlapping another or resumed with rows it     *)
(* read long ago.                                                           *)
LiveTokensVerifyUntilExpiry ==
  \A k \in Key : liveUntil[k] > now /\ now <= expiresAt[k] => k \in Jwks

(* Documented in keys/key.service.ts:114 ("Public JWKS: every key that may  *)
(* still verify a live token"): a key is served while a token it signed has *)
(* not expired.                                                             *)
LiveTokensVerify == \A k \in Key : liveUntil[k] > now => k \in Jwks
=============================================================================
