------------------------------- MODULE KeyRing -------------------------------
(***************************************************************************)
(* What the services that sign and verify tokens rely on KeyService for:    *)
(* keys are served, one of those signs, and a key that went never comes     *)
(* back.  AccessTokens takes its keys from here; SigningKeys is shown to    *)
(* implement it.                                                           *)
(***************************************************************************)
CONSTANTS
  Key,   \* signing keys that may ever be generated
  None   \* no key

VARIABLES
  published,  \* the keys getPublicJwks serves
  signer,     \* the key getActiveSigningKey finds, None before the first boot
  dropped     \* keys purged

ring == <<published, signer, dropped>>

(* Before the first boot there is no key, after it there is one.            *)
RingInit ==
  /\ \/ published = {} /\ signer = None
     \/ \E k \in Key : published = {k} /\ signer = k
  /\ dropped = {}

(* generateKeyWithEm: a new key is served; the first of all signs at once. *)
Serve(k) ==
  /\ k \notin published \cup dropped
  /\ published' = published \cup {k}
  /\ signer' = IF signer = None THEN k ELSE signer
  /\ UNCHANGED dropped

(* rotate, in its transaction: another served key signs. *)
Elect(k) ==
  /\ k \in published \ {signer}
  /\ signer' = k
  /\ UNCHANGED <<published, dropped>>

(* rotate, in the end: keys that do not sign are purged. *)
Drop(S) ==
  /\ S \subseteq published \ {signer}
  /\ published' = published \ S
  /\ dropped' = dropped \cup S
  /\ UNCHANGED signer

RingNext ==
  \/ \E S \in SUBSET (published \ {signer}) : Drop(S)
  \/ \E k \in Key : Serve(k) \/ Elect(k)

RingSpec == RingInit /\ [][RingNext]_ring
=============================================================================
