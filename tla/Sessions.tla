------------------------------ MODULE Sessions ------------------------------
(***************************************************************************)
(* What a refresh-token session promises, whatever runs concurrently.  A    *)
(* session is a family of refresh tokens, named by the token that opened    *)
(* it.  A token is usable at most once in its life; a session that has died *)
(* never gets another usable token.                                         *)
(*                                                                         *)
(* The module is a promise and not code: RefreshTokens implements it.       *)
(***************************************************************************)
CONSTANT Token

VARIABLES
  life,     \* life[t]: "unborn", "usable" or "spent"
  session,  \* session[f]: the phase of the session that token f opened
  member    \* member[t]: {f} for the session f of t, {} before t is born

svars == <<life, session, member>>

Life == {"unborn", "usable", "spent"}
Phase == {"unborn", "live", "dead"}

SessionsTypeOK ==
  /\ life \in [Token -> Life]
  /\ session \in [Token -> Phase]
  /\ member \in [Token -> SUBSET Token]

SInit ==
  /\ life = [t \in Token |-> "unborn"]
  /\ session = [f \in Token |-> "unborn"]
  /\ member = [t \in Token |-> {}]

(* A login opens the session named by its first token. *)
Open(t) ==
  /\ life[t] = "unborn"
  /\ life' = [life EXCEPT ![t] = "usable"]
  /\ session' = [session EXCEPT ![t] = "live"]
  /\ member' = [member EXCEPT ![t] = {t}]

(* A live session gets another usable token. *)
Renew(f, t) ==
  /\ session[f] = "live"
  /\ life[t] = "unborn"
  /\ life' = [life EXCEPT ![t] = "usable"]
  /\ member' = [member EXCEPT ![t] = {f}]
  /\ UNCHANGED session

(* Tokens are spent, and sessions left with no usable token may die. *)
Spend(S, D) ==
  /\ \A t \in S : life[t] = "usable"
  /\ \A f \in D : /\ session[f] = "live"
                  /\ \A t \in Token \ S : f \in member[t] => life[t] # "usable"
  /\ life' = [t \in Token |-> IF t \in S THEN "spent" ELSE life[t]]
  /\ session' = [f \in Token |-> IF f \in D THEN "dead" ELSE session[f]]
  /\ UNCHANGED member

SNext ==
  \/ \E t \in Token : Open(t)
  \/ \E f, t \in Token : Renew(f, t)
  \/ \E S, D \in SUBSET Token : Spend(S, D)

SSpec == SInit /\ [][SNext]_svars
=============================================================================
