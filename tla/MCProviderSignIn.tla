-------------------------- MODULE MCProviderSignIn --------------------------
(* A small instance of ProviderSignIn for TLC. *)
EXTENDS ProviderSignIn, TLC

CONSTANTS e1, e2

Address(e, primary, verified) ==
  [email |-> e, primary |-> primary, verified |-> verified]

(* No verified address, one that is not primary, and a primary one later. *)
Mailboxes ==
  {<<Address(e1, TRUE, FALSE)>>,
   <<Address(e1, TRUE, FALSE), Address(e2, FALSE, TRUE)>>,
   <<Address(e1, FALSE, TRUE), Address(e2, TRUE, TRUE)>>}

(* An address taken off, put back, and GitHub no longer allowed. *)
Updates ==
  {[Untouched EXCEPT !.redirects = {}], [Untouched EXCEPT !.redirects = Redirect],
   [Untouched EXCEPT !.grants = {"google"}]}

Symmetry ==
  Permutations(Flow) \cup Permutations(Code) \cup Permutations(Request)
=============================================================================
