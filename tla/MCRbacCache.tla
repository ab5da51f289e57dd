---------------------------- MODULE MCRbacCache ----------------------------
(* Small instances of RbacCache for TLC. *)
EXTENDS RbacCache, TLC

(* A role may be granted a permission of another application, and assigned  *)
(* there, so that the deletion of either application cascades in its way.   *)
Home == CHOOSE a \in App : TRUE
Elsewhere == CHOOSE a \in App : a # Home
Apart == [x \in Role \cup Permission |-> IF x \in Role THEN Home ELSE Elsewhere]

Symmetry ==
  Permutations(User) \cup Permutations(Role) \cup Permutations(Permission)
    \cup Permutations(Resolver) \cup Permutations(Admin)
=============================================================================
