------------------------- MODULE MCComponentDaemon -------------------------
(* Instances of ComponentDaemon for TLC. *)
EXTENDS ComponentDaemon, TLC
CONSTANTS r1, r2, m1, m2, v, s1, s2, user, none, nothing

PassSymmetry == Permutations({r1, r2}) \union Permutations({m1, m2})
=============================================================================
