---------------------------- MODULE MCUserAdmin ----------------------------
(* An instance of UserAdmin: interchangeable users and requests. *)
EXTENDS UserAdmin, TLC

CONSTANTS u1, u2, u3, r1, r2, r3

Symmetries == Permutations({u1, u2, u3}) \cup Permutations({r1, r2, r3})

\* What UserAdmin promises ends with the first overlap, which is for good.
OneAtATime == ~overlap
=============================================================================
