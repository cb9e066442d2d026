------------------------- MODULE MCProfileLifecycle -------------------------
(* ProfileLifecycle with two profiles, three clicks, two crashes, one lost call. *)
EXTENDS ProfileLifecycle, TLC

Symmetry == Permutations(Profile)
=============================================================================
