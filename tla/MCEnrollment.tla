---------------------------- MODULE MCEnrollment -----------------------------
(* Small instances of Enrollment for TLC. *)
EXTENDS Enrollment, TLC

Symmetry == Permutations(Calls) \cup Permutations(Tokens) \cup Permutations(Hosts)
==============================================================================
