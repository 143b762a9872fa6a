-------------------------- MODULE MCHostSession ---------------------------
(* Small instances of HostSession for TLC. *)
EXTENDS HostSession, TLC

\* Profiles are interchangeable.
ProfileSymmetry == Permutations(Profiles)
=============================================================================
