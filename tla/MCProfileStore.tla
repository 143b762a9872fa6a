--------------------------- MODULE MCProfileStore ---------------------------
(* Small instances of ProfileStore for TLC. *)
EXTENDS ProfileStore, TLC

\* Processes, record names and keys are interchangeable.
StoreSymmetry == Permutations(Hosts) \cup Permutations(Records) \cup Permutations(Keys)
=============================================================================
