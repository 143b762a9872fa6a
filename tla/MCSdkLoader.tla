----------------------------- MODULE MCSdkLoader -----------------------------
(* Small instances of SdkLoader for TLC. *)
EXTENDS SdkLoader, TLC

\* The files are interchangeable.
LoaderSymmetry == Permutations(Binaries)
=============================================================================
