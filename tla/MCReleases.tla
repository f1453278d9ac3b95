----------------------------- MODULE MCReleases -----------------------------
(* Instances of Releases for TLC.                                          *)
EXTENDS Releases, TLC

Symmetry == Permutations(Requests) \cup Permutations(Apps) \cup Permutations(Files)
=============================================================================
