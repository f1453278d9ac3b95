----------------------------- MODULE MCProviders -----------------------------
(* Instances of Providers for TLC.                                         *)
EXTENDS Providers, TLC

(* The environments differ: one of them is the default.                    *)
Symmetry == Permutations(Requests) \cup Permutations(Products)
=============================================================================
