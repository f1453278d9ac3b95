------------------------------- MODULE MCChat -------------------------------
(* Instances of Chat for TLC.                                              *)
EXTENDS Chat, TLC

Symmetry == Permutations(Users) \cup Permutations(Names) \cup Permutations(Convs)
              \cup Permutations(Msgs) \cup Permutations(Requests)
=============================================================================
