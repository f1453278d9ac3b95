---------------------------- MODULE MCFulfillment ----------------------------
(* Instances of Fulfillment for TLC: one customer, or one for each session. *)
EXTENDS Fulfillment, TLC

CONSTANTS c1

OneCustomer == [s \in Sessions |-> c1]

Symmetry == Permutations(Sessions) \cup Permutations(Workers)
              \cup Permutations(LicenseIds)

(* What was dropped is told by the liveness properties alone; no action and no *)
(* safety property reads it, so states that differ in it count as one.         *)
Undropped == <<order, ver, holder, license, sent, answered, fails, pc, locals>>
=============================================================================
