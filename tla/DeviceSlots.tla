----------------------------- MODULE DeviceSlots -----------------------------
(***************************************************************************)
(* What the store promises about device slots, with no handler in sight:   *)
(* a license has a number of slots, taking one is a single step, and a     *)
(* slot that is taken is given back only by an explicit release.           *)
(* Activation.tla is shown to implement this.                              *)
(***************************************************************************)
EXTENDS Naturals, FiniteSets

CONSTANTS Licenses, Machines

VARIABLES cap,   \* cap[l]: the slots of license l, 0 while there is no license
          acts   \* acts[l]: the machines that hold a slot of l

slotVars == <<cap, acts>>

Init == /\ cap = [l \in Licenses |-> 0]
        /\ acts = [l \in Licenses |-> {}]

(* A purchase grants slots: to a new license or on top of an old one.      *)
Grant(l) == /\ cap'[l] \in Nat /\ cap'[l] > cap[l]
            /\ cap' = [cap EXCEPT ![l] = cap'[l]]
            /\ UNCHANGED acts

(* A machine takes a free slot.                                            *)
Take(l, m) == /\ m \notin acts[l]
              /\ Cardinality(acts[l]) < cap[l]
              /\ acts' = [acts EXCEPT ![l] = @ \cup {m}]
              /\ UNCHANGED cap

(* One machine gives its slot back.                                        *)
Release(l, m) == /\ m \in acts[l]
                 /\ acts' = [acts EXCEPT ![l] = @ \ {m}]
                 /\ UNCHANGED cap

(* The license goes, with all its slots.                                   *)
Withdraw(l) == /\ cap' = [cap EXCEPT ![l] = 0]
               /\ acts' = [acts EXCEPT ![l] = {}]

Next == \E l \in Licenses :
           \/ Grant(l)
           \/ Withdraw(l)
           \/ \E m \in Machines : Take(l, m) \/ Release(l, m)

Spec == Init /\ [][Next]_slotVars
=============================================================================
