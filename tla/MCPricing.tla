----------------------------- MODULE MCPricing -----------------------------
(* Small instances of Pricing for TLC: one app for sale, one that only     *)
(* discounts name; half price and a little off for the app, a fixed        *)
(* discount above the price for the store.                                 *)
EXTENDS Pricing, TLC

CONSTANTS a1, a2

MCOffers == {[scope |-> a1, kind |-> "percent", value |-> 50],
             [scope |-> a1, kind |-> "fixed", value |-> 2],
             [scope |-> None, kind |-> "fixed", value |-> 7],
             [scope |-> a2, kind |-> "fixed", value |-> 1]}
MCPrices == {0, 5}

(* For counting, what a discount takes off does not matter.                *)
OneOffer == {[scope |-> None, kind |-> "fixed", value |-> 1]}
OnePrice == {5}

Symmetry == Permutations(Autos) \cup Permutations(Checkouts)
=============================================================================
