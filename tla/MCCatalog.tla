------------------------------ MODULE MCCatalog ------------------------------
(* Instances of Catalog for TLC.                                           *)
EXTENDS Catalog, TLC

Symmetry == Permutations(Requests) \cup Permutations(Apps)
              \cup Permutations(Bundles)

(* Nothing for sale: Apps and Bundles are empty.                           *)
ByRequest == Permutations(Requests) \cup Permutations(Projects)
               \cup Permutations(Images)

(* No action and no property reads which texts there are, so states that       *)
(* differ in them count as one.                                                *)
Textless == <<proj, app, sold, gallery, files, shot, lent, job>>
=============================================================================
