---------------------------- MODULE MCInventory ----------------------------
(***************************************************************************)
(* Inventory up to renaming: no definition tells two ids, names or regions *)
(* apart.                                                                  *)
(***************************************************************************)
EXTENDS Inventory, TLC

Symmetric == Permutations(Datacenters) \cup Permutations(Servers)
                \cup Permutations(Names) \cup Permutations(Regions)
=============================================================================
