-------------------------- MODULE MCZoneInventory --------------------------
(* Small instances of ZoneInventory for TLC. *)
EXTENDS ZoneInventory, TLC

Symmetry == Permutations(Calls) \cup Permutations(Zones)
=============================================================================
