---------------------------- MODULE MCKeaChanges ----------------------------
(***************************************************************************)
(* KeaChanges for TLC and for the proofs, under names that other parts of  *)
(* the server do not use.                                                  *)
(***************************************************************************)
EXTENDS Naturals, TLC

CONSTANTS KeaDaemons, Order, Reloaded, Nets, Submitters, Topics, MaxContents, MaxRows, MaxKeaFaults

VARIABLES topic, kea, db, knownConfigs, heldLocks, txn, pulled, contents, keaFaults, had

K == INSTANCE KeaChanges WITH
  Daemons <- KeaDaemons, Users <- Submitters, MaxChanges <- MaxContents, MaxFaults <- MaxKeaFaults,
  locks <- heldLocks, seen <- knownConfigs, pull <- pulled, changes <- contents, faults <- keaFaults

ASSUME KeaChangesAssumption == K!ChangesAssumption

KeaChangesSpec == K!Spec

\* The database claims of a daemon only what it has had, as KeaChanges says.
NothingClaimedEarly == K!NothingClaimedEarly

\* A change that ends well is everywhere, as KeaChanges says.
SuccessAgrees == K!SuccessAgrees

-----------------------------------------------------------------------------
\* A daemon of version 2.6.0 or newer and an older one.
MCOrder == <<"kea26", "kea24">>
MCReloaded == {"kea24"}

MCTopics == {"subnet", "subnet_in_network", "shared_network", "host", "global_parameters"}
MCMaxFaults == [t \in MCTopics |-> IF t = "subnet_in_network" THEN 0 ELSE 1]
MCSymmetry == Permutations(Submitters)

=============================================================================
