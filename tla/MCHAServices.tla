---------------------------- MODULE MCHAServices ----------------------------
(***************************************************************************)
(* HAServices for TLC and for the proofs, under names that other parts of  *)
(* the server do not use.                                                  *)
(***************************************************************************)
EXTENDS Naturals

CONSTANTS Primary, Secondary, Unmonitored, MaxServerChanges

VARIABLES servers, monitored, configured, activeServers, services, update, pull, serverChanges

H == INSTANCE HAServices WITH
  kea <- servers, stored <- configured, active <- activeServers, changes <- serverChanges,
  MaxChanges <- MaxServerChanges

ASSUME HAServicesAssumption == H!ServersAssumption

HAServicesSpec == H!FairSpec

\* The relationship never has two services, as HAServices says.
OneService == H!OneService

\* In the end users are shown the truth, as HAServices says.
Converges == H!Converges
=============================================================================
