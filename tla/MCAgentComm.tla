----------------------------- MODULE MCAgentComm -----------------------------
(***************************************************************************)
(* AgentComm for TLC and for the proofs, under names that other parts of   *)
(* the server do not use.                                                  *)
(***************************************************************************)
EXTENDS Naturals

CONSTANTS Callers, Addressees, MaxAgentFaults

VARIABLES
  up, agentFaults, current, conn, proc, caller, failing, announced, stop, replaced, crashed

C == INSTANCE AgentComm WITH faults <- agentFaults, MaxFaults <- MaxAgentFaults

ASSUME AgentCommAssumption == C!AgentAssumption

AgentCommSpec == C!FairSpec

\* Every request that the loop takes is answered, and callers find the first command that
\* failed, as AgentComm says.
AnswersAreTrue == C!AnswersAreTrue

\* What was announced as failed is failing, as AgentComm says.
AnnouncedIsFailing == C!AnnouncedIsFailing

\* A recovery is announced in the end, as AgentComm says.
RecoveryIsAnnounced == C!RecoveryIsAnnounced
=============================================================================
