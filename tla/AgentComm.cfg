CONSTANTS
  Callers = {c1, c2}
  Addressees = {"dhcp", "named"}
  MaxAgentFaults = 1
SPECIFICATION AgentCommSpec
INVARIANTS AnswersAreTrue AnnouncedIsFailing
PROPERTIES RecoveryIsAnnounced
CHECK_DEADLOCK FALSE
