CONSTANTS
  Requests = {r1, r2, r3}
  Teams <- MCTeams
  Apps <- MCApps
  Namespaces <- MCNamespaces
  AlertSets <- MCAlertSets
  NoGroup = NoGroup
  NoJob = NoJob
  MaxFaults = 1
SPECIFICATION Spec
SYMMETRY Symmetry
INVARIANTS TypeOK CopiesAreFresh AlertsStayAsDeployed
PROPERTIES EntriesChangeOnlyByTheirOwn ImplementsRuleBook
CHECK_DEADLOCK FALSE
