CONSTANTS
  Clients = {c1}
  MaxDeploys = 2
  Versions = {v0, v1}
  Earlier = v0
  NoVersion = none
  Application = app
  Namespace = default
  Capacity = 3
  MaxReplicas = 2
  MaxDisturbances = 1
SPECIFICATION Spec
INVARIANTS TypeOK RollingKeepsServing
PROPERTIES SuccessIsARollout FailedWaitsHaveCauses WaitsEnd
CHECK_DEADLOCK FALSE
