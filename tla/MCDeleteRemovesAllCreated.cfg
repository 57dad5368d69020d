CONSTANTS
  Deploys = {d1}
  Deletes = {x1}
  Manifests <- Everything
  Teams = {"aura"}
  NoTeam = "none"
  Earlier = earlier
  MaxReplicas = 2
  MaxScalings = 0
  MaxForeign = 0
  MaxFaults = 0
SPECIFICATION Spec
INVARIANT DeleteRemovesAllCreated
CHECK_DEADLOCK FALSE
