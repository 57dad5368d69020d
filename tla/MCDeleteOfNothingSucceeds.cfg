CONSTANTS
  Deploys = {d1}
  Deletes = {x1}
  Manifests <- Everything
  Teams = {"aura"}
  NoTeam = "none"
  Earlier = earlier
  MaxReplicas = 2
  MaxScalings = 0
  MaxForeign = 0
  MaxFaults = 0
SPECIFICATION Spec
INVARIANT DeleteOfNothingSucceeds
CHECK_DEADLOCK FALSE
