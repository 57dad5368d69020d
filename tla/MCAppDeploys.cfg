CONSTANTS
  Deploys = {d1, d2}
  Deletes = {}
  Manifests <- Rollouts
  Teams = {"aura"}
  NoTeam = "none"
  Earlier = earlier
  MaxReplicas = 2
  MaxScalings = 1
  MaxForeign = 1
  MaxFaults = 0
SPECIFICATION Spec
SYMMETRY Symmetry
INVARIANTS TypeOK DeployedAppIsItsManifest FailuresHaveCauses
PROPERTIES ReplicasChangeOnlyByScaling
CHECK_DEADLOCK FALSE
