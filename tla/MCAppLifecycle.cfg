CONSTANTS
  Deploys = {d1}
  Deletes = {x1}
  Manifests <- Lifecycles
  Teams = {"aura"}
  NoTeam = "none"
  Earlier = earlier
  MaxReplicas = 2
  MaxScalings = 0
  MaxForeign = 0
  MaxFaults = 1
SPECIFICATION FairSpec
INVARIANTS DeletedAppIsGone DeployedAppIsItsManifest FailuresHaveCauses PodsHaveWhatTheyNeed
PROPERTIES DeletedDeploymentGoes SecretFollowsDeployment
CHECK_DEADLOCK FALSE
