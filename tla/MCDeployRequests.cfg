CONSTANTS
  Pods = {p1}
  Requests = {r1, r2}
  Events = {r1, r2}
  NoEvent = NoEvent
  Capacity = 2
  Jobs <- Everything
  Aliases = {"truststore", "db", "api", "ws"}
  Defaults = {"truststore"}
  Catalogues <- MCCatalogues
  NoJob = NoJob
  Earlier = earlier
  MaxFaults = 1
  MaxCrashes = 1
SPECIFICATION Spec
SYMMETRY Symmetry
INVARIANTS TypeOK RejectedRequestsChangeNothing EachSystemFollowsTheLast InstancesNameTheirResources LoneDeployIsCurrent TopicKeepsOrder
PROPERTIES ClassesAreLostOnlyToMissedLookups
CHECK_DEADLOCK FALSE
