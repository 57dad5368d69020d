CONSTANTS
  Pods = {p1}
  Requests = {r1}
  Events = {r1}
  NoEvent = NoEvent
  Capacity = 1
  Jobs <- Consumers
  Aliases = {"truststore", "db", "api", "ws"}
  Defaults = {"truststore"}
  Catalogues <- MCCatalogues
  NoJob = NoJob
  Earlier = earlier
  MaxFaults = 1
  MaxCrashes = 0
SPECIFICATION Spec
INVARIANT MissedBalancersAreWarnedAbout
CHECK_DEADLOCK FALSE
