CONSTANTS
  Pods = {p1}
  Requests = {r1, r2}
  Events = {r1, r2}
  NoEvent = NoEvent
  Capacity = 1
  Jobs <- Simple
  Aliases = {"truststore", "db", "api", "ws"}
  Defaults = {"truststore"}
  Catalogues <- MCCatalogues
  NoJob = NoJob
  Earlier = earlier
  MaxFaults = 1
  MaxCrashes = 1
SPECIFICATION FairSpec
PROPERTIES ReportsGetOut
CHECK_DEADLOCK FALSE
