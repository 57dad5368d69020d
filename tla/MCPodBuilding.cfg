CONSTANTS
  Words <- AllWords
  LowerCase <- Lower
  UpperCase <- Upper
  Password <- Pass
  Properties <- AppProperties
  Second = 2
  Width = 9
  Situations <- AllSituations
  Times = {0, 4, 5, 8, 9, 13}
  MaxFaults = 1
SPECIFICATION Spec
INVARIANTS TypeOK UploadedManifestIsUsed EndsHaveCauses VariablesMeanOneThing
           SecretHoldsWhatPodsRead DeveloperSeesWhatPodsSee EventTimeIsClose EventTellsWhatRuns
CHECK_DEADLOCK FALSE
