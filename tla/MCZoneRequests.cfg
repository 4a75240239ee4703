CONSTANTS
  RNames <- MCNames
  RAncestors <- MCAncestors
  RFile <- MCFile
  RRequests <- MCRequests
  RScenarios <- MCScenarios
  RMaxClock = 2
  RValidity = 1
  RRefresh = 1
  SgKeys <- MCKeys
  SgSignatures <- MCSignatures
  SgMaxKeys = 2
  SgMaxSigs = 2
  DVersions = 3
  DNames <- MCDNames
  DContent <- MCDContent
  DSize <- MCDSize
  DRequests <- MCDRequests
  DAcl <- MCDAcl
  DMax <- MCDMax
  SignEvery = 2
  HsmRepos <- MCHsmRepos
  HsmThreads = {"t", "u"}
  HsmIds = {1, 2, 3, 4}
  HsmTokens <- MCHsmTokens
  HsmScenarios <- MCHsmScenarios
SPECIFICATION ZoneSpec
INVARIANT RequestsReplace
CHECK_DEADLOCK FALSE
