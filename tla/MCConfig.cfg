CONSTANTS
  Repositories = {"SoftHSM"}
  KaspDocs <- MCKaspDocs
  ZlNames = {"a", "b"}
  ZlPolicies = {"p", "q"}
  ZlLists <- MCZlLists
  ZlClients = {1, 2}
  ZlBounds <- MCZlBounds
  ChMaxLine = 6
  ChCommands = {0, 2, 3, 5, 7}
  ChPrints = {1, 3, 4, 7}
  ChOutputs = 2
  ChTurns = 2
SPECIFICATION ConfigSpec
INVARIANTS PoliciesAgree ZonesAgree ChannelSound
CHECK_DEADLOCK FALSE
