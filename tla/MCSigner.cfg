CONSTANTS
  Serials = 8
  FirstSerials = {7}
  MaxParts = 2
  MaxUnread = 2
  MaxTime = 2
  XfrOptions <- MCXfrOptions
  XfrZones = {za, zb, zc}
  TcpMax = 1
  UdpMax = 1
  MaxRounds = 1
  Masters = 2
  SysOutcomes <- MCSysOutcomes
  NotifyZones = {na, nb, nc}
  Secondaries = 2
  NotifyMax = 2
  NotifyRetry = 2
  Reenables = {TRUE, FALSE}
  TaskWorkers = {w1, w2}
  Clients = {1, 2}
  TaskSerials = 6
  TaskClock = 3
  TaskOptions <- MCTaskOptions
  PinAskers = {"enforcer", "hsmutil"}
  PinCheckers = {"signer"}
  Pins = {1, 2}
  PinTries = 3
  PinBounds <- MCPinBounds
SPECIFICATION SignerSpec
INVARIANTS XfrdSound NotifySound TasksSound PinSound
PROPERTY SerialIncreases
CHECK_DEADLOCK FALSE
