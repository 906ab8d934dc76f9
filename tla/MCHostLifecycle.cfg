SPECIFICATION Spec
CONSTANTS
  Commands = {"enable", "disable", "start", "stop", "restart", "reset"}
  MaxCommands = 2
  MaxFaults = 1
INVARIANTS
  HostInv
PROPERTIES
  StopIsRespected
  GatewayComesBack
CHECK_DEADLOCK FALSE
