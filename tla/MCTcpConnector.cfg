SPECIFICATION ConnectorLiveSpec
CONSTANTS
  Connectors = {c1, c2, c3}
  Targets <- TargetSet
  Endpoints <- EndpointSet
INVARIANT ConnectorInv
PROPERTY ConnectPromise
PROPERTY ConnectEnds
CHECK_DEADLOCK FALSE
