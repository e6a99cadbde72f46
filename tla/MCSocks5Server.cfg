SPECIFICATION SocksLiveSpec
CONSTANT BufferSize = 24
CONSTANT Hellos <- MCHellos
CONSTANT Targets <- MCTargets
CONSTANT Malformed <- MCMalformed
INVARIANT SocksFlowInv
INVARIANT TargetAsAsked
PROPERTY GoodClientNotRefused
PROPERTY SocksOpenAnswered
