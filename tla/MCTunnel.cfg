SPECIFICATION Spec
CONSTANT MaxChunks = 2
INVARIANT IInv
INVARIANT AssertionsHold
INVARIANT NoCallbackOutlivesTunnel
INVARIANT HalfCloseAfterData
INVARIANT Guarded
PROPERTY RelaySpec
PROPERTY Lifecycles
PROPERTY EofsPass
PROPERTY StalledTunnelReleased
