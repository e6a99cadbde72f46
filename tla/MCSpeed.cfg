SPECIFICATION SpeedLiveSpec
CONSTANT Branches = {b1, b2, b3}
INVARIANT SpeedIInv
INVARIANT RaceSafe
PROPERTY RaceEnds
PROPERTY RaceSpec
