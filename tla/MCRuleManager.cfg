SPECIFICATION LiveSpec
CONSTANTS
  Sessions = {s1, s2}
  Hosts <- HostSet
  RuleLists <- Lists
  Answered <- Known
  CountryOf <- Country
INVARIANT WalkInv
INVARIANT FirstRuleThatHolds
PROPERTY MatchPromise
PROPERTY WalkEnds
CHECK_DEADLOCK FALSE
