SPECIFICATION Spec
CONSTANTS
  Cases <- MCCases
  MaxToken = 7
INVARIANTS TokensAsSent StreamAsWanted
