SPECIFICATION Spec
CONSTANTS
  Cases <- ServerCases
  MaxToken = 9
INVARIANT HeaderIsInBuffer
