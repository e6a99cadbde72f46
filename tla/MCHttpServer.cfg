SPECIFICATION HttpLiveSpec
INVARIANT HttpFlowInv
INVARIANT AssertionsHold
INVARIANT RequestFirst
PROPERTY HttpOpenAnswered
