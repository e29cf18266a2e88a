CONSTANT MaxSignals = 1
SPECIFICATION FairSpecNatsUp
INVARIANT NoEnrollWithoutAssertions
CHECK_DEADLOCK FALSE
