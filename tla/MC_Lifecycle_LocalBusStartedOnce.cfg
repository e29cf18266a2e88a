CONSTANT MaxSignals = 1
SPECIFICATION FairSpecNatsUp
INVARIANT LocalBusStartedOnce
CHECK_DEADLOCK FALSE
