CONSTANT MaxSignals = 1
SPECIFICATION FairSpecNatsUp
INVARIANT DeviceDataStored
CHECK_DEADLOCK FALSE
