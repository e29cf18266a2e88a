CONSTANT MaxSignals = 2
SPECIFICATION FairSpecNatsUp
INVARIANT TypeOK
INVARIANT RunningImpliesEnrolled
INVARIANT SingleBrokerClient
PROPERTY EventuallyRunning
PROPERTY LifecycleContract
CHECK_DEADLOCK FALSE
