\* Without leader election: can anything send on signalChan once main's
\* deferred close has run?
CONSTANTS
  BackoffSteps = 10
  LeaderElection = FALSE
  MaxSignals = 1
SPECIFICATION Spec
INVARIANT NoSendOnClosedChannel
CHECK_DEADLOCK FALSE
