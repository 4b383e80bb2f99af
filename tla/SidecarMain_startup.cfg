\* Sidecar start-up with leader election, the ensureCRDExist retry of the
\* code (10 steps) and one termination signal from the OS.  A sidecar that
\* runs, or waits for leadership, until a signal that never comes is a real
\* resting state, so deadlock is not checked.
CONSTANTS
  BackoffSteps = 10
  LeaderElection = TRUE
  MaxSignals = 1
SPECIFICATION Spec
INVARIANT SidecarTypeOK
PROPERTY FailureStopsProcess
CHECK_DEADLOCK FALSE
