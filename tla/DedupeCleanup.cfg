\* Deliveries may outlive their lease by a tick, and somebody runs cleanup,
\* with a retention that is twice the longest delivery.
CONSTANTS
  Worker = {w1, w2, w3}
  Event = {e1}
  Nobody = Nobody
  TTL = 1
  Retention = 4
  Hold = 2
  CleanupOn = TRUE
  MaxTime = 6
  MaxDeliveries = 4
SPECIFICATION Spec
SYMMETRY Symmetry
INVARIANT OneWinnerPerAttempt
PROPERTY LiveLeaseSurvivesCleanup
CHECK_DEADLOCK FALSE
