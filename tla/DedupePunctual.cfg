\* Deliveries end before their lease does, nobody runs cleanup.
CONSTANTS
  Worker = {w1, w2, w3}
  Event = {e1}
  Nobody = Nobody
  TTL = 2
  Retention = 9
  Hold = 1
  CleanupOn = FALSE
  MaxTime = 4
  MaxDeliveries = 3
SPECIFICATION Spec
INVARIANT TypeOK
INVARIANT ExclusiveHolder
PROPERTY DoneIsFinal
PROPERTY DropIsJustified
PROPERTY ImplementsLease
CHECK_DEADLOCK FALSE
