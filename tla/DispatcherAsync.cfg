\* One event delivered again and again to an async or sync channel, with
\* every fault; requests end before their leases do.
CONSTANTS
  TTL = 2
  e1 = e1
  e2 = e2
  k1 = k1
  k2 = k2
  c1 = c1
  c2 = c2
  NoKey = NoKey
  Nobody = Nobody
  Request = {r1, r2}
  Event = {e1}
  Key = {k1}
  Channel = {c1}
  KeyOf <- OneEvent
  ChanOf <- OneChannel
  Kinds = {"message", "canned", "ignored", "malformed"}
  Modes = {"async", "sync"}
  Chunks = 2
  MaxInflight = 1
  MaxSend = 2
  Faults = {"crash", "send", "agent", "format", "channel", "lostAck", "signature"}
  Hold = 1
  MaxTime = 4
  MaxDeliveries = 3
SPECIFICATION Spec
SYMMETRY Symmetry
INVARIANT DoneMeansDelivered
INVARIANT NoGap
INVARIANT NoOrphanLease
PROPERTY HandlesAsLease
CHECK_DEADLOCK FALSE
