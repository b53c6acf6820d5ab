\* Two channels compete for one place in the background; the agent, sends and
\* formatting fail, the process lives.
CONSTANTS
  TTL = 2
  e1 = e1
  e2 = e2
  k1 = k1
  k2 = k2
  c1 = c1
  c2 = c2
  NoKey = NoKey
  Nobody = Nobody
  Request = {r1, r2}
  Event = {e1, e2}
  Key = {k1, k2}
  Channel = {c1, c2}
  KeyOf <- OwnKeyEach
  ChanOf <- OwnChannelEach
  Kinds = {"message", "ignored", "malformed"}
  Modes = {"async", "sync", "timed"}
  Chunks = 1
  MaxInflight = 1
  MaxSend = 1
  Faults = {"send", "agent", "format", "signature"}
  Hold = 1
  MaxTime = 2
  MaxDeliveries = 2
SPECIFICATION FairSpec
INVARIANT InflightExact
INVARIANT NoOrphanLease
INVARIANT AnsweredOnce
PROPERTY PlacesComeBack
CHECK_DEADLOCK FALSE
