\* The agent fails and retries overlap; there is room for every task.
CONSTANTS
  TTL = 2
  e1 = e1
  e2 = e2
  k1 = k1
  k2 = k2
  c1 = c1
  c2 = c2
  NoKey = NoKey
  Nobody = Nobody
  Request = {r1, r2}
  Event = {e1, e2}
  Key = {k1, k2}
  Channel = {c1, c2}
  KeyOf <- OneKeyless
  ChanOf <- OwnChannelEach
  Kinds = {"message"}
  Modes = {"async", "timed"}
  Chunks = 2
  MaxInflight = 2
  MaxSend = 1
  Faults = {"agent", "signature"}
  Hold = 1
  MaxTime = 2
  MaxDeliveries = 2
SPECIFICATION FairSpec
PROPERTY AckedIsAnswered
CHECK_DEADLOCK FALSE
