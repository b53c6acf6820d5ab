\* A bot with one topic; turns that do not stream, and nothing fails.
SPECIFICATION Spec
CONSTANTS
  p1 = p1
  a = a
  Turn = {t1}
  Topic = {p1}
  FirstTopic = p1
  Direct = {}
  Slots <- OneOnly
  MaxAttempts = 3
  Streamed = {}
  Faults = {}
  NoTopic = NoTopic
INVARIANT LimitHolds
CHECK_DEADLOCK FALSE
