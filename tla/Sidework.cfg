\* Three topics and two turns; a queue of two jobs; two streams and two publishers;
\* a form for two addresses, and two workers with a scheduler and one thread each.
SPECIFICATION FairSpec
CONSTANTS
  Turn = {t1, t2}
  Streamed = {t2}
  Topic = {p1, p2, p3}
  p1 = p1
  p2 = p2
  p3 = p3
  FirstTopic = p1
  Direct = {p3}
  a = a
  Slots <- OneEach
  MaxAttempts = 2
  NoTopic = NoTopic
  Field = {sentiment, intent}
  Places = 2
  MaxMessage = 3
  MaxRestart = 1
  Publisher = {q1, q2}
  Stream = {s1, s2}
  MaxEvent = 2
  MaxStray = 1
  Capacity = 1
  Faults = {"model", "store"}
  Process = {w1, w2}
  w1 = w1
  Form = {f1}
  f1 = f1
  ServedBy <- AtOne
  ListEntry = {g1, g2}
  Listed <- All
  Pool = 1
  Delay = 1
  Grace = 0
  MaxMinute = 1
  MaxStop = 1
INVARIANTS AlertsSound AsksWithinLimit FeedFaithful
PROPERTIES RouterComesBack LabelsSettle
CHECK_DEADLOCK FALSE
