\* A site with a cycle and redirects, three pages allowed, two at a time; pages
\* fail, admins pause, resume, cancel and delete, the process crashes.
CONSTANTS
  a = a
  b = b
  c = c
  d = d
  f1 = f1
  f2 = f2
  Page = {a, b, c, d}
  Seed = a
  File = {f1, f2}
  Links <- Diamond
  FileOf <- Redirected
  MaxPages = 3
  MaxDepth = 2
  Concurrency = 2
  Faults = {"crash", "unfit", "raise"}
  MaxEvents = 2
SPECIFICATION FairSpec
INVARIANT CountersFollow
INVARIANT NoPageLeftBehind
PROPERTY SettledStays
PROPERTY RunsEnd
CHECK_DEADLOCK FALSE
