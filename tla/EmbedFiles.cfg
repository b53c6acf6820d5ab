\* Two files, three requests of which two run at a time, one crash, one error,
\* two failures of a purge; one of the files has no text.
CONSTANTS
  Request = {r1, r2}
  File = {f1, f2}
  Type = {t1, t2}
  FileCap = 2
  Textless = {f2}
  Limit <- Three
SPECIFICATION Spec
SYMMETRY Symmetry
INVARIANT SearchIsTrue
INVARIANT NoOrphanPoints
INVARIANT UnsettledIsAhead
INVARIANT PurgeIsWhole
CHECK_DEADLOCK FALSE
