\* One request and a crash: what is left in pending or embedding?
CONSTANTS
  Request = {r1}
  File = {f1}
  Type = {t1}
  FileCap = 1
  Textless = {}
  Limit <- OneCrash
SPECIFICATION FairSpec
PROPERTY SelfHeals
CHECK_DEADLOCK FALSE
