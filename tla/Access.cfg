\* Accounts, sign-in, channel installs and tokens, and signing keys, one at a time.
SPECIFICATION AllSpec
CONSTANTS
  i1 = i1
  i2 = i2
  i3 = i3
  e1 = e1
  e2 = e2
  Person = {i1, i2, i3}
  Email = {e1, e2}
  EmailOf <- Mails
  AllowRelink = FALSE
  Bootstrap = e1
  Request = {r1, r2}
  MaxRequests = 4
  Nobody = Nobody
  Login = {l1, l2}
  Code = {c1, c2}
  Key = {k1, k2}
  Threshold = 2
  LockTime = 2
  StateTTL = 2
  CodeTTL = 1
  TokenTTL = 2
  EnvPassword = FALSE
  MaxTime = 3
  Account = {a1, a2}
  Chan = {n1, n2}
  Admin = {d1, d2, d3}
  NoChan = NoChan
  MaxEdit = 1
  Delivery = {v1, v2}
  Lifetime = 2
  MaxHour = 3
  MaxSave = 2
  MaxKill = 1
  MaxGrant = 2
  Inbound = {b1, b2}
  TTL = 2
  Cooldown = 1
  Interval = 2
  MaxKey = 2
  MaxClock = 6
  MaxCrash = 1
INVARIANTS SignInSound HookMatches
PROPERTIES AccountsSound TokensSound KeysSound
CHECK_DEADLOCK FALSE
