CONSTANTS
  r1 = r1  r2 = r2  t1 = t1  t2 = t2  t3 = t3  t4 = t4  t5 = t5  i1 = i1  i2 = i2  l1 = l1  l2 = l2
  Requests = {r1}
  Tokens = {t1, t2, t3, t4, t5}
  Invites = {i1}
  Links = {l1}
  NoToken = NoToken
  NoInvite = NoInvite
  NoLink = NoLink
  Ttl = 2
  LongTtl = 3
  Cap = 3
  LongCap = 3
  VerifyTtl = 1
  ResetTtl = 0
  MaxAttempts = 2
  MaxTime = 4
  MaxRequests = 5
  MaxCrashes = 0
SPECIFICATION Spec
INVARIANT SessionEndsWithinCap
CHECK_DEADLOCK FALSE
