CONSTANTS
  r1 = r1  r2 = r2  t1 = t1  t2 = t2  t3 = t3  t4 = t4  t5 = t5  i1 = i1  i2 = i2  l1 = l1  l2 = l2
  Requests = {r1, r2}
  Tokens = {t1, t2, t3}
  Invites = {i1, i2}
  Links = {l1, l2}
  NoToken = NoToken
  NoInvite = NoInvite
  NoLink = NoLink
  Ttl = 1
  LongTtl = 2
  Cap = 1
  LongCap = 2
  VerifyTtl = 1
  ResetTtl = 0
  MaxAttempts = 2
  MaxTime = 2
  MaxRequests = 4
  MaxCrashes = 1
SPECIFICATION Spec
INVARIANT TypeOK
PROPERTY EndedSessionsStayOut
PROPERTY LockoutHolds
PROPERTY LinksWorkOnce
PROPERTY MembersWereInvited
CHECK_DEADLOCK FALSE
