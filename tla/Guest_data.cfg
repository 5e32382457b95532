CONSTANTS
  ann = ann  bob = bob  r1 = r1  r2 = r2  j1 = j1  j2 = j2  a1 = a1  a2 = a2  z1 = z1
  Guests = {ann}
  Requests = {r1, r2}
  Jobs = {j1, j2}
  Asks = {a1}
  Zips = {z1}
  MaxNudges = 2
  MaxRequests = 3
  MaxCrashes = 1
  NoGuest = NoGuest
  NoAsk = NoAsk
SPECIFICATION FairSpec
INVARIANT TypeOK
PROPERTY AnswersStand
PROPERTY MatchingHolds
 
CHECK_DEADLOCK FALSE
