SPECIFICATION Spec
CONSTANTS
  Requests = {r1, r2, r3, r4}
  Plans <- MCPlans
  Price <- MCPrice
  Quota <- MCQuota
  AiCost <- MCAiCost
  PlanDays = 0
  GrantDays = {}
  Settings <- MCSettings
  Credits = 1
  MaxDay = 2
  MaxRows = 3
  MaxPhotos = 1
  NoPlan = NoPlan
  NoWallet = NoWallet
SYMMETRY Symmetry
INVARIANT SubscriptionInv
INVARIANT LedgerAddsUp
PROPERTY LapsesOnlyWhenDue
CHECK_DEADLOCK FALSE
