CONSTANTS
  r1 = r1  r2 = r2  q1 = q1  q2 = q2  desk = desk  e1 = e1  e2 = e2
  Requests = {r1, r2}
  Quotes = {q1, q2}
  Events = {desk, e1, e2}
  Desk = desk
  NoQuote = NoQuote
  NoEvent = NoEvent
  Prices = {3}
  Discounts = {0, 1}
  Amounts = {1, 4}
  Names = {"A", "B"}
  Questions = {"x", "y"}
  Budgets <- MCBudgets
SPECIFICATION Spec
 
INVARIANT PaymentsAddUp
 
PROPERTY ClientPapersStand
CHECK_DEADLOCK FALSE
