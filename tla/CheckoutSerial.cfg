SPECIFICATION FairSpec
CONSTANTS
  MaxOrders = 2
  Attempts = {a1, a2}
  Elsewhere = {e}
  Threads = {t1}
  NoAttempt = NoAttempt
INVARIANTS
  PaidStays
  LatestSurvives
  AlertedOnce
PROPERTIES
  CapturedGetsPaid
