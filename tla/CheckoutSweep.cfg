SPECIFICATION Spec
CONSTANTS
  MaxOrders = 2
  Attempts = {a1, a2}
  Elsewhere = {}
  Threads = {t1, t2}
  NoAttempt = NoAttempt
INVARIANT PaidStays
