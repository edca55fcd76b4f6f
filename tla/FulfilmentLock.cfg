SPECIFICATION Spec
CONSTANTS
  Orders = {o1}
  Riders = {r1, r2}
  Threads = {t1, t2}
  MultiRiders = {}
  Prepayments = {{}}
  NoOrder = NoOrder
  NoRider = NoRider
INVARIANT ExclusiveLock
