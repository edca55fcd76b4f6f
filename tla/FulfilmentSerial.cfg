SPECIFICATION Spec
CONSTANTS
  Orders = {o1, o2}
  Riders = {r1, r2}
  Threads = {t1}
  MultiRiders = {r2}
  Prepayments = {{o1}}
  NoOrder = NoOrder
  NoRider = NoRider
INVARIANTS
  ExclusiveLock
  OneActiveOrder
  WalletAddsUp
  EarnerIsCarrier
  CancellationIsClean
