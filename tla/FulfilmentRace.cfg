SPECIFICATION Spec
CONSTANTS
  Orders = {o1}
  Riders = {r1, r2}
  Threads = {t1, t2}
  MultiRiders = {}
  Prepayments = {{}, {o1}}
  NoOrder = NoOrder
  NoRider = NoRider
INVARIANTS
  TypeOK
  StagesInOrder
  CarrierWasOffered
  EarningsOnlyWhenPaid
  CashOnlyFromDelivery
PROPERTIES
  SettledIsFinal
  LedgersImplemented
SYMMETRY Symmetry
