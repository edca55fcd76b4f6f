SPECIFICATION MoneySpec
CONSTANTS
  Codes = {p1, p2}
  Offers <- PromoOffers
  Caps = {0, 1}
  Carts <- PromoCarts
  Customers = {u1, u2}
  NoScope = NoScope
  NoPromo = NoPromo
  MaxOrders = 2
  Bills <- DoorBills
  Platforms = {2, 9, 99}
  Parts = {40, 73}
  s1 = s1
  s2 = s2
  Stores = {s1, s2}
  Goods <- StoreGoods
  Fees = 2
  FlatOff = 4
  MaxTries = 2
  PlacedUnder <- DoorSettings
  Off = {0, 5}
  MaxLinks = 2
  CashOrders = {c1, c2}
  Desks = {d1, d2}
  MaxRemits = 3
  LegacyEarned = 3
  Amounts = {1, 3, 4}
  MaxRows = 3
  ShopNames <- AllShops
  Subs = {"sub1", "sub2"}
  NoSub = NoSub
  Labels = {"Regular", "Full", "Half"}
  NoLabel = NoLabel
  Dishes = {"d1 ", "d3"}
  SizeLists <- AdminSizes
  VegMarks = {FALSE}
  PortalPrices = {3000}
  MaxItems = 2
  MaxEdits = 2
  MenuOf <- ScriptRows
  Respelt = "Vinayak Hotel and Restaurant"
  LowerOf <- Lowered
  NormalOf <- Normal
SYMMETRY Alike
CHECK_DEADLOCK FALSE
INVARIANTS OfferIsCharged MenuIsOrderable UsesWithinLimit OncePerMobile OnlineWasPaid BillAddsUp BooksAgree RefundsAddUp StoresEarnTheirShare
PROPERTIES SyncSettles CashClearedOnce PaysNewestAccount RiderTakesEveryStore
