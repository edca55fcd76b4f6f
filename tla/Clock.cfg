SPECIFICATION ClockSpec
CONSTANTS
  Slots = 3
  Days = 2
  HoursChoices <- BothHours
  Crews = {{t1}, {t1, t2}}
  NoDate = NoDate
  NoRow = NoRow
  ZoneIds = {1, 2}
  Rings <- ZoneRings
  ZoneHours <- BothHours
  ZoneDays = 2
  Always = Always
  NoZone = NoZone
  Unsent = Unsent
  Kilometres = {1, 3, 5}
  Straight <- Estimates
  ChargeBands <- TwoBands
  CacheDays = 2
  LastDay = 5
  NoEntry = NoEntry
  NoCharge = NoCharge
  Phones = {"owner", "shop"}
  OwnerPhone = "owner"
  ShopPhone = "shop"
  CodeLife = 2
  LastMinute = 3
  MaxCodes = 2
  NoAccount = NoAccount
  NoTask = NoTask
  Spots = {1, 2}
  NoSpot = NoSpot
  Nothing = Nothing
  Sockets = {k1}
  MaxPings = 1
CHECK_DEADLOCK FALSE
INVARIANTS AroundTheClockQuotes QuoteIsCharged
PROPERTIES KeepsHours EdgesOnce SessionsAreEarned MapCatchesUp
