------------------------------ MODULE MCClock -------------------------------
(* Restaurants and zones by the clock, the roads that quotes rest on, logins, *)
(* and the map of an order under way; a behaviour is about one of them.       *)
EXTENDS Shops, Zones, RoadQuotes, Login, Tracking

VARIABLE part

DayHours   == <<1, 2>>
NightHours == <<2, 1>>
OnlyDay    == {DayHours}
BothHours  == {DayHours, NightHours}
ZoneRings  == {<<0, 2>>, <<1, 3>>, <<2, 3>>}
Estimates  == [r \in Roads |-> IF r = "pin" THEN 1 ELSE 2]
TwoBands   == {[from |-> 0, to |-> 2, charge |-> 20], [from |-> 2, to |-> 4, charge |-> 30]}

(* The part that a behaviour is not about stays in one initial state.         *)
ClockInit ==
  /\ part \in {"shop", "zones", "roads", "login", "tracking"}
  /\ ShopInit /\ ZoneInit /\ QuoteInit /\ LoginInit /\ TrackInit
  /\ part # "shop" => hours = DayHours /\ Cardinality(crew) = 1 /\ shop.on /\ ~ regular
  /\ part # "login" => accounts["shop"] = NoAccount
  /\ part # "tracking" => spot = NoSpot

ClockNext ==
  /\ UNCHANGED part
  /\ \/ part = "shop" /\ ShopNext /\ UNCHANGED <<zoneVars, quoteVars, loginVars, trackVars>>
     \/ part = "zones" /\ ZoneNext /\ UNCHANGED <<shopVars, quoteVars, loginVars, trackVars>>
     \/ part = "roads" /\ QuoteNext /\ UNCHANGED <<shopVars, zoneVars, loginVars, trackVars>>
     \/ part = "login" /\ LoginNext /\ UNCHANGED <<shopVars, zoneVars, quoteVars, trackVars>>
     \/ part = "tracking" /\ TrackNext /\ UNCHANGED <<shopVars, zoneVars, quoteVars, loginVars>>

(* Pages are open in no other part, so that the fairness binds "tracking".    *)
ClockSpec ==
  ClockInit /\ [][ClockNext]_<<part, shopVars, zoneVars, quoteVars, loginVars, trackVars>> /\ TrackFair
=============================================================================
