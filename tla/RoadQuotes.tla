----------------------------- MODULE RoadQuotes -----------------------------
(***************************************************************************)
(* The delivery charge a menu page quotes to one address, and the one an    *)
(* order to that address is charged. Both follow from two road distances,   *)
(* from the town's centre and from the restaurant's pin, that core/maps.py  *)
(* asks Google for and keeps for CacheDays. Requests come one at a time: two *)
(* that miss the cache together both ask, and the later answer is kept.     *)
(***************************************************************************)
EXTENDS Integers, FiniteSets

CONSTANTS
  Kilometres,     \* the distances Google may answer, never the same for sure
  Straight,       \* the estimate from the straight line, per road
  ChargeBands,    \* the zones: records [from, to, charge]
  CacheDays,      \* CACHE_TTL_DAYS
  LastDay,        \* bound on the days of a behaviour
  NoEntry,        \* the road is not in road_distance_cache
  NoCharge        \* no zone covers the distance, or nothing was quoted

ASSUME QuoteAssumption ==
  /\ CacheDays \in Nat /\ LastDay \in Nat
  /\ \A km \in Kilometres, day \in 0..LastDay : NoEntry # [km |-> km, since |-> day]

Roads == {"centre", "pin"}

VARIABLES
  roadDay,        \* today
  cache,          \* road_distance_cache: [km, since] of each road
  answered,       \* for the property: the day Google last answered for a road
  quote,          \* what the menu page showed last: [charge, sure, roads]
  charged         \* for the property: the last order's charge and its quote

quoteVars == <<roadDay, cache, answered, quote, charged>>

NoQuote == [charge |-> NoCharge, sure |-> FALSE, since |-> 0]
Unplaced == [charge |-> NoCharge, quote |-> NoQuote, on |-> 0]

QuoteInit ==
  /\ roadDay = 0
  /\ cache = [r \in Roads |-> NoEntry]
  /\ answered = [r \in Roads |-> 0]
  /\ quote = NoQuote /\ charged = Unplaced

(* A request's view: the cache, the days of Google's answers, the distances   *)
(* read so far, and whether each of them is Google's.                         *)
Asked(s, r, km, sure) ==
  [s EXCEPT !.km = [x \in Roads |-> IF x = r THEN km ELSE s.km[x]],
            !.sure = [x \in Roads |-> IF x = r THEN sure ELSE s.sure[x]]]

(* _cache_lookup.                                                             *)
Fresh(entry, day) == entry # NoEntry /\ day - entry.since <= CacheDays

(* Mutant of Stored: an expired entry is overwritten but keeps its day.       *)
StoredOver(entry, km, day) ==
  [km |-> km, since |-> IF entry = NoEntry THEN day ELSE entry.since]

(* _cache_store.                                                              *)
Stored(entry, km, day) == [km |-> km, since |-> day]

(* road_distance: from the cache, or from Google, or estimated where Google   *)
(* gives no answer.                                                           *)
RoadDistance(s, r) ==
  IF Fresh(s.cache[r], roadDay) THEN {Asked(s, r, s.cache[r].km, TRUE)}
  ELSE {Asked(s, r, Straight[r], FALSE)} \cup
       {LET entry == Stored(s.cache[r], km, roadDay)
        IN  [Asked(s, r, km, TRUE) EXCEPT !.cache[r] = entry, !.answered[r] = roadDay] :
          km \in Kilometres}

(* delivery_charge_for_distance; the bands do not overlap.                    *)
ChargeFor(km) ==
  LET bands == {b \in ChargeBands : b.from <= km /\ km < b.to}
  IN  IF bands = {} THEN NoCharge ELSE (CHOOSE b \in bands : TRUE).charge

Request == [cache |-> cache, answered |-> answered,
            km |-> [r \in Roads |-> 0], sure |-> [r \in Roads |-> FALSE]]
Keep(s) == cache' = s.cache /\ answered' = s.answered

(* _restaurant_visible_for_customer, which decides whether the restaurant is  *)
(* listed, whether its menu page opens and whether an order is let through.   *)
Visible(s) == ChargeFor(s.km["centre"]) # NoCharge

(* list_public_restaurants: one distance from the centre for all of a town's. *)
ListShops ==
  /\ \E s \in RoadDistance(Request, "centre") : Keep(s)
  /\ UNCHANGED <<roadDay, quote, charged>>

(* get_public_restaurant and _to_public with exact_quote; the distance from   *)
(* the centre is kept for the request.                                        *)
QuoteOf(s) ==
  IF ChargeFor(s.km["pin"]) # NoCharge
  THEN [charge |-> ChargeFor(s.km["pin"]), sure |-> s.sure["pin"], since |-> s.answered["pin"]]
  ELSE [charge |-> ChargeFor(s.km["centre"]), sure |-> s.sure["pin"] /\ s.sure["centre"],
        since |-> IF s.answered["pin"] < s.answered["centre"] THEN s.answered["pin"]
                  ELSE s.answered["centre"]]

OpenMenu ==
  /\ \E s \in RoadDistance(Request, "centre") :
       IF ~Visible(s) THEN Keep(s) /\ quote' = NoQuote
       ELSE \E t \in RoadDistance(s, "pin") : Keep(t) /\ quote' = QuoteOf(t)
  /\ UNCHANGED <<roadDay, charged>>

(* place_order: refused where the centre is too far, charged from the pin, or *)
(* from the centre, asked for again, where the pin is outside every zone.     *)
PlacedAt(s, charge) ==
  Keep(s) /\ charged' = IF charge = NoCharge THEN Unplaced
                        ELSE [charge |-> charge, quote |-> quote, on |-> roadDay]

PlaceOrder ==
  /\ \E s \in RoadDistance(Request, "centre") :
       IF ~Visible(s) THEN PlacedAt(s, NoCharge)
       ELSE \E t \in RoadDistance(s, "pin") :
              IF ChargeFor(t.km["pin"]) # NoCharge THEN PlacedAt(t, ChargeFor(t.km["pin"]))
              ELSE \E u \in RoadDistance(t, "centre") : PlacedAt(u, ChargeFor(u.km["centre"]))
  /\ UNCHANGED <<roadDay, quote>>

NextDay ==
  /\ roadDay < LastDay
  /\ roadDay' = roadDay + 1
  /\ UNCHANGED <<cache, answered, quote, charged>>

QuoteNext == ListShops \/ OpenMenu \/ PlaceOrder \/ NextDay

QuoteSpec == QuoteInit /\ [][QuoteNext]_quoteVars

(* An order is charged what the menu page quoted, whoever looked in between,  *)
(* as long as the quote rests on Google's answers and the oldest of them is   *)
(* still kept: on the promise that the page shows the same number checkout    *)
(* will charge. Quotes that rest on an estimate are not promised.             *)
QuoteIsCharged ==
  charged.charge # NoCharge /\ charged.quote.sure
    /\ charged.on <= charged.quote.since + CacheDays
  => charged.charge = charged.quote.charge
=============================================================================
