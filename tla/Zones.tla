-------------------------------- MODULE Zones -------------------------------
(***************************************************************************)
(* A tenant's delivery zones (superadmin/service.py): rings of distance    *)
(* around its centre, each either always available or switched by the      *)
(* clock like a restaurant (core/scheduler.py), and the price of a         *)
(* delivery that they quote (restaurants/service_area.py).  The tenant has *)
(* one admin, so handlers run one at a time.                               *)
(***************************************************************************)
EXTENDS Schedule

CONSTANTS
  ZoneIds,       \* zones in the order of their ids: a set of numbers
  Rings,         \* the ranges <<initial_km, final_km>> an admin enters
  ZoneHours,     \* the opening hours of scheduled zones
  ZoneDays,      \* how many days are modelled (bound)
  Always,        \* instead of hours: always_available
  NoZone,        \* no such row
  Unsent         \* a field that is not in a request

(* A row of delivery_zones.                                                   *)
ZoneRow == [ring : Rings, hours : ZoneHours \cup {Always}, row : Row]

ASSUME ZoneAssumption ==
  /\ Rings \subseteq Nat \X Nat
  /\ Always \notin ZoneHours /\ Always # Unsent
  /\ Unsent \notin Rings /\ Unsent \notin ZoneHours /\ Unsent \notin BOOLEAN
  /\ NoZone \notin ZoneIds /\ NoZone \notin ZoneRow

VARIABLES
  zoneNow,       \* the clock, in slots
  zones          \* the rows of delivery_zones

zoneVars == <<zoneNow, zones>>

Kept == {z \in ZoneIds : zones[z] # NoZone}

Overlap(r, s) == r[1] < s[2] /\ s[1] < r[2]

(* Mutant of RangeFree: a zone that is switched on again is not compared.     *)
RangeFreeWhenNew(z, ring, on) ==
  zones[z] = NoZone => \A o \in Kept \ {z} : zones[o].row.on => ~ Overlap(ring, zones[o].ring)

(* _assert_zone_range_free: an active zone overlaps no other active zone.     *)
RangeFree(z, ring, on) ==
  /\ ring[2] > ring[1]
  /\ on => \A o \in Kept \ {z} : zones[o].row.on => ~ Overlap(ring, zones[o].ring)

CreateZone(z, ring, hours) ==
  /\ zones[z] = NoZone
  /\ RangeFree(z, ring, TRUE)
  /\ zones' = [zones EXCEPT ![z] =
       [ring |-> ring, hours |-> hours, row |-> [on |-> TRUE, opened |-> NoDate, closed |-> NoDate]]]
  /\ UNCHANGED zoneNow

(* The payload of an update leaves out what the admin did not touch (Unsent). *)
(* Turning always_available on forgets the day the zone was last opened, but  *)
(* not the day it was closed.                                                 *)
UpdateZone(z, ring, hours, on) ==
  LET Sent(value, old) == IF value = Unsent THEN old ELSE value
      old == zones[z]
      new == [ring |-> Sent(ring, old.ring), hours |-> Sent(hours, old.hours),
              row  |-> [old.row EXCEPT !.on = Sent(on, @),
                                       !.opened = IF hours = Always THEN NoDate ELSE @]]
  IN
  /\ old # NoZone
  /\ RangeFree(z, new.ring, new.row.on)
  /\ zones' = [zones EXCEPT ![z] =
       IF on # Unsent /\ new.hours # Always
       THEN [new EXCEPT !.row = NoteManual(@, on, new.hours, zoneNow)] ELSE new]
  /\ UNCHANGED zoneNow

DeleteZone(z) ==
  /\ zones[z] # NoZone
  /\ zones' = [zones EXCEPT ![z] = NoZone]
  /\ UNCHANGED zoneNow

(* apply_zone_schedules: no comparison with the other zones.                  *)
ZoneTick ==
  /\ zones' = [z \in ZoneIds |->
       IF zones[z] = NoZone \/ zones[z].hours = Always THEN zones[z]
       ELSE [zones[z] EXCEPT !.row = ApplySchedule(@, zones[z].hours, zoneNow)]]
  /\ UNCHANGED zoneNow

ZoneClock ==
  /\ zoneNow < Slots * ZoneDays - 1
  /\ zoneNow' = zoneNow + 1
  /\ UNCHANGED zones

ZoneInit == zoneNow = 0 /\ zones = [z \in ZoneIds |-> NoZone]

ZoneNext ==
  \/ \E z \in ZoneIds :
       \/ \E ring \in Rings, hours \in ZoneHours \cup {Always} : CreateZone(z, ring, hours)
       \/ \E ring \in Rings \cup {Unsent}, hours \in ZoneHours \cup {Always, Unsent},
             on \in BOOLEAN \cup {Unsent} : UpdateZone(z, ring, hours, on)
       \/ DeleteZone(z)
  \/ ZoneTick \/ ZoneClock

ZoneSpec == ZoneInit /\ [][ZoneNext]_zoneVars

-----------------------------------------------------------------------------
(* max_active_zone_radius_km and customer_within_service_area.                *)
ActiveZones == {z \in Kept : zones[z].row.on}
InServiceArea(distance) == \E z \in ActiveZones : distance < zones[z].ring[2]

(* delivery_rates_for_distance: the narrowest ring, then the one that starts  *)
(* nearest; NoZone where the distance falls between the rings.                *)
QuotingZone(distance) ==
  LET hit == {z \in ActiveZones : zones[z].ring[1] <= distance /\ distance < zones[z].ring[2]}
      Wide(z) == zones[z].ring[2] - zones[z].ring[1]
      Before(y, z) == \/ Wide(y) < Wide(z)
                      \/ Wide(y) = Wide(z) /\ zones[y].ring[1] <= zones[z].ring[1]
  IN IF hit = {} THEN NoZone ELSE CHOOSE z \in hit : \A y \in hit : Before(z, y)

(* The tick reopens a scheduled zone whatever was created over its ring in the *)
(* meantime, so active zones may overlap.  But however zones are edited,      *)
(* switched and reopened, a distance in an active ring that is always         *)
(* available is quoted that ring's price, or a scheduled zone's.              *)
AroundTheClockQuotes ==
  \A z \in ActiveZones : zones[z].hours = Always =>
    \A distance \in zones[z].ring[1]..(zones[z].ring[2] - 1) :
      LET quoting == QuotingZone(distance) IN
      quoting = z \/ (quoting # NoZone /\ zones[quoting].hours # Always)
=============================================================================
