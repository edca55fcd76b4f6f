-------------------------------- MODULE Shops -------------------------------
(***************************************************************************)
(* One restaurant's opening hours: the minute tick (core/scheduler.py),    *)
(* the owner's toggle (hotel_portal) and the admin's update, each reading  *)
(* the row and committing later.  Time stands still while a request is in  *)
(* flight: a slot is hours long, a request a fraction of a second.  Ticks  *)
(* may fail to come for a slot or a day: the server may be down.  A tick   *)
(* or handler that fails is rolled back, as if it had never come.          *)
(***************************************************************************)
EXTENDS Schedule, FiniteSets

CONSTANTS
  Days,          \* how many days are modelled (bound)
  HoursChoices,  \* the hours a shop may have
  Crews,         \* the sets of workers the server may run with
  NoRow          \* an idle worker has read nothing

ASSUME ShopAssumption ==
  /\ HoursChoices \subseteq (0..(Slots - 1)) \X (0..(Slots - 1))
  /\ \A c \in Crews : IsFiniteSet(c)
  /\ NoRow \notin Row

VARIABLES
  now,           \* the clock, in slots
  shop,          \* the restaurant's row
  hours,         \* its opening and closing time
  crew,          \* the workers
  work,          \* what each worker is doing
  (* what happened, for the properties alone *)
  regular,       \* opened by the clock before, and its hours never changed
  acted          \* the openings and closings that ticks have acted on

shopVars == <<now, shop, hours, crew, work, regular, acted>>

Rest == [op |-> "idle", seen |-> NoRow, want |-> FALSE, hours |-> <<0, 0>>]

ShopInit ==
  /\ hours \in HoursChoices
  /\ now = Slots                          \* day 1 begins
  /\ \/ /\ \E on \in BOOLEAN : shop = [on |-> on, opened |-> NoDate, closed |-> NoDate]
        /\ regular = FALSE
     \/ /\ \E on \in BOOLEAN, closed \in {-1, 0} :
             /\ shop = [on |-> on, opened |-> 0, closed |-> closed]
             /\ WithinHours(now, hours) /\ PeriodDate(now, hours) = 0 => closed = -1
        /\ regular = TRUE
  /\ crew \in Crews
  /\ work = [t \in UNION Crews |-> Rest]
  /\ acted = {}

Begin(t, w) ==
  /\ t \in crew
  /\ work[t] = Rest
  /\ work' = [work EXCEPT ![t] = w]
  /\ UNCHANGED <<now, shop, hours, crew, regular, acted>>

(* run_schedule_tick reads the rows whose hours are set.  The one server      *)
(* process runs one tick at a time (_schedule_loop awaits it).                *)
TickRead(t) ==
  /\ \A u \in crew : work[u].op # "tick"
  /\ Begin(t, [Rest EXCEPT !.op = "tick", !.seen = shop])

(* toggle_open_status: the opposite of what the owner saw. *)
ToggleRead(t) == Begin(t, [Rest EXCEPT !.op = "set", !.seen = shop, !.want = ~ shop.on,
                                       !.hours = hours])

(* update_restaurant with is_open in the data, and perhaps new hours. *)
UpdateRead(t, want, h) ==
  Begin(t, [Rest EXCEPT !.op = "set", !.seen = shop, !.want = want, !.hours = h])

(* The tick commits what it changed; nothing changed, nothing is written.     *)
TickCommit(t) ==
  LET seen == work[t].seen
      new  == ApplySchedule(seen, hours, now)
  IN
  /\ work[t].op = "tick"
  /\ shop' = FlushRow(seen, new, shop)
  /\ acted' = IF shop'.on = shop.on THEN acted ELSE acted \cup {<<new.opened, new.on>>}
  /\ work' = [work EXCEPT ![t] = Rest]
  /\ UNCHANGED <<now, hours, crew, regular>>

SetCommit(t) ==
  LET w == work[t] IN
  /\ w.op = "set"
  /\ shop' = FlushRow(w.seen, NoteManual(w.seen, w.want, w.hours, now), shop)
  /\ hours' = w.hours
  /\ regular' = (regular /\ hours' = hours)
  /\ work' = [work EXCEPT ![t] = Rest]
  /\ UNCHANGED <<now, crew, acted>>

ShopClock ==
  /\ now < Slots * (Days + 1) - 1
  /\ \A t \in crew : work[t] = Rest
  /\ now' = now + 1
  /\ UNCHANGED <<shop, hours, crew, work, regular, acted>>

ShopNext ==
  \/ \E t \in UNION Crews :
       \/ TickRead(t) \/ TickCommit(t)
       \/ ToggleRead(t) \/ \E want \in BOOLEAN, h \in HoursChoices : UpdateRead(t, want, h)
       \/ SetCommit(t)
  \/ ShopClock

ShopSpec == ShopInit /\ [][ShopNext]_shopVars

-----------------------------------------------------------------------------
(* The abstract machine: an opening is outstanding until it is stamped, a     *)
(* closing while the next tick would close the shop.                          *)
Hours == INSTANCE OpeningHours WITH
  within <- WithinHours(now, hours), period <- PeriodDate(now, hours), on <- shop.on,
  served <- IF WithinHours(now, hours) THEN shop.opened = PeriodDate(now, hours)
            ELSE ~ (shop.on /\ shop.opened # NoDate /\ shop.closed # shop.opened)

(* With one worker, a shop that the clock has opened before and whose hours   *)
(* stay keeps them: each opening and closing is acted on once, by the first   *)
(* tick after it, however long the server was down, and what people set in    *)
(* between sticks ("Manual open/close always sticks between scheduled edges").*)
KeepsHours ==
  [][Cardinality(crew) = 1 /\ regular' =>
       IF \E t \in crew : TickCommit(t) THEN Hours!Tick
       ELSE \/ (\E t \in crew : SetCommit(t)) /\ Hours!ByHand
            \/ ShopClock /\ Hours!TimePasses
            \/ UNCHANGED <<shop, hours, now>>]_shopVars

(* Whatever toggles, updates and ticks overtake one another, no two ticks act *)
(* on the same opening, or on the same closing, of a shop whose hours stay.   *)
EdgesOnce ==
  [][\A t \in crew : TickCommit(t) /\ regular /\ shop'.on # shop.on => acted' # acted]_shopVars

(* What the schedule's comment says: "At closing (first tick outside after    *)
(* that period opened)" the shop is turned off.  So a shop that is open, in   *)
(* its hours and with its opening stamped is one the closing tick will close. *)
(* It is not: opened by hand before its first stamp ever, it is stamped as    *)
(* opened and closed on that very day.                                        *)
ClosesAfterHours ==
  Cardinality(crew) = 1 /\ WithinHours(now, hours) /\ shop.on /\
  shop.opened = PeriodDate(now, hours) => DueToClose(shop)
=============================================================================
