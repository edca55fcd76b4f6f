------------------------------ MODULE Schedule ------------------------------
(***************************************************************************)
(* Opening and closing by the clock (core/schedule_hours.py), for a        *)
(* restaurant or a delivery zone alike.  A day has Slots slots; hours are  *)
(* a pair of slots <<opening, closing>>, and a time is counted in slots    *)
(* from the start of day 0.  A row holds the switch and two dates: the     *)
(* period whose opening, and the one whose closing, has been dealt with.   *)
(***************************************************************************)
EXTENDS Integers

CONSTANTS
  Slots,     \* how finely a day is cut
  NoDate     \* the column is NULL

ASSUME ScheduleAssumption == Slots \in Nat \ {0} /\ NoDate \notin Int

Row == [on : BOOLEAN, opened : Int \cup {NoDate}, closed : Int \cup {NoDate}]

Day(time)  == time \div Slots
Slot(time) == time % Slots

(* Half-open hours; closing before opening is a night, equal means always.    *)
WithinHours(time, h) ==
  \/ h[1] = h[2]
  \/ h[1] < h[2] /\ Slot(time) \in h[1]..(h[2] - 1)
  \/ h[1] > h[2] /\ Slot(time) \notin h[2]..(h[1] - 1)

(* The day whose opening owns this moment: a night's morning is yesterday's.  *)
PeriodDate(time, h) ==
  IF h[1] > h[2] /\ Slot(time) < h[2] THEN Day(time) - 1 ELSE Day(time)

(* Mutants of DueToClose: without the stamp of the last closing a shop opened *)
(* by hand is closed again; or the shop is never closed.                      *)
ClosesAgain(row) == row.on /\ row.opened # NoDate
NeverCloses(row) == FALSE

(* The period a tick opened has not been closed yet. *)
DueToClose(row) == row.on /\ row.opened # NoDate /\ row.closed # row.opened

(* What a tick makes of a row: open at the first tick of a period, close at   *)
(* the first tick after it, and otherwise leave it as people set it.          *)
ApplySchedule(row, h, time) ==
  IF WithinHours(time, h)
  THEN IF row.opened # PeriodDate(time, h)
       THEN [row EXCEPT !.on = TRUE, !.opened = PeriodDate(time, h)]
       ELSE row
  ELSE IF DueToClose(row) THEN [row EXCEPT !.on = FALSE, !.closed = row.opened] ELSE row

(* Mutant of NoteManual: a manual opening leaves the dates alone. *)
NotesNothing(row, on, h, time) == [row EXCEPT !.on = on]

(* A person sets the switch: opening outside hours counts as closed already,  *)
(* so that the next tick does not close the shop again.                       *)
NoteManual(row, on, h, time) ==
  LET period == IF row.opened = NoDate THEN PeriodDate(time, h) ELSE row.opened IN
  IF on /\ ~ WithinHours(time, h)
  THEN [on |-> TRUE, opened |-> period, closed |-> period]
  ELSE [row EXCEPT !.on = on]

(* What the row holds when a session that read `seen` commits `new` over it.  *)
FlushRow(seen, new, row) ==
  [f \in DOMAIN row |-> IF new[f] = seen[f] THEN row[f] ELSE new[f]]
=============================================================================
