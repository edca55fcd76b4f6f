---------------------------- MODULE ClockProofs -----------------------------
(***************************************************************************)
(* A shop keeps its hours, each opening and closing is acted on once, and  *)
(* a distance has one rate around the clock: for any hours, any number of  *)
(* workers, and any rings and zones.                                       *)
(***************************************************************************)
EXTENDS Shops, Zones, FiniteSetTheorems, WellFoundedInduction, TLAPS

-----------------------------------------------------------------------------
(* Opening hours.                                                             *)
(* Two invariants: that the dates a shop was last opened and closed on never  *)
(* run ahead of its hours, and, in a race, what each worker that read the row *)
(* has behind it: the dates only ever grow.                                   *)

(* A row has its columns.                                                     *)
IsRow(r) ==
  /\ DOMAIN r = {"on", "opened", "closed"}
  /\ r.on \in BOOLEAN
  /\ r.opened \in Int \cup {NoDate} /\ r.closed \in Int \cup {NoDate}

(* The last period whose opening has come.                                    *)
Reached(time, h) == IF h[1] = h[2] \/ Slot(time) >= h[1] THEN Day(time) ELSE Day(time) - 1

(* A worker that is not idle holds a row it read.                             *)
Busy(w) == /\ w.op \in {"tick", "set"} /\ IsRow(w.seen) /\ w.want \in BOOLEAN
           /\ w.op = "set" => w.hours \in HoursChoices

(* The types, and that only the crew works, on one tick at a time.            *)
ShopTypes ==
  /\ now \in Nat /\ hours \in HoursChoices /\ crew \in Crews
  /\ regular \in BOOLEAN /\ IsRow(shop)
  /\ DOMAIN work = UNION Crews
  /\ \A t \in UNION Crews : work[t] = Rest \/ (t \in crew /\ Busy(work[t]))
  /\ \A t, u \in UNION Crews : work[t].op = "tick" /\ work[u].op = "tick" => t = u

(* The dates of a shop that keeps its hours: stamped, no closing past its     *)
(* opening, and the opening of the period under way not closed yet.           *)
Stamps ==
  /\ shop.opened \in Int /\ shop.closed \in Int
  /\ shop.closed <= shop.opened /\ shop.opened <= Reached(now, hours)
  /\ WithinHours(now, hours) /\ shop.opened = Reached(now, hours) => shop.closed < shop.opened

(* A tick has acted on the opening, or on the closing, of period p.           *)
OpenedAt(p) == <<p, TRUE>> \in acted
ClosedAt(p) == <<p, FALSE>> \in acted

(* What ticks have acted on is behind them.                                   *)
ActedBehind ==
  \A p \in Int :
    /\ OpenedAt(p) => p <= shop.opened
    /\ ClosedAt(p) => p <= shop.opened /\ (p = shop.opened => shop.closed = shop.opened)

(* What a worker has read of a shop that keeps its hours is no older than the *)
(* last opening it could matter for, and a tick has read the last closing.    *)
ReadsHold(w) ==
  /\ w.seen.opened \in Int
  /\ w.op = "tick" \/ ~ WithinHours(now, hours) => w.seen.opened = shop.opened
  /\ w.op = "tick" /\ ClosedAt(shop.opened) => w.seen.closed = shop.opened

(* The inductive invariant.                                                   *)
ShopInv ==
  /\ ShopTypes
  /\ regular => Stamps /\ ActedBehind /\ \A t \in UNION Crews : work[t] # Rest => ReadsHold(work[t])

(* With one worker nothing overtakes it.                                      *)
Alone == Cardinality(crew) = 1 => \A t \in UNION Crews : work[t] # Rest => work[t].seen = shop

-----------------------------------------------------------------------------
(* The clock *)

(* Time goes on within a day or into the next.                                *)
LEMMA NextSlot ==
  ASSUME NEW time \in Nat
  PROVE  /\ Day(time) \in Int /\ Slot(time) \in 0..(Slots - 1)
         /\ \/ Day(time + 1) = Day(time) /\ Slot(time + 1) = Slot(time) + 1
            \/ Day(time + 1) = Day(time) + 1 /\ Slot(time + 1) = 0
  <1>1. /\ Day(time) \in Int /\ Slot(time) \in 0..(Slots - 1) /\ time = Slots * Day(time) + Slot(time)
        /\ Day(time + 1) \in Int /\ Slot(time + 1) \in 0..(Slots - 1)
        /\ time + 1 = Slots * Day(time + 1) + Slot(time + 1)
    BY ScheduleAssumption DEF Day, Slot
  <1> DEFINE d == Day(time)  e == Day(time + 1)  s == Slot(time)  r == Slot(time + 1)
  <1>2. Slots * e + r = Slots * d + s + 1
    BY <1>1
  <1> HIDE DEF d, e, s, r
  <1>3. Slots \in Nat /\ Slots > 0 /\ d \in Int /\ e \in Int /\ s \in 0..(Slots - 1) /\ r \in 0..(Slots - 1)
    BY <1>1, ScheduleAssumption DEF d, e, s, r
  <1>4. e = d \/ e = d + 1
    <2>1. ASSUME e < d PROVE FALSE
      <3>1. Slots * e <= Slots * (d - 1) /\ Slots * (d - 1) = Slots * d - Slots
        BY <1>3, <2>1
      <3> QED
        BY <3>1, <1>2, <1>3
    <2>2. ASSUME e > d + 1 PROVE FALSE
      <3>1. Slots * e >= Slots * (d + 2) /\ Slots * (d + 2) = Slots * d + Slots + Slots
        BY <1>3, <2>2
      <3> QED
        BY <3>1, <1>2, <1>3
    <2> QED
      BY <2>1, <2>2, <1>3
  <1>5. CASE e = d
    <2>1. r = s + 1
      BY <1>5, <1>2, <1>3
    <2> QED
      BY <1>1, <1>5, <2>1 DEF d, e, s, r
  <1>6. CASE e = d + 1
    <2>1. Slots * e = Slots * d + Slots
      BY <1>6, <1>3
    <2>2. r = 0
      BY <2>1, <1>2, <1>3
    <2> QED
      BY <1>1, <1>6, <2>2 DEF d, e, s, r
  <1> QED
    BY <1>4, <1>5, <1>6

(* In hours, the period under way is the last whose opening has come.         *)
LEMMA PeriodReached ==
  ASSUME NEW time \in Nat, NEW h \in HoursChoices
  PROVE  /\ Reached(time, h) \in Int /\ PeriodDate(time, h) \in Int
         /\ WithinHours(time, h) => PeriodDate(time, h) = Reached(time, h)
         /\ WithinHours(time, h) \in BOOLEAN
  <1>1. h[1] \in Int /\ h[2] \in Int
    BY ShopAssumption, ScheduleAssumption
  <1>2. Day(time) \in Int /\ Slot(time) \in Int
    BY NextSlot, ScheduleAssumption
  <1> QED
    BY <1>1, <1>2 DEF Reached, PeriodDate, WithinHours

(* The clock moves the last opening on, and an opening it comes to is new.    *)
LEMMA ReachedMoves ==
  ASSUME NEW time \in Nat, NEW h \in HoursChoices
  PROVE  /\ Reached(time, h) <= Reached(time + 1, h)
         /\ WithinHours(time + 1, h) /\ (~ WithinHours(time, h) \/ PeriodDate(time + 1, h) # PeriodDate(time, h))
              => Reached(time, h) < Reached(time + 1, h)
         /\ WithinHours(time, h) /\ ~ WithinHours(time + 1, h) => Reached(time + 1, h) = Reached(time, h)
  <1>1. h[1] \in 0..(Slots - 1) /\ h[2] \in 0..(Slots - 1) /\ Slots \in Nat
    BY ShopAssumption, ScheduleAssumption
  <1>2. /\ Day(time) \in Int /\ Slot(time) \in 0..(Slots - 1)
        /\ Day(time + 1) \in Int /\ Slot(time + 1) \in 0..(Slots - 1)
        /\ \/ Day(time + 1) = Day(time) /\ Slot(time + 1) = Slot(time) + 1
           \/ Day(time + 1) = Day(time) + 1 /\ Slot(time + 1) = 0
    BY NextSlot
  <1>3. WithinHours(time + 1, h) /\ ~ WithinHours(time, h) => Reached(time, h) < Reached(time + 1, h)
    BY <1>1, <1>2 DEF Reached, WithinHours
  <1>4. Reached(time, h) <= Reached(time + 1, h)
    BY <1>1, <1>2 DEF Reached
  <1>5. WithinHours(time, h) /\ ~ WithinHours(time + 1, h) => Reached(time + 1, h) = Reached(time, h)
    BY <1>1, <1>2 DEF Reached, WithinHours
  <1> QED
    BY <1>3, <1>4, <1>5, PeriodReached

-----------------------------------------------------------------------------
(* Rows *)

(* Columns a session changed are written, the others keep what they hold.     *)
LEMMA Flushed ==
  ASSUME NEW seen, NEW new, NEW row, IsRow(seen), IsRow(new), IsRow(row)
  PROVE  LET f == FlushRow(seen, new, row) IN
         /\ IsRow(f)
         /\ f.on = IF new.on = seen.on THEN row.on ELSE new.on
         /\ f.opened = IF new.opened = seen.opened THEN row.opened ELSE new.opened
         /\ f.closed = IF new.closed = seen.closed THEN row.closed ELSE new.closed
  BY DEF FlushRow, IsRow

(* What a tick makes of a row, column by column.                              *)
LEMMA Scheduled ==
  ASSUME NEW row, IsRow(row), NEW h \in HoursChoices, now \in Nat
  PROVE  LET new == ApplySchedule(row, h, now) IN
         /\ IsRow(new)
         /\ WithinHours(now, h) /\ row.opened # PeriodDate(now, h) =>
              new.on = TRUE /\ new.opened = PeriodDate(now, h) /\ new.closed = row.closed
         /\ ~ WithinHours(now, h) /\ DueToClose(row) =>
              new.on = FALSE /\ new.opened = row.opened /\ new.closed = row.opened
         /\ ~ (WithinHours(now, h) /\ row.opened # PeriodDate(now, h))
              /\ ~ (~ WithinHours(now, h) /\ DueToClose(row)) => new = row
  <1>1. PeriodDate(now, h) \in Int
    BY PeriodReached
  <1> QED
    BY <1>1 DEF ApplySchedule, IsRow

(* What a person makes of a row that was stamped before.                      *)
LEMMA Noted ==
  ASSUME NEW row, IsRow(row), row.opened \in Int, NEW on \in BOOLEAN, NEW h
  PROVE  LET n == NoteManual(row, on, h, now) IN
         /\ IsRow(n) /\ n.on = on /\ n.opened = row.opened
         /\ n.closed = IF on /\ ~ WithinHours(now, h) THEN row.opened ELSE row.closed
  BY ScheduleAssumption DEF NoteManual, IsRow

(* A person leaves a row a row.                                               *)
LEMMA NotedIsRow ==
  ASSUME NEW row, IsRow(row), NEW on \in BOOLEAN, NEW h \in HoursChoices, now \in Nat
  PROVE  IsRow(NoteManual(row, on, h, now))
  <1>1. PeriodDate(now, h) \in Int
    BY PeriodReached
  <1> QED
    BY <1>1 DEF NoteManual, IsRow

-----------------------------------------------------------------------------
(* Steps *)

(* Reading the row starts no harm.                                            *)
LEMMA ReadTaken ==
  ASSUME ShopInv, Alone, NEW t \in UNION Crews, NEW w, Begin(t, w), Busy(w), w.seen = shop,
         w.op = "tick" => \A u \in crew : work[u].op # "tick"
  PROVE  ShopInv' /\ Alone'
  <1>1. /\ t \in crew /\ work' = [work EXCEPT ![t] = w]
        /\ UNCHANGED <<now, shop, hours, crew, regular, acted>>
    BY DEF Begin
  <1>2. /\ DOMAIN work' = UNION Crews /\ work'[t] = w
        /\ \A u \in (UNION Crews) \ {t} : work'[u] = work[u]
    BY <1>1 DEF ShopInv, ShopTypes
  <1>3. \A u, v \in UNION Crews : work'[u].op = "tick" /\ work'[v].op = "tick" => u = v
    <2>1. \A u \in UNION Crews : work[u].op = "tick" => u \in crew
      BY DEF ShopInv, ShopTypes, Rest
    <2> QED
      BY <1>2, <2>1 DEF ShopInv, ShopTypes
  <1>4. ShopTypes'
    BY <1>1, <1>2, <1>3 DEF ShopInv, ShopTypes
  <1>5. ASSUME regular PROVE Stamps' /\ ActedBehind' /\ ReadsHold(w)'
    <2>1. Stamps /\ ActedBehind
      BY <1>5 DEF ShopInv
    <2>2. Stamps' /\ ActedBehind'
      BY <1>1, <2>1 DEF Stamps, ActedBehind, OpenedAt, ClosedAt
    <2>3. shop.opened \in Int /\ (ClosedAt(shop.opened) => shop.closed = shop.opened)
      BY <2>1, Zenon DEF Stamps, ActedBehind
    <2> QED
      BY <1>1, <2>2, <2>3 DEF ReadsHold, ClosedAt
  <1>6. ASSUME regular, NEW u \in UNION Crews, work'[u] # Rest PROVE ReadsHold(work[u])'
    <2>1. CASE u = t
      BY <1>2, <1>5, <1>6, <2>1 DEF ReadsHold
    <2>2. CASE u # t
      <3>1. ReadsHold(work[u]) /\ work'[u] = work[u]
        BY <1>2, <1>6, <2>2 DEF ShopInv
      <3> QED
        BY <1>1, <3>1 DEF ReadsHold, ClosedAt
    <2> QED
      BY <2>1, <2>2
  <1>7. ShopInv'
    BY <1>1, <1>4, <1>5, <1>6 DEF ShopInv
  <1>8. Alone'
    BY <1>1, <1>2 DEF Alone
  <1> QED
    BY <1>7, <1>8

(* A tick in flight holds the openings and closings that were acted on.       *)
LEMMA TickFacts ==
  ASSUME ShopInv, NEW t \in UNION Crews, TickCommit(t)
  PROVE  LET seen == work[t].seen  new == ApplySchedule(seen, hours, now) IN
         /\ t \in crew /\ IsRow(seen) /\ IsRow(new) /\ IsRow(shop')
         /\ shop'.on = IF new.on = seen.on THEN shop.on ELSE new.on
         /\ shop'.opened = IF new.opened = seen.opened THEN shop.opened ELSE new.opened
         /\ shop'.closed = IF new.closed = seen.closed THEN shop.closed ELSE new.closed
         /\ regular => ReadsHold(work[t]) /\ Stamps /\ ActedBehind
  <1>1. work[t] # Rest /\ work[t].op = "tick" /\ now \in Nat /\ hours \in HoursChoices
    BY DEF TickCommit, Rest, ShopInv, ShopTypes
  <1>2. t \in crew /\ IsRow(work[t].seen) /\ IsRow(shop)
    BY <1>1 DEF ShopInv, ShopTypes, Busy
  <1>3. IsRow(ApplySchedule(work[t].seen, hours, now))
    BY <1>1, <1>2, Scheduled
  <1>4. shop' = FlushRow(work[t].seen, ApplySchedule(work[t].seen, hours, now), shop)
    BY DEF TickCommit
  <1>5. regular => ReadsHold(work[t]) /\ Stamps /\ ActedBehind
    BY <1>1 DEF ShopInv
  <1> QED
    BY <1>2, <1>3, <1>4, <1>5, Flushed

(* Nobody but the worker that commits changes what it does.                   *)
LEMMA WorkDone ==
  ASSUME ShopInv, NEW t \in UNION Crews, work' = [work EXCEPT ![t] = Rest],
         now' = now, crew' = crew, hours' \in HoursChoices, regular' \in BOOLEAN, IsRow(shop')
  PROVE  /\ ShopTypes'
         /\ \A u \in UNION Crews : work'[u] # Rest => u # t /\ work'[u] = work[u] /\ work[u] # Rest
  <1>1. /\ DOMAIN work' = UNION Crews /\ work'[t] = Rest
        /\ \A u \in (UNION Crews) \ {t} : work'[u] = work[u]
    BY DEF ShopInv, ShopTypes
  <1>2. \A u, v \in UNION Crews : work'[u].op = "tick" /\ work'[v].op = "tick" => u = v
    BY <1>1 DEF ShopInv, ShopTypes, Rest
  <1> QED
    BY <1>1, <1>2 DEF ShopInv, ShopTypes

(* With one worker, none is left at work when it commits.                     *)
LEMMA AloneKept ==
  ASSUME ShopInv, NEW t \in crew, work' = [work EXCEPT ![t] = Rest], crew' = crew
  PROVE  Alone'
  <1> SUFFICES ASSUME Cardinality(crew) = 1, NEW u \in UNION Crews, work'[u] # Rest PROVE FALSE
    BY DEF Alone
  <1>1. crew \in Crews /\ DOMAIN work = UNION Crews
    BY DEF ShopInv, ShopTypes
  <1>2. PICK x : crew = {x}
    BY <1>1, FS_Singleton, ShopAssumption
  <1>3. u # t /\ work[u] # Rest
    BY <1>1
  <1>4. u \in crew
    BY <1>3 DEF ShopInv, ShopTypes
  <1> QED
    BY <1>2, <1>3, <1>4

(* A tick acts on an edge once, and keeps the invariant.                      *)
LEMMA TickKept ==
  ASSUME ShopInv, NEW t \in UNION Crews, TickCommit(t)
  PROVE  ShopInv' /\ Alone' /\ (regular /\ shop'.on # shop.on => acted' # acted)
  <1> DEFINE seen == work[t].seen  new == ApplySchedule(seen, hours, now)
  <1>1. /\ work' = [work EXCEPT ![t] = Rest] /\ UNCHANGED <<now, hours, crew, regular>>
        /\ acted' = IF shop'.on = shop.on THEN acted ELSE acted \cup {<<new.opened, new.on>>}
        /\ work[t].op = "tick"
    BY DEF TickCommit
  <1>2. /\ t \in crew /\ IsRow(seen) /\ IsRow(new) /\ IsRow(shop')
        /\ shop'.on = IF new.on = seen.on THEN shop.on ELSE new.on
        /\ shop'.opened = IF new.opened = seen.opened THEN shop.opened ELSE new.opened
        /\ shop'.closed = IF new.closed = seen.closed THEN shop.closed ELSE new.closed
        /\ regular => ReadsHold(work[t]) /\ Stamps /\ ActedBehind
    BY TickFacts
  <1>3. now \in Nat /\ hours \in HoursChoices /\ regular \in BOOLEAN
    BY DEF ShopInv, ShopTypes
  <1>4. /\ ShopTypes'
        /\ \A u \in UNION Crews : work'[u] # Rest => u # t /\ work'[u] = work[u] /\ work[u] # Rest
    BY <1>1, <1>2, <1>3, WorkDone
  <1>5. Alone'
    BY <1>1, <1>2, AloneKept
  <1>6. /\ WithinHours(now, hours) /\ seen.opened # PeriodDate(now, hours) =>
             new.on = TRUE /\ new.opened = PeriodDate(now, hours) /\ new.closed = seen.closed
        /\ ~ WithinHours(now, hours) /\ DueToClose(seen) =>
             new.on = FALSE /\ new.opened = seen.opened /\ new.closed = seen.opened
        /\ ~ (WithinHours(now, hours) /\ seen.opened # PeriodDate(now, hours))
             /\ ~ (~ WithinHours(now, hours) /\ DueToClose(seen)) => new = seen
    BY <1>2, <1>3, Scheduled
  <1> HIDE DEF new
  <1>7. ASSUME regular
        PROVE  /\ Stamps' /\ ActedBehind' /\ (shop'.on # shop.on => acted' # acted)
               /\ \A u \in UNION Crews : work'[u] # Rest => ReadsHold(work[u])'
    <2>1. /\ shop.opened \in Int /\ shop.closed \in Int /\ seen.opened = shop.opened
          /\ ClosedAt(shop.opened) => seen.closed = shop.opened
          /\ Stamps /\ ActedBehind
      BY <1>1, <1>2, <1>7 DEF ReadsHold, Stamps
    <2>2. \A u \in UNION Crews : work'[u] # Rest =>
            work'[u] = work[u] /\ ReadsHold(work[u]) /\ work[u].op # "tick"
      BY <1>1, <1>4, <1>7 DEF ShopInv, ShopTypes
    <2>3. /\ Reached(now, hours) \in Int
          /\ WithinHours(now, hours) => PeriodDate(now, hours) = Reached(now, hours)
      BY <1>3, PeriodReached
    <2>4. CASE WithinHours(now, hours) /\ seen.opened # PeriodDate(now, hours)
      <3> DEFINE p == Reached(now, hours)
      <3>1. /\ shop'.opened = p /\ shop'.closed = shop.closed /\ shop.opened < p
            /\ new.on = TRUE /\ new.opened = p
        BY <1>2, <1>6, <2>1, <2>3, <2>4 DEF Stamps
      <3> HIDE DEF p
      <3>2. Stamps'
        <4>1. p = Reached(now, hours)'
          BY <1>1 DEF p
        <4>2. shop.closed < p /\ p \in Int
          BY <2>1, <2>3, <3>1 DEF Stamps, p
        <4> QED
          BY <2>1, <3>1, <4>1, <4>2 DEF Stamps
      <3>3. acted' \subseteq acted \cup {<<p, TRUE>>}
        BY <1>1, <3>1
      <3>4. \A q \in Int : /\ OpenedAt(q) => q <= shop.opened
                           /\ ClosedAt(q) => q <= shop.opened
        BY <2>1 DEF ActedBehind
      <3>5. p \in Int
        BY <2>3 DEF p
      <3>6. ActedBehind'
        <4> SUFFICES ASSUME NEW q \in Int
                     PROVE  /\ OpenedAt(q)' => q <= p
                            /\ ClosedAt(q)' => q <= p /\ q # p
          BY <3>1 DEF ActedBehind
        <4>1. OpenedAt(q)' => OpenedAt(q) \/ q = p
          BY <3>3 DEF OpenedAt, ClosedAt
        <4>2. ClosedAt(q)' => ClosedAt(q)
          BY <3>3 DEF OpenedAt, ClosedAt
        <4> QED
          BY <4>1, <4>2, <3>4, <3>1, <3>5, <2>1
      <3>7. shop'.on # shop.on => acted' # acted
        <4>1. ~ OpenedAt(p)
          BY <3>4, <3>1, <3>5, <2>1
        <4> QED
          BY <1>1, <3>1, <4>1 DEF OpenedAt, ClosedAt
      <3>8. \A u \in UNION Crews : work'[u] # Rest => ReadsHold(work[u])'
        BY <1>1, <2>2, <2>4 DEF ReadsHold
      <3> QED
        BY <3>2, <3>6, <3>7, <3>8
    <2>5. CASE ~ WithinHours(now, hours) /\ DueToClose(seen)
      <3>1. /\ shop'.opened = shop.opened /\ shop'.closed = shop.opened
            /\ new.on = FALSE /\ new.opened = shop.opened /\ seen.closed # shop.opened
        BY <1>2, <1>6, <2>1, <2>5 DEF DueToClose
      <3>2. Stamps'
        BY <1>1, <2>1, <2>3, <2>5, <3>1 DEF Stamps
      <3>3. acted' \subseteq acted \cup {<<shop.opened, FALSE>>}
        BY <1>1, <3>1
      <3>4. ActedBehind'
        <4> SUFFICES ASSUME NEW q \in Int
                     PROVE  /\ OpenedAt(q)' => q <= shop.opened
                            /\ ClosedAt(q)' => q <= shop.opened
          BY <3>1 DEF ActedBehind
        <4>1. OpenedAt(q)' => OpenedAt(q)
          BY <3>3 DEF OpenedAt, ClosedAt
        <4>2. ClosedAt(q)' => ClosedAt(q) \/ q = shop.opened
          BY <3>3 DEF OpenedAt, ClosedAt
        <4> QED
          BY <4>1, <4>2, <2>1 DEF ActedBehind
      <3>5. shop'.on # shop.on => acted' # acted
        <4>1. ~ ClosedAt(shop.opened)
          BY <2>1, <3>1
        <4> QED
          BY <1>1, <3>1, <4>1 DEF OpenedAt, ClosedAt
      <3>6. \A u \in UNION Crews : work'[u] # Rest => ReadsHold(work[u])'
        BY <1>1, <2>2, <3>1 DEF ReadsHold
      <3> QED
        BY <3>2, <3>4, <3>5, <3>6
    <2>6. CASE new = seen
      <3>1. shop'.on = shop.on /\ shop'.opened = shop.opened /\ shop'.closed = shop.closed /\ acted' = acted
        BY <1>1, <1>2, <2>6
      <3>2. Stamps'
        BY <1>1, <2>1, <3>1 DEF Stamps
      <3>3. ActedBehind'
        BY <2>1, <3>1 DEF ActedBehind, OpenedAt, ClosedAt
      <3>4. \A u \in UNION Crews : work'[u] # Rest => ReadsHold(work[u])'
        BY <1>1, <2>2, <3>1 DEF ReadsHold
      <3> QED
        BY <3>1, <3>2, <3>3, <3>4
    <2> QED
      BY <1>6, <2>4, <2>5, <2>6
  <1> QED
    BY <1>1, <1>4, <1>5, <1>7 DEF ShopInv

(* What a handler writes over a shop that keeps its hours.                    *)
LEMMA SetFacts ==
  ASSUME ShopInv, NEW t \in UNION Crews, SetCommit(t)
  PROVE  /\ t \in crew /\ IsRow(shop') /\ hours' \in HoursChoices
         /\ regular' =>
              /\ regular /\ hours' = hours /\ shop'.opened = shop.opened
              /\ shop'.closed \in {shop.closed, shop.opened}
              /\ WithinHours(now, hours) => shop'.closed = shop.closed
  <1> DEFINE w == work[t]  new == NoteManual(w.seen, w.want, w.hours, now)
  <1>1. /\ w.op = "set" /\ w # Rest /\ shop' = FlushRow(w.seen, new, shop) /\ hours' = w.hours
        /\ regular' = (regular /\ hours' = hours)
    BY DEF SetCommit, Rest
  <1>2. t \in crew /\ IsRow(w.seen) /\ IsRow(shop) /\ w.want \in BOOLEAN /\ w.hours \in HoursChoices /\ now \in Nat
    BY <1>1 DEF ShopInv, ShopTypes, Busy
  <1> HIDE DEF w
  <1>3. IsRow(new)
    BY <1>2, NotedIsRow
  <1>4. /\ IsRow(shop')
        /\ shop'.opened = IF new.opened = w.seen.opened THEN shop.opened ELSE new.opened
        /\ shop'.closed = IF new.closed = w.seen.closed THEN shop.closed ELSE new.closed
    <2> HIDE DEF new
    <2> QED BY <1>1, <1>2, <1>3, Flushed
  <1>5. ASSUME regular'
        PROVE  /\ regular /\ hours' = hours /\ shop'.opened = shop.opened
               /\ shop'.closed \in {shop.closed, shop.opened}
               /\ WithinHours(now, hours) => shop'.closed = shop.closed
    <2>1. regular /\ hours' = hours /\ w.hours = hours
      BY <1>1, <1>5
    <2>2. w.seen.opened \in Int /\ (~ WithinHours(now, hours) => w.seen.opened = shop.opened)
      BY <1>1, <2>1 DEF ShopInv, ReadsHold, w
    <2>3. /\ new.opened = w.seen.opened
          /\ new.closed = IF w.want /\ ~ WithinHours(now, hours) THEN w.seen.opened ELSE w.seen.closed
      BY <1>2, <2>1, <2>2, Noted
    <2> HIDE DEF new
    <2> QED
      BY <2>1, <2>2, <2>3, <1>4
  <1> QED
    BY <1>1, <1>2, <1>4, <1>5

(* A toggle or update that commits leaves dates that are stamped by now.      *)
LEMMA SetKept ==
  ASSUME ShopInv, NEW t \in UNION Crews, SetCommit(t)
  PROVE  ShopInv' /\ Alone'
  <1>1. /\ t \in crew /\ IsRow(shop') /\ hours' \in HoursChoices
        /\ regular' =>
              /\ regular /\ hours' = hours /\ shop'.opened = shop.opened
              /\ shop'.closed \in {shop.closed, shop.opened}
              /\ WithinHours(now, hours) => shop'.closed = shop.closed
    BY SetFacts
  <1>2. /\ work' = [work EXCEPT ![t] = Rest] /\ UNCHANGED <<now, crew, acted>>
        /\ regular' \in BOOLEAN
    BY DEF SetCommit, ShopInv, ShopTypes
  <1>3. /\ ShopTypes'
        /\ \A u \in UNION Crews : work'[u] # Rest => u # t /\ work'[u] = work[u] /\ work[u] # Rest
    BY <1>1, <1>2, WorkDone
  <1>4. Alone'
    BY <1>1, <1>2, AloneKept
  <1>5. ASSUME regular'
        PROVE  Stamps' /\ ActedBehind' /\ \A u \in UNION Crews : work'[u] # Rest => ReadsHold(work[u])'
    <2>1. Stamps /\ ActedBehind /\ \A u \in UNION Crews : work[u] # Rest => ReadsHold(work[u])
      BY <1>1, <1>5 DEF ShopInv
    <2>2. Reached(now, hours) \in Int
      BY PeriodReached DEF ShopInv, ShopTypes
    <2>3. Stamps'
      BY <1>1, <1>2, <1>5, <2>1, <2>2 DEF Stamps
    <2>4. ActedBehind'
      BY <1>1, <1>2, <1>5, <2>1 DEF ActedBehind, OpenedAt, ClosedAt
    <2>5. \A u \in UNION Crews : work'[u] # Rest => ReadsHold(work[u])'
      BY <1>1, <1>2, <1>3, <1>5, <2>1 DEF ReadsHold, ClosedAt
    <2> QED
      BY <2>3, <2>4, <2>5
  <1> QED
    BY <1>3, <1>4, <1>5 DEF ShopInv

(* Time passes while everybody rests.                                         *)
LEMMA ClockKept ==
  ASSUME ShopInv, ShopClock
  PROVE  ShopInv' /\ Alone'
  <1>1. /\ now \in Nat /\ now' = now + 1 /\ hours \in HoursChoices
        /\ UNCHANGED <<shop, hours, crew, work, regular, acted>>
    BY DEF ShopClock, ShopInv, ShopTypes
  <1>2. \A u \in UNION Crews : work[u] = Rest
    BY DEF ShopClock, ShopInv, ShopTypes
  <1>3. ShopTypes'
    BY <1>1 DEF ShopInv, ShopTypes
  <1>4. ASSUME regular PROVE Stamps' /\ ActedBehind'
    <2>1. Stamps /\ ActedBehind
      BY <1>4 DEF ShopInv
    <2>2. /\ Reached(now, hours) \in Int /\ Reached(now + 1, hours) \in Int
          /\ Reached(now, hours) <= Reached(now + 1, hours)
          /\ WithinHours(now, hours) => PeriodDate(now, hours) = Reached(now, hours)
          /\ WithinHours(now + 1, hours) => PeriodDate(now + 1, hours) = Reached(now + 1, hours)
          /\ WithinHours(now + 1, hours) /\ (~ WithinHours(now, hours) \/ PeriodDate(now + 1, hours) # PeriodDate(now, hours))
               => Reached(now, hours) < Reached(now + 1, hours)
      BY <1>1, PeriodReached, ReachedMoves
    <2>3. Stamps'
      <3>1. Reached(now, hours)' = Reached(now + 1, hours) /\ WithinHours(now, hours)' = WithinHours(now + 1, hours)
        BY <1>1
      <3> QED
        BY <1>1, <2>1, <2>2, <3>1 DEF Stamps
    <2>4. ActedBehind'
      BY <1>1, <2>1 DEF ActedBehind, OpenedAt, ClosedAt
    <2> QED
      BY <2>3, <2>4
  <1> QED
    BY <1>1, <1>2, <1>3, <1>4 DEF ShopInv, Alone

(* The invariants hold at the start,                                          *)
LEMMA ShopStarts == ShopInit => ShopInv /\ Alone
  <1> SUFFICES ASSUME ShopInit PROVE ShopInv /\ Alone
    OBVIOUS
  <1>1. /\ hours \in HoursChoices /\ now = Slots /\ now \in Nat /\ crew \in Crews
        /\ work = [t \in UNION Crews |-> Rest] /\ acted = {}
    BY ScheduleAssumption DEF ShopInit
  <1>2. IsRow(shop) /\ regular \in BOOLEAN
    <2>1. \/ \E on \in BOOLEAN : shop = [on |-> on, opened |-> NoDate, closed |-> NoDate]
          \/ \E on \in BOOLEAN, closed \in {-1, 0} : shop = [on |-> on, opened |-> 0, closed |-> closed]
      BY Zenon DEF ShopInit
    <2>2. ASSUME NEW on \in BOOLEAN, NEW opened \in Int \cup {NoDate}, NEW closed \in Int \cup {NoDate},
                 shop = [on |-> on, opened |-> opened, closed |-> closed]
          PROVE  IsRow(shop)
      BY <2>2 DEF IsRow
    <2>3. IsRow(shop)
      <3>1. CASE \E on \in BOOLEAN : shop = [on |-> on, opened |-> NoDate, closed |-> NoDate]
        BY <2>2, <3>1
      <3>2. CASE \E on \in BOOLEAN, closed \in {-1, 0} : shop = [on |-> on, opened |-> 0, closed |-> closed]
        BY <2>2, <3>2
      <3> QED
        BY <2>1, <3>1, <3>2
    <2>4. regular = TRUE \/ regular = FALSE
      BY Zenon DEF ShopInit
    <2> QED
      BY <2>3, <2>4
  <1>3. ShopTypes
    BY <1>1, <1>2 DEF ShopTypes, Rest
  <1>4. ASSUME regular PROVE Stamps
    <2>1. /\ shop.opened = 0 /\ shop.closed \in {-1, 0}
          /\ WithinHours(now, hours) /\ PeriodDate(now, hours) = 0 => shop.closed = -1
      BY <1>4 DEF ShopInit
    <2>2. /\ Reached(now, hours) \in Int
          /\ WithinHours(now, hours) => PeriodDate(now, hours) = Reached(now, hours)
      BY <1>1, PeriodReached
    <2>3. Day(now) = 1
      BY <1>1, ScheduleAssumption DEF Day
    <2>4. Reached(now, hours) >= 0
      BY <2>3 DEF Reached
    <2> QED
      BY <2>1, <2>2, <2>4 DEF Stamps
  <1> QED
    BY <1>1, <1>3, <1>4 DEF ShopInv, ActedBehind, OpenedAt, ClosedAt, Alone

(* when a worker reads the row,                                               *)
LEMMA ShopReads ==
  ASSUME ShopInv, Alone, NEW t \in UNION Crews,
         \/ TickRead(t) \/ ToggleRead(t)
         \/ \E want \in BOOLEAN, h \in HoursChoices : UpdateRead(t, want, h)
  PROVE  ShopInv' /\ Alone' /\ UNCHANGED <<now, shop, hours, crew, regular, acted>>
  <1>1. IsRow(shop) /\ hours \in HoursChoices /\ shop.on \in BOOLEAN
    BY DEF ShopInv, ShopTypes, IsRow
  <1>2. CASE TickRead(t)
    <2> DEFINE w == [Rest EXCEPT !.op = "tick", !.seen = shop]
    <2>1. Begin(t, w) /\ w.op = "tick" /\ w.seen = shop /\ w.want \in BOOLEAN
          /\ \A u \in crew : work[u].op # "tick"
      BY <1>2 DEF TickRead, Rest
    <2> HIDE DEF w
    <2>2. Busy(w)
      BY <1>1, <2>1 DEF Busy
    <2> QED
      BY <2>1, <2>2, ReadTaken DEF Begin
  <1>3. ASSUME NEW want \in BOOLEAN, NEW h \in HoursChoices,
               Begin(t, [Rest EXCEPT !.op = "set", !.seen = shop, !.want = want, !.hours = h])
        PROVE  ShopInv' /\ Alone' /\ UNCHANGED <<now, shop, hours, crew, regular, acted>>
    <2> DEFINE w == [Rest EXCEPT !.op = "set", !.seen = shop, !.want = want, !.hours = h]
    <2>1. Begin(t, w) /\ w.op = "set" /\ w.seen = shop /\ w.want \in BOOLEAN /\ w.hours \in HoursChoices
      BY <1>3 DEF Rest
    <2> HIDE DEF w
    <2>2. Busy(w)
      BY <1>1, <2>1 DEF Busy
    <2> QED
      BY <2>1, <2>2, ReadTaken DEF Begin
  <1>4. CASE ToggleRead(t)
    <2>1. (~ shop.on) \in BOOLEAN
      OBVIOUS
    <2> QED
      BY <1>1, <1>3, <1>4, <2>1 DEF ToggleRead
  <1>5. CASE \E want \in BOOLEAN, h \in HoursChoices : UpdateRead(t, want, h)
    BY <1>3, <1>5 DEF UpdateRead
  <1> QED
    BY <1>2, <1>4, <1>5

-----------------------------------------------------------------------------
(* The abstract machine *)

(* Stuttering keeps what was kept.                                            *)
LEMMA ShopStutters ==
  ASSUME ShopInv, Alone, UNCHANGED shopVars
  PROVE  ShopInv' /\ Alone'
  BY DEF shopVars, ShopInv, Alone, ShopTypes, Stamps, ActedBehind, OpenedAt, ClosedAt, ReadsHold

(* and so always.                                                             *)
LEMMA ShopSafe == ShopSpec => [](ShopInv /\ Alone)
  <1>1. ShopInv /\ Alone /\ [ShopNext]_shopVars => (ShopInv /\ Alone)'
    <2>1. ShopInv /\ Alone /\ ShopNext => (ShopInv /\ Alone)'
      <3> SUFFICES ASSUME ShopInv, Alone, ShopNext PROVE (ShopInv /\ Alone)'
        OBVIOUS
      <3>1. CASE ShopClock
        BY <3>1, ClockKept
      <3>2. ASSUME NEW t \in UNION Crews,
                   \/ TickRead(t) \/ ToggleRead(t)
                   \/ \E want \in BOOLEAN, h \in HoursChoices : UpdateRead(t, want, h)
            PROVE  (ShopInv /\ Alone)'
        BY <3>2, ShopReads
      <3> QED
        BY <3>1, <3>2, TickKept, SetKept DEF ShopNext
    <2> QED
      BY <2>1, ShopStutters
  <1> QED
    BY <1>1, ShopStarts, PTL DEF ShopSpec

(* However toggles, updates and ticks of any workers overtake one another, no *)
(* two ticks act on the same opening, or the same closing, of a shop whose    *)
(* hours stay: a tick writes the date it acted on with the switch             *)
(* (apply_schedule_to_row).                                                   *)
THEOREM EdgesActedOnce == ShopSpec => EdgesOnce
  <1> DEFINE Once == \A t \in crew : TickCommit(t) /\ regular /\ shop'.on # shop.on => acted' # acted
  <1>1. ShopInv /\ [ShopNext]_shopVars => [Once]_shopVars
    <2> SUFFICES ASSUME ShopInv, NEW t \in crew, TickCommit(t), regular, shop'.on # shop.on
                 PROVE  acted' # acted
      OBVIOUS
    <2>1. t \in UNION Crews
      BY DEF ShopInv, ShopTypes
    <2> QED
      BY <2>1, TickKept
  <1> QED
    BY <1>1, ShopSafe, PTL DEF EdgesOnce, ShopSpec

(* A tick of the one worker is the abstract machine's.                        *)
LEMMA TickRefines ==
  ASSUME ShopInv, Alone, Cardinality(crew) = 1, regular, NEW t \in UNION Crews, TickCommit(t)
  PROVE  Hours!Tick
  <1> DEFINE new == ApplySchedule(shop, hours, now)
  <1>1. work[t].seen = shop /\ work[t] # Rest
    BY DEF Alone, TickCommit, Rest
  <1>2. /\ shop'.on = new.on /\ shop'.opened = new.opened /\ shop'.closed = new.closed
        /\ IsRow(shop) /\ Stamps
    BY <1>1, TickFacts DEF ShopInv, ShopTypes
  <1>3. now' = now /\ hours' = hours /\ now \in Nat /\ hours \in HoursChoices
    BY DEF TickCommit, ShopInv, ShopTypes
  <1>4. /\ WithinHours(now, hours) /\ shop.opened # PeriodDate(now, hours) =>
             new.on = TRUE /\ new.opened = PeriodDate(now, hours) /\ new.closed = shop.closed
        /\ ~ WithinHours(now, hours) /\ DueToClose(shop) =>
             new.on = FALSE /\ new.opened = shop.opened /\ new.closed = shop.opened
        /\ ~ (WithinHours(now, hours) /\ shop.opened # PeriodDate(now, hours))
             /\ ~ (~ WithinHours(now, hours) /\ DueToClose(shop)) => new = shop
    BY <1>2, <1>3, Scheduled
  <1> HIDE DEF new
  <1>5. WithinHours(now, hours) \in BOOLEAN
    BY <1>3, PeriodReached
  <1>6. WithinHours(now, hours)' = WithinHours(now, hours) /\ PeriodDate(now, hours)' = PeriodDate(now, hours)
    BY <1>3
  <1> QED
    BY <1>2, <1>4, <1>5, <1>6 DEF Hours!Tick, DueToClose, IsRow

(* A handler of the one worker sets the switch by hand.                       *)
LEMMA SetRefines ==
  ASSUME ShopInv, Alone, Cardinality(crew) = 1, regular', NEW t \in UNION Crews, SetCommit(t)
  PROVE  Hours!ByHand
  <1> DEFINE w == work[t]  new == NoteManual(shop, w.want, hours, now)
  <1>1. w.seen = shop /\ w # Rest /\ w.hours = hours /\ hours' = hours /\ now' = now /\ regular
    <2>1. w # Rest
      BY DEF SetCommit, Rest
    <2>2. hours' = w.hours /\ now' = now
      BY DEF SetCommit
    <2>3. regular /\ hours' = hours
      BY SetFacts
    <2> QED
      BY <2>1, <2>2, <2>3 DEF Alone
  <1>2. IsRow(shop) /\ Stamps /\ w.want \in BOOLEAN /\ now \in Nat /\ hours \in HoursChoices
    BY <1>1 DEF ShopInv, ShopTypes, Busy, SetCommit
  <1>3. shop' = FlushRow(shop, new, shop)
    BY <1>1 DEF SetCommit
  <1>4. /\ IsRow(new) /\ new.on = w.want /\ new.opened = shop.opened
        /\ new.closed = IF w.want /\ ~ WithinHours(now, hours) THEN shop.opened ELSE shop.closed
    BY <1>2, Noted DEF Stamps
  <1> HIDE DEF new
  <1>5. shop'.on = new.on /\ shop'.opened = new.opened /\ shop'.closed = new.closed
    BY <1>2, <1>3, <1>4, Flushed
  <1>6. WithinHours(now, hours)' = WithinHours(now, hours) /\ PeriodDate(now, hours)' = PeriodDate(now, hours)
    BY <1>1
  <1>7. WithinHours(now, hours) \in BOOLEAN
    BY <1>2, PeriodReached
  <1> QED
    BY <1>2, <1>4, <1>5, <1>6, <1>7 DEF Hours!ByHand, Stamps

(* Time passes as in the abstract machine.                                    *)
LEMMA ClockRefines ==
  ASSUME ShopInv, regular, ShopClock
  PROVE  Hours!TimePasses
  <1>1. /\ now \in Nat /\ now' = now + 1 /\ hours \in HoursChoices
        /\ shop' = shop /\ hours' = hours /\ Stamps
    BY DEF ShopClock, ShopInv, ShopTypes
  <1> DEFINE in == WithinHours(now, hours)  inNext == WithinHours(now + 1, hours)
             p == PeriodDate(now, hours)    pNext == PeriodDate(now + 1, hours)
             r == Reached(now, hours)       rNext == Reached(now + 1, hours)
  <1>2. WithinHours(now, hours)' = inNext /\ PeriodDate(now, hours)' = pNext
    BY <1>1
  <1>3. /\ r \in Int /\ rNext \in Int /\ r <= rNext
        /\ (in => p = r) /\ (inNext => pNext = rNext)
        /\ in \in BOOLEAN /\ inNext \in BOOLEAN
        /\ inNext /\ (~ in \/ pNext # p) => r < rNext
    BY <1>1, PeriodReached, ReachedMoves
  <1>4. /\ shop.opened \in Int /\ shop.closed \in Int /\ shop.opened <= r
        /\ in /\ shop.opened = r => shop.closed < shop.opened
    BY <1>1 DEF Stamps
  <1>5. shop.on \in BOOLEAN
    BY DEF ShopInv, ShopTypes, IsRow
  <1> HIDE DEF in, inNext, p, pNext, r, rNext
  <1> DEFINE due == shop.on /\ shop.opened # NoDate /\ shop.closed # shop.opened
             served == IF in THEN shop.opened = p ELSE ~ due
             servedNext == IF inNext THEN shop.opened = pNext ELSE ~ due
  <1>6. /\ inNext \in BOOLEAN
        /\ IF inNext /\ (~ in \/ pNext # p) THEN ~ servedNext
           ELSE IF in /\ ~ inNext THEN servedNext \in (IF shop.on THEN {~ served, FALSE} ELSE {TRUE})
           ELSE servedNext = served
    <2>1. CASE inNext /\ (~ in \/ pNext # p)
      BY <1>3, <1>4, <2>1
    <2>2. CASE in /\ ~ inNext
      <3>1. shop.on => ~ (served /\ servedNext)
        BY <1>3, <1>4, <2>2, ScheduleAssumption
      <3>2. ~ shop.on => servedNext
        BY <2>2
      <3>3. served \in BOOLEAN /\ servedNext \in BOOLEAN
        OBVIOUS
      <3> HIDE DEF served, servedNext
      <3> QED
        BY <2>2, <1>3, <1>5, <3>1, <3>2, <3>3
    <2>3. CASE inNext /\ in /\ pNext = p
      BY <1>3, <2>3
    <2>4. CASE ~ in /\ ~ inNext
      BY <1>3, <2>4
    <2> QED
      BY <1>3, <2>1, <2>2, <2>3, <2>4
  <1> QED
    BY <1>1, <1>2, <1>6 DEF Hours!TimePasses, in, inNext, p, pNext

(* Every step of a shop with one worker is a step of OpeningHours: each       *)
(* opening and closing is acted on once, by the first tick after it, and what *)
(* the owner and the admin set in between sticks.                             *)
THEOREM ShopKeepsHours == ShopSpec => KeepsHours
  <1> DEFINE Keeps ==
        Cardinality(crew) = 1 /\ regular' =>
          IF \E t \in crew : TickCommit(t) THEN Hours!Tick
          ELSE \/ (\E t \in crew : SetCommit(t)) /\ Hours!ByHand
               \/ ShopClock /\ Hours!TimePasses
               \/ UNCHANGED <<shop, hours, now>>
  <1>1. ShopInv /\ Alone /\ [ShopNext]_shopVars => [Keeps]_shopVars
    <2> SUFFICES ASSUME ShopInv, Alone, ShopNext, Cardinality(crew) = 1, regular'
                 PROVE  Keeps
      OBVIOUS
    <2>0. crew \subseteq UNION Crews
      BY DEF ShopInv, ShopTypes
    <2>1. CASE \E t \in crew : TickCommit(t)
      <3>1. PICK t \in crew : TickCommit(t)
        BY <2>1
      <3>2. regular
        BY <3>1 DEF TickCommit
      <3> QED
        BY <2>0, <2>1, <3>1, <3>2, TickRefines
    <2>2. CASE ~ (\E t \in crew : TickCommit(t))
      <3>1. CASE ShopClock
        <4>1. regular
          BY <3>1 DEF ShopClock
        <4> QED
          BY <2>2, <3>1, <4>1, ClockRefines
      <3>2. ASSUME NEW t \in UNION Crews, SetCommit(t) PROVE Keeps
        <4>1. t \in crew /\ Hours!ByHand
          BY <3>2, SetFacts, SetRefines
        <4> QED
          BY <2>2, <3>2, <4>1
      <3>3. ASSUME NEW t \in UNION Crews, TickCommit(t) PROVE Keeps
        <4>1. t \in crew
          BY <3>3, TickFacts
        <4> QED
          BY <2>2, <3>3, <4>1
      <3>4. ASSUME NEW t \in UNION Crews,
                   \/ TickRead(t) \/ ToggleRead(t)
                   \/ \E want \in BOOLEAN, h \in HoursChoices : UpdateRead(t, want, h)
            PROVE  Keeps
        <4>1. UNCHANGED <<now, shop, hours, crew, regular, acted>>
          BY <3>4, ShopReads
        <4> QED
          BY <2>2, <4>1
      <3> QED
        BY <3>1, <3>2, <3>3, <3>4 DEF ShopNext
    <2> QED
      BY <2>1, <2>2
  <1> QED
    BY <1>1, ShopSafe, PTL DEF KeepsHours, ShopSpec

-----------------------------------------------------------------------------
(* Zones.                                                                     *)
(* The rings of zones that are active and always available never meet: each   *)
(* handler that lets a zone join them checks its ring against the others'.    *)

(* Every set of natural numbers that is not empty has a least one.            *)
LEMMA LeastNatural ==
  ASSUME NEW S, S \subseteq Nat, S # {}
  PROVE  \E m \in S : \A n \in S : m <= n
  <1> DEFINE Less == {ss \in Nat \X Nat : ss[1] < ss[2]}
  <1>1. IsWellFoundedOn(Less, Nat)
    BY NatLessThanWellFounded DEF OpToRel
  <1>2. PICK m \in S : \A n \in S : ~ (<<n, m>> \in Less)
    <2> HIDE DEF Less
    <2> QED BY <1>1, WFMin
  <1>3. \A n \in S : <<n, m>> \in Nat \X Nat /\ <<n, m>>[1] = n /\ <<n, m>>[2] = m
    OBVIOUS
  <1>4. \A n \in S : ~ (n < m)
    BY <1>2, <1>3
  <1>5. \A n \in S : n \in Nat
    OBVIOUS
  <1> QED
    BY <1>4, <1>5

(* The rings of two zones do not meet.                                        *)
Apart(y, z) == ~ Overlap(zones[y].ring, zones[z].ring)

(* A zone that is active and always available.                                *)
Steady(z) == z \in ActiveZones /\ zones[z].hours = Always

(* The inductive invariant: rows are rows, rings are not empty, and zones     *)
(* that are always available and active do not overlap.                       *)
ZoneInv ==
  /\ zoneNow \in Int
  /\ zones \in [ZoneIds -> ZoneRow \cup {NoZone}]
  /\ \A z \in Kept : zones[z].ring[1] < zones[z].ring[2]
  /\ \A y, z \in ZoneIds : y # z /\ Steady(y) /\ Steady(z) => Apart(y, z)

(* What the rows hold.                                                        *)
LEMMA KeptRows ==
  ASSUME ZoneInv, NEW z \in Kept
  PROVE  /\ z \in ZoneIds /\ zones[z] \in ZoneRow
         /\ zones[z].ring[1] \in Nat /\ zones[z].ring[2] \in Nat
         /\ zones[z].hours \in ZoneHours \cup {Always} /\ zones[z].row \in Row
         /\ zones[z].ring \in Rings /\ zones[z].ring[1] < zones[z].ring[2]
  <1>1. z \in ZoneIds /\ zones[z] \in ZoneRow /\ zones[z].ring[1] < zones[z].ring[2]
    BY DEF ZoneInv, Kept
  <1>2. zones[z].ring \in Rings /\ zones[z].hours \in ZoneHours \cup {Always} /\ zones[z].row \in Row
    BY <1>1 DEF ZoneRow
  <1>3. zones[z].ring \in Nat \X Nat
    BY <1>2, ZoneAssumption
  <1> QED
    BY <1>1, <1>2, <1>3

(* A zone is quoted for every distance that an active ring holds: one whose   *)
(* ring holds it, too.                                                        *)
LEMMA QuotedRing ==
  ASSUME ZoneInv, NEW z \in ActiveZones, NEW d \in Int,
         zones[z].ring[1] <= d, d < zones[z].ring[2]
  PROVE  LET q == QuotingZone(d) IN
         q \in ActiveZones /\ zones[q].ring[1] <= d /\ d < zones[q].ring[2]
  <1> DEFINE hit == {y \in ActiveZones : zones[y].ring[1] <= d /\ d < zones[y].ring[2]}
             Wide(y) == zones[y].ring[2] - zones[y].ring[1]
             Before(y, x) == \/ Wide(y) < Wide(x)
                             \/ Wide(y) = Wide(x) /\ zones[y].ring[1] <= zones[x].ring[1]
             Widths == {Wide(y) : y \in hit}
  <1>1. z \in hit
    OBVIOUS
  <1>2. \A y \in hit : Wide(y) \in Nat /\ zones[y].ring[1] \in Nat
    BY KeptRows DEF ActiveZones
  <1>3. PICK w \in Widths : \A v \in Widths : w <= v
    <2>1. Widths \subseteq Nat /\ Widths # {}
      <3> HIDE DEF Wide
      <3> QED BY <1>1, <1>2
    <2> HIDE DEF Widths
    <2> QED BY <2>1, LeastNatural
  <1> DEFINE Starts == {zones[y].ring[1] : y \in {x \in hit : Wide(x) = w}}
  <1>4. PICK s \in Starts : \A t \in Starts : s <= t
    <2>1. Starts \subseteq Nat /\ Starts # {}
      <3> HIDE DEF Wide
      <3> QED BY <1>2, <1>3
    <2> HIDE DEF Starts
    <2> QED BY <2>1, LeastNatural
  <1>5. PICK y \in hit : Wide(y) = w /\ zones[y].ring[1] = s
    <2> HIDE DEF Wide, hit
    <2> QED BY <1>4
  <1>6. \A x \in hit : Before(y, x)
    <2> TAKE x \in hit
    <2>1. w <= Wide(x) /\ Wide(x) \in Nat /\ Wide(y) = w
      <3> HIDE DEF Wide, hit
      <3> QED BY <1>2, <1>3, <1>5
    <2>2. CASE Wide(x) = w
      <3>1. s <= zones[x].ring[1]
        <4> HIDE DEF Wide, hit
        <4> QED BY <1>4, <2>2
      <3> QED
        BY <1>5, <2>1, <2>2, <3>1
    <2>3. CASE Wide(x) # w
      <3> HIDE DEF Wide, hit
      <3> QED BY <2>1, <2>3, <1>2, <1>5
    <2> QED
      BY <2>2, <2>3
  <1>7. QuotingZone(d) = CHOOSE q \in hit : \A x \in hit : Before(q, x)
    BY <1>1 DEF QuotingZone
  <1>8. QuotingZone(d) \in hit
    <2> HIDE DEF hit, Before
    <2> QED BY <1>5, <1>6, <1>7
  <1> QED
    BY <1>8

(* The invariant is what the quotes need.                                     *)
LEMMA SteadyRingsQuoted ==
  ASSUME ZoneInv
  PROVE  AroundTheClockQuotes
  <1> SUFFICES ASSUME NEW z \in ActiveZones, zones[z].hours = Always,
                      NEW d \in zones[z].ring[1]..(zones[z].ring[2] - 1),
                      QuotingZone(d) # z
               PROVE  QuotingZone(d) # NoZone /\ zones[QuotingZone(d)].hours # Always
    BY DEF AroundTheClockQuotes
  <1> DEFINE q == QuotingZone(d)
  <1>1. d \in Int /\ zones[z].ring[1] <= d /\ d < zones[z].ring[2]
    BY KeptRows DEF ActiveZones
  <1>2. q \in ActiveZones /\ zones[q].ring[1] <= d /\ d < zones[q].ring[2]
    BY <1>1, QuotedRing
  <1> HIDE DEF q
  <1>3. q \in ZoneIds /\ q # NoZone /\ z \in ZoneIds
    BY <1>2, ZoneAssumption DEF ActiveZones, Kept
  <1>4. ~ Apart(q, z)
    <2>1. zones[q].ring[1] < zones[z].ring[2] /\ zones[z].ring[1] < zones[q].ring[2]
      BY <1>1, <1>2, KeptRows DEF ActiveZones
    <2> QED
      BY <2>1 DEF Apart, Overlap
  <1>5. zones[q].hours # Always
    BY <1>2, <1>3, <1>4 DEF ZoneInv, Steady, q
  <1> QED
    BY <1>3, <1>5 DEF q

(* The dates a row is stamped with are days.                                  *)
LEMMA PeriodIsDay ==
  ASSUME NEW time \in Int, NEW h
  PROVE  PeriodDate(time, h) \in Int
  BY ScheduleAssumption DEF PeriodDate, Day

(* A tick and a person leave a row a row.                                     *)
LEMMA RowsStayRows ==
  ASSUME NEW row \in Row, NEW h, NEW time \in Int, NEW on \in BOOLEAN
  PROVE  ApplySchedule(row, h, time) \in Row /\ NoteManual(row, on, h, time) \in Row
  BY PeriodIsDay DEF Row, ApplySchedule, NoteManual, DueToClose

(* Rows that change in one zone keep the invariant, when its ring is free.    *)
LEMMA OneZone ==
  ASSUME ZoneInv, NEW z \in ZoneIds, NEW new \in ZoneRow,
         new.ring[1] < new.ring[2],
         new.row.on /\ new.hours = Always =>
           \A o \in Kept \ {z} : zones[o].row.on => ~ Overlap(new.ring, zones[o].ring),
         zones' = [zones EXCEPT ![z] = new], zoneNow' = zoneNow
  PROVE  ZoneInv'
  <1>1. new # NoZone /\ new.ring \in Nat \X Nat
    BY ZoneAssumption DEF ZoneRow
  <1>3. /\ zones' \in [ZoneIds -> ZoneRow \cup {NoZone}] /\ zones'[z] = new
        /\ \A y \in ZoneIds \ {z} : zones'[y] = zones[y]
    BY DEF ZoneInv
  <1>4. \A y \in Kept' : zones'[y].ring[1] < zones'[y].ring[2]
    BY <1>3 DEF Kept, ZoneInv
  <1>5. \A y \in ZoneIds \ {z} : Steady(y)' => Steady(y) /\ y \in Kept /\ zones[y].row.on
    BY <1>3 DEF Steady, ActiveZones, Kept
  <1>6. ASSUME NEW y \in ZoneIds \ {z}, Steady(y)', Steady(z)'
        PROVE  Apart(y, z)' /\ Apart(z, y)'
    <2>1. new.hours = Always /\ new.row.on
      BY <1>3, <1>6 DEF Steady, ActiveZones
    <2>2. ~ Overlap(new.ring, zones[y].ring)
      BY <1>5, <1>6, <2>1
    <2> QED
      BY <1>3, <2>2 DEF Apart, Overlap
  <1>7. \A x, y \in ZoneIds : x # y /\ Steady(x)' /\ Steady(y)' => Apart(x, y)'
    <2> TAKE x, y \in ZoneIds
    <2> HAVE x # y /\ Steady(x)' /\ Steady(y)'
    <2>1. CASE x # z /\ y # z
      BY <1>3, <1>5, <2>1 DEF ZoneInv, Apart
    <2>2. CASE x = z \/ y = z
      BY <1>6, <2>2
    <2> QED
      BY <2>1, <2>2
  <1> QED
    BY <1>3, <1>4, <1>7 DEF ZoneInv

(* A new zone is compared with the active ones.                               *)
LEMMA ZoneCreated ==
  ASSUME ZoneInv, NEW z \in ZoneIds, NEW ring \in Rings, NEW h \in ZoneHours \cup {Always},
         CreateZone(z, ring, h)
  PROVE  ZoneInv'
  <1> DEFINE new == [ring |-> ring, hours |-> h,
                     row |-> [on |-> TRUE, opened |-> NoDate, closed |-> NoDate]]
  <1>1. new \in ZoneRow /\ new.ring = ring /\ new.row.on = TRUE
    BY DEF ZoneRow, Row
  <1>2. zones' = [zones EXCEPT ![z] = new] /\ zoneNow' = zoneNow
    BY DEF CreateZone
  <1>3. /\ ring[1] < ring[2]
        /\ \A o \in Kept \ {z} : zones[o].row.on => ~ Overlap(ring, zones[o].ring)
    <2>1. ring[1] \in Nat /\ ring[2] \in Nat
      BY ZoneAssumption
    <2> QED
      BY <2>1 DEF CreateZone, RangeFree
  <1> HIDE DEF new
  <1> QED
    BY <1>1, <1>2, <1>3, OneZone

(* So is one that is changed or switched on, with what it will be.            *)
LEMMA ZoneUpdated ==
  ASSUME ZoneInv, NEW z \in ZoneIds, NEW ring \in Rings \cup {Unsent},
         NEW h \in ZoneHours \cup {Always, Unsent}, NEW on \in BOOLEAN \cup {Unsent},
         UpdateZone(z, ring, h, on)
  PROVE  ZoneInv'
  <1> DEFINE Sent(value, was) == IF value = Unsent THEN was ELSE value
             old  == zones[z]
             row  == [old.row EXCEPT !.on = Sent(on, @),
                                     !.opened = IF h = Always THEN NoDate ELSE @]
             new  == [ring |-> Sent(ring, old.ring), hours |-> Sent(h, old.hours), row |-> row]
             noted == [new EXCEPT !.row = NoteManual(@, on, new.hours, zoneNow)]
  <1>1. z \in Kept /\ zoneNow \in Int /\ zoneNow' = zoneNow
    BY DEF UpdateZone, Kept, ZoneInv
  <1>2. old.ring \in Rings /\ old.hours \in ZoneHours \cup {Always} /\ old.row \in Row
    BY <1>1, KeptRows
  <1>3. row \in Row
    BY <1>2, ZoneAssumption DEF Row
  <1>4. Sent(ring, old.ring) \in Rings /\ Sent(h, old.hours) \in ZoneHours \cup {Always}
    BY <1>2
  <1>5. /\ new.ring[1] < new.ring[2]
        /\ new.row.on => \A o \in Kept \ {z} : zones[o].row.on => ~ Overlap(new.ring, zones[o].ring)
    <2>1. new.ring[1] \in Nat /\ new.ring[2] \in Nat
      BY <1>4, ZoneAssumption
    <2> QED
      BY <2>1 DEF UpdateZone, RangeFree
  <1>6. zones' = [zones EXCEPT ![z] = IF on # Unsent /\ new.hours # Always THEN noted ELSE new]
    BY DEF UpdateZone
  <1> HIDE DEF row
  <1>7. new \in ZoneRow
    BY <1>3, <1>4 DEF ZoneRow
  <1>8. CASE on # Unsent /\ new.hours # Always
    <2>1. NoteManual(row, on, new.hours, zoneNow) \in Row
      BY <1>1, <1>3, <1>8, RowsStayRows
    <2>2. noted \in ZoneRow /\ noted.hours = new.hours /\ noted.ring = new.ring
      BY <1>4, <2>1 DEF ZoneRow
    <2>3. noted.ring[1] < noted.ring[2]
      BY <1>5, <2>2
    <2> HIDE DEF noted, new
    <2>4. zones' = [zones EXCEPT ![z] = noted]
      BY <1>6, <1>8
    <2> QED
      BY <1>1, <1>8, <2>2, <2>3, <2>4, OneZone
  <1>9. CASE ~ (on # Unsent /\ new.hours # Always)
    <2> HIDE DEF noted, new
    <2> QED BY <1>1, <1>5, <1>6, <1>7, <1>9, OneZone
  <1> QED
    BY <1>8, <1>9

(* A zone that is gone meets no other.                                        *)
LEMMA ZoneDeleted ==
  ASSUME ZoneInv, NEW z \in ZoneIds, DeleteZone(z)
  PROVE  ZoneInv'
  <1>1. /\ zones' \in [ZoneIds -> ZoneRow \cup {NoZone}] /\ zones'[z] = NoZone
        /\ \A y \in ZoneIds \ {z} : zones'[y] = zones[y]
        /\ zoneNow' = zoneNow
    BY DEF ZoneInv, DeleteZone
  <1>2. \A y \in ZoneIds : Steady(y)' => Steady(y) /\ zones'[y] = zones[y]
    BY <1>1 DEF Steady, ActiveZones, Kept
  <1>3. \A x, y \in ZoneIds : x # y /\ Steady(x)' /\ Steady(y)' => Apart(x, y)'
    BY <1>1, <1>2 DEF ZoneInv, Apart
  <1>4. \A y \in Kept' : zones'[y].ring[1] < zones'[y].ring[2]
    BY <1>1 DEF Kept, ZoneInv
  <1> QED
    BY <1>1, <1>3, <1>4 DEF ZoneInv

(* The tick opens only zones that are not always available.                   *)
LEMMA ZonesTicked ==
  ASSUME ZoneInv, ZoneTick
  PROVE  ZoneInv'
  <1>1. ASSUME NEW z \in ZoneIds
        PROVE  /\ zones'[z] \in ZoneRow \cup {NoZone}
               /\ zones[z] = NoZone <=> zones'[z] = NoZone
               /\ zones[z] # NoZone => zones'[z].ring = zones[z].ring /\ zones'[z].hours = zones[z].hours
               /\ zones[z] # NoZone /\ zones[z].hours = Always => zones'[z] = zones[z]
    <2>1. CASE zones[z] = NoZone \/ zones[z].hours = Always
      BY <2>1 DEF ZoneTick, ZoneInv
    <2>2. CASE zones[z] # NoZone /\ zones[z].hours # Always
      <3>1. zones[z] \in ZoneRow /\ zones[z].row \in Row /\ zoneNow \in Int
        BY <2>2, KeptRows DEF Kept, ZoneInv
      <3>2. ApplySchedule(zones[z].row, zones[z].hours, zoneNow) \in Row
        BY <3>1, RowsStayRows
      <3>3. zones'[z] = [zones[z] EXCEPT !.row = ApplySchedule(zones[z].row, zones[z].hours, zoneNow)]
        BY <2>2 DEF ZoneTick
      <3>4. zones'[z] \in ZoneRow /\ zones'[z].ring = zones[z].ring /\ zones'[z].hours = zones[z].hours
        BY <3>1, <3>2, <3>3 DEF ZoneRow
      <3> QED
        BY <2>2, <3>4, ZoneAssumption
    <2> QED
      BY <2>1, <2>2
  <1>2. zones' \in [ZoneIds -> ZoneRow \cup {NoZone}] /\ zoneNow' = zoneNow
    <2>1. zones' = [z \in ZoneIds |-> zones'[z]]
      BY DEF ZoneTick
    <2> QED
      BY <1>1, <2>1 DEF ZoneTick
  <1>3. \A z \in ZoneIds : Steady(z)' => Steady(z) /\ zones'[z] = zones[z]
    BY <1>1 DEF Steady, ActiveZones, Kept
  <1>4. \A x, y \in ZoneIds : x # y /\ Steady(x)' /\ Steady(y)' => Apart(x, y)'
    BY <1>3 DEF ZoneInv, Apart
  <1>5. \A y \in Kept' : zones'[y].ring[1] < zones'[y].ring[2]
    BY <1>1 DEF Kept, ZoneInv
  <1> QED
    BY <1>2, <1>4, <1>5 DEF ZoneInv

(* Zones that are always available and active never overlap.                  *)
LEMMA ZoneSafe == ZoneSpec => []ZoneInv
  <1>1. ZoneInit => ZoneInv
    BY DEF ZoneInit, ZoneInv, Kept, Steady, ActiveZones
  <1>2. ZoneInv /\ [ZoneNext]_zoneVars => ZoneInv'
    <2>1. ZoneInv /\ ZoneClock => ZoneInv'
      <3> SUFFICES ASSUME ZoneInv, ZoneClock PROVE ZoneInv'
        OBVIOUS
      <3>1. zoneNow' \in Int /\ zones' = zones
        BY DEF ZoneInv, ZoneClock
      <3> QED
        BY <3>1 DEF ZoneInv, Kept, Steady, ActiveZones, Apart
    <2>2. ZoneInv /\ UNCHANGED zoneVars => ZoneInv'
      BY DEF ZoneInv, zoneVars, Kept, Steady, ActiveZones, Apart
    <2> QED
      BY <2>1, <2>2, ZoneCreated, ZoneUpdated, ZoneDeleted, ZonesTicked DEF ZoneNext
  <1> QED
    BY <1>1, <1>2, PTL DEF ZoneSpec

(* A distance in an active ring that is always available is quoted that       *)
(* ring's price, or that of a zone switched by the clock: never another       *)
(* steady ring's, however the admin edits zones and the clock switches them   *)
(* (_assert_zone_range_free, delivery_rates_for_distance).                    *)
THEOREM ZonesQuoteAroundTheClock == ZoneSpec => []AroundTheClockQuotes
  BY ZoneSafe, SteadyRingsQuoted, PTL
=============================================================================
