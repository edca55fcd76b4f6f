# LalganjEats backend: TLA+ models and proofs

This directory models the LalganjEats backend (FastAPI, SQLAlchemy, PostgreSQL) -
orders, deliveries, payments, menus, opening hours, logins, tracking: small state
machines written from the source, TLC configurations that explore them, and TLAPS
proofs of what holds for any number of orders, riders and workers.  `PROJECT.json` ties every definition to
the lines it models, and lists the runs, mutants, hazards, findings and theorems.

## How the code behaves under concurrency

FastAPI runs a synchronous handler in a worker thread with a database session of
its own (`app/core/database.py`, `SessionLocal`, `autoflush=False`).  No handler
takes a row lock and the isolation level is PostgreSQL's default, READ COMMITTED.
So every handler has the same shape:

1. SELECT some rows and decide (every early return is here);
2. assign attributes of the loaded objects;
3. `commit()`: an UPDATE of the columns whose value *differs from the value read*;
4. sometimes go on: another session (`start_dispatch`, `process_payment_split`), a
   background task, a push.

Between 1 and 3 any other request may commit.  The models keep exactly that: a
thread holds a *request* record with the next step and what it has read; a `...Read`
action is step 1 with all its guards, a `...Commit` action is steps 2-3 on the rows
as they are *now*, and `FlushOf(seen, new, now)` is the ORM's "write only what
changed" (a handler that read `ready` and sets `ready` writes nothing, even if the
row says `picked_up` by now).  `Fail` drops a request between any two steps: a
database error, a deadlock victim, a killed worker.  Bulk statements
(`query.update`, `query.delete`) are evaluated on the rows at the commit.

With `Threads` a singleton the same specification is the code run one handler at a
time, still failing anywhere.  Comparing the two shows which properties the code
keeps by itself and which need the serialisation it does not have.

Not every part is modelled at that grain.  `Fulfilment`, `Checkout`, `Shops`,
`CashRemittance` and `Tracking` interleave requests.  `MultiStore` and `Login` let one
request run at a time but keep its transactions apart, and lose the worker between
two of them.  `Promo`, `Catalogue`, `MenuScripts`, `DoorMoney`, `Zones`, `RoadQuotes`
and `Payouts` take each request as one step: their hazards are sequences of legal
calls, and where two calls at once do break a rule the hazard's note says so.

## Inventory

| Part | State | Operations | What is hard | What makes it correct |
|---|---|---|---|---|
| Placing an order (`orders/service.py`, `multi_store.py`) | orders, items | place_order, place_multi_store_order, stale-draft sweep | order number race, sweep against a late capture, promo use | totals add up; a paid capture is never rewritten |
| Payments (`payments/router.py`, `payment_split.py`) | payment columns, earnings, bank accounts, withdrawals | create-order, verify, webhook, split, withdrawal | repeated and reordered webhooks, several attempts, double split, crash after commit | paid only with captured money, of this order once an attempt is named; captured gets paid; one earning per order |
| Restaurant portal (`hotel_portal/`) | orders.status, menu, is_open | update_order_status, toggle-status, menu CRUD | stale writes, cancel from any status | stages in order; cooks paid orders only |
| Dispatch (`delivery/dispatch.py`) | delivery_offers, orders.delivery_partner_id, reminder set | start_dispatch, ensure_open_offers_for_partner, accept_offer, reject_offer, reminders | two accepts, duplicate inserts, everyone rejects | one rider per order; every rider hears of an open order |
| Rider's desk (`delivery/router.py`, `otp/service.py`) | orders.status, OTP, wallet, collection link | picked-up, send-otp, complete, collect-online | double tap, lost wallet updates, replaced links | delivered only in order; wallet adds up |
| Admin (`admin/services/orders.py`, `settlements.py`) | everything above | cancel_order, settle earnings, clear cash | races with completion, split and settlement | a cancellation leaves nothing behind; settled money stays |
| Multi-store lifecycle (`orders/multi_store.py`, `multi_store_lifecycle.py`) | parent and sub-orders, attempts, refunds | payment, stores' answers, cancel_store_share, derived status, dispatch, delivery | stores dropping out in any state of the payment, several attempts paid, worker lost between commit and refund | refunds add up; stores earn their share; the rider leaves with every store's goods |
| Promo codes (`promocodes/service.py`) | remaining_uses, usages | admin's edits, validate, apply | limits and audiences changed between orders, cancelled orders, devices | never over-redeemed; once per customer |
| Money at the door (`delivery/router.py`, `payments/router.py`) | link columns of the order | collect-online, poll, two webhooks, complete | replaced links, late payments | what is booked online was paid |
| Cash remittance (`payments/cash_remittance.py`) | remittances, orders.cash_remittance_id | initiate, paid (app, webhook), release, clear by hand | late payment of a failed attempt | cash is cleared once |
| Bank accounts, withdrawals (`payments/router.py`) | accounts, withdrawals | add, withdraw, approve | accounts replaced between request and payout | the newest account is paid |
| Pricing (`payments/breakdown.py`, `payment_split.py`, `revenue.py`) | none | split, payment views, revenue | rounding; four views of the same columns | parts add up to the total; the views agree |
| Schedules (`core/schedule_hours.py`, `scheduler.py`) | is_open, date stamps | minute tick, manual toggle, admin's update | overnight windows, first day, lost update | opens and closes once per period |
| Zones (`superadmin/`, `restaurants/service_area.py`) | rings, switches | create, update, delete, tick | rings checked against the zones active now | a distance has one rate |
| Road quotes (`core/maps.py`, `restaurants/`) | distance cache | list, menu page, place order | cache expiry, estimates | the quoted charge is charged |
| Tracking (`tracking/`, `websocket/`) | rooms in memory | ping, broadcast, connect, poll | stale snapshot, reordering, lost sends | a map ends with the last state |
| Accounts (`auth/`, `otp/`) | users, codes | send code, log in, partners | worker lost between transactions, several codes | the last code logs in, once |
| Catalogue (`restaurants/`, `admin/`, `hotel_portal/`, shelves, search) | shops, subcategories, items, sizes | CRUD by the admin and the shop; lists, search, shelves, menu page, cart | four readers filter for themselves; two writers know different columns | what is offered can be ordered at that price |
| Menu scripts (`scripts/`) | the same rows | load a menu, raise prices | a menu edited since; names that differ in case or spaces; 15 copies of one function | a loaded menu is complete, and loading it again changes nothing |
| Addresses, reports, dashboards, banners, superadmin rows, notifications, files, SEO, seeds | rows | CRUD, read-only queries, external I/O | little | not modelled (see the end) |

Interaction: placing creates the row; payments make it visible to the restaurant;
the restaurant's acceptance starts the dispatch; an accepted offer gives the order
to a rider; completion pays, credits the wallet and starts the split; the admin can
cancel at any point.  All of them share the `orders` row and none locks it.  Around
them: the schedule and the zones decide who may order from whom, the catalogue and the
quotes what it costs, the promo codes what is taken off; the remittances and payouts
move the money afterwards; tracking shows it all and writes nothing.

## Modules

| Module | Models |
|---|---|
| `OrderStore` | the shared rows, requests, `FlushOf`, `Fail`, `Init`, `TypeOK` |
| `HotelPortal` | `update_order_status` of a single-store order |
| `Dispatch` | `start_dispatch`, `ensure_open_offers_for_partner` (the dashboard's poll), `accept_offer`, `reject_offer` |
| `RiderDesk` | picked-up, send-otp and its expiry, complete |
| `PaymentSplit` | `process_payment_split` (background and after completion), the two settlements |
| `AdminOrders` | `cancel_order` |
| `Fulfilment` | composes the five over one store; the properties |
| `MCFulfilment` | symmetry of riders and of threads |
| `Broadcast` | the restaurant's and the dispatch's actions alone, with fairness, for liveness |
| `Checkout`, `MCCheckout` | one customer's prepaid orders: placing and sweeping, create-order, capture, `/verify`, webhook, the restaurant's and the admin's answers |
| `EarningsLedger` | abstract: what an order's earning may become; `Fulfilment` implements it twice (restaurant, rider) |
| `Schedule` | the date arithmetic and the tick of `schedule_hours.py`, for shops and zones |
| `OpeningHours` | abstract: each opening and closing is acted on once; `Shops` implements it |
| `Shops` | one restaurant under tick, toggle and admin's update, reading and committing apart |
| `Zones` | rings around the town, their hours, the rate of a distance |
| `RoadQuotes` | distances, their cache, the quote and the charge |
| `Login` | codes, logins, partners' accounts |
| `Tracking` | pings, broadcasts, sockets, rooms, polls |
| `MCClock` | composes the five, instances |
| `MultiStore` | one order of several stores, from payment to delivery, cancellation and split |
| `Promo` | codes, carts, uses |
| `Bill`, `DoorMoney` | the money views of an order; links, confirmation, completion |
| `CashRemittance` | one rider's cash, two workers |
| `Payouts` | accounts and withdrawals |
| `Catalogue` | shops, subcategories, items with sizes, and the four readers |
| `MenuScripts` | the scripts, over `Catalogue` |
| `MCMoney` | composes the six, instances |
| `FulfilmentProofs` | theorems about `Fulfilment`, and its refinement of `EarningsLedger` |
| `CheckoutProofs` | theorems about `Checkout` |
| `MultiStoreProofs` | theorems about `MultiStore` |
| `CatalogueProofs` | theorems about `Catalogue` and `MenuScripts` |
| `DoorProofs` | theorems about `Bill` and `DoorMoney` |
| `MoneyProofs` | theorems about `Promo`, `CashRemittance`, `Payouts` |
| `ClockProofs` | theorems about `Zones` and `Shops`, and the refinement of `OpeningHours` |
| `CustomerProofs` | theorems about `Login` and `RoadQuotes` |

`MCClock` and `MCMoney` put parts that share no rows side by side: a variable `part`
says which one a behaviour is about, and the others stay in an initial state.  The
state space is the sum of the parts', not their product, and nothing is lost, as no
action of one reads a variable of another (`Catalogue` and `MenuScripts`, `Bill` and
`DoorMoney`, which do, are one part).

In `Fulfilment` an order starts pending and payable on delivery, or already paid
online with its split queued (`Prepayments`); how it gets paid is `Checkout`, and that
`/verify` can make an order that is payable on delivery a prepaid one on its way is
in `MultiStore` alone.
`reached`, `credited`, `voided` and `everPaid` are history for the properties; no
action reads them.  A payout is one unit of `wallet`; amounts are left out.
`PickUpRead` and `CompleteRead` let "the order's rider" act: the handlers filter on
`delivery_partner_id = current_user`.  `takesCash` stands for the split between
cash and a doorstep link.  The rider's `is_online` flag is left out: the broadcast
does not look at it (`is_broadcast_recipient`), and the poll, which does, may happen
at any time here; the fairness of `Broadcast` is that of riders who are online.  The hotel app's `ready` from `ready`
is kept: it is where a stale write is silently dropped by the ORM.

In `Checkout` a payment is named by the Razorpay order it paid.  A signature says that
Razorpay captured the payment, not for what: `Signed` is every captured payment, those
of the other orders and, in `Elsewhere`, those of remittances and older orders.
`/verify` compares it with the attempt on the row only if the row names one
(`payments/router.py:430`); `unnamed` remembers, for the properties, the orders it paid
from a row that named none.  `Capture` may happen at any time after `/create-order`,
whatever became of the order, and of several attempts of one order.  A webhook stays in
`hooks` until a request that reports success acknowledges it, and may also be
repeated after that (`HookRead` asks only for a capture).

In `Shops` a day is cut into `Slots` and time stands still while a request is in
flight; a slot may pass without a tick.  `acted` and `regular` are history.  In
`MultiStore` `req` is the rest of a handler that has committed its first transaction;
`lost` and `waived` remember for the properties that a worker was lost in between.  Every
attempt stays open at the gateway until it is paid: the first payment is `gate.in`, those
of an order that was paid already add up in `gate.again`, and `gate.left` is what the
gateway can still give back of the payment on the row.  A payment of something else
(`VerifyUnnamed`) brings nothing in.  In `Promo` a use keeps the audience it was taken
under, and `readdressed` marks the codes whose audience was changed, both for the
properties.  In `CashRemittance` a row whose gateway order is not known yet is paid by
any signed payment, as in `/verify`.  In
`DoorMoney` amounts are whole paise, rounded where the code rounds; `strayed` remembers the one booking that its property excepts.  In `Catalogue`
the database is one record, so that a script is a function from databases to the set of
databases it can leave, empty when it raises.  Each script carries a copy of the same
functions with small differences, so `MenuScripts` has a definition for each copy and
one for what they share: `ItemOf` makes an item of a row, `Upserted` puts an item into a
menu, `Loaded` is the loop over the items.  The scripts find a row's item by its name in
lower case (`LowerOf`), and V3's retires by the name without case and superfluous spaces
(`NormalOf`).  In `Login` a rider's account may be older than his onboarding.  In `Tracking` an update in flight is a view with a
recipient; updates arrive in any order or not at all.

## Runs

| Run | Instance | Shows |
|---|---|---|
| `fulfilment_race` | 1 order, 2 riders, 2 threads, paid or not at the start; symmetry | what survives any two requests in flight: stages in order, carrier was offered, earnings only when paid, cash only from a delivery, settled money is final; and that both ledgers implement `EarningsLedger` |
| `fulfilment_serial` | 2 orders (one prepaid), 2 riders (one may carry several), 1 thread | exclusive lock, one active order, wallet adds up, both ledgers name the carrier, clean cancellation |
| `broadcast_live` | 1 order, 2 riders, 2 threads, fairness | every rider gets an offer row for an order that stays open |
| `fulfilment_lock` | 1 order, 2 riders, 2 threads | violation: two riders hold one order |
| `checkout_race` | 2 orders, 2 attempts, 2 threads; symmetry | paid and cooked only with captured money, of the order itself once it names an attempt; failed is not pending |
| `checkout_serial` | 2 orders, 2 attempts, 1 payment elsewhere, 1 thread, fairness | paid stays paid, the last order survives, alerted at most once, captured gets paid |
| `checkout_sweep` | 2 orders, 2 attempts, 2 threads | violation: a sweep fails a paid order |
| `clock` | `Clock.cfg`: a shop with day or night hours over 2 days of 3 slots, with one or two workers; 2 zones of 3 possible rings; 2 roads over 6 days; 2 phones, 2 codes; 1 socket, 1 ping | `Shops` keeps its hours as `OpeningHours` asks, no edge is acted on twice in a race, a distance has an around-the-clock rate, the quoted charge is charged, sessions are earned, an open map catches up |
| `clock_first_day` | the same | violation: a shop opened by hand on its first day stays open past closing |
| `money` | `Money.cfg`: 2 codes, 2 orders; 2 stores, 2 attempts; 4 bills, 2 links; 2 cash orders, 3 remittances; 3 accounts and withdrawals; 7 towns of 2 shops, 2 items, 2 edits and every script | the properties of orders of several stores, promo codes, money at the door, cash, payouts, menus and scripts |
| `menu_price` | the same | violation: a row's price differs from its first size's |
| `tracking_push` | as `clock` | violation: a ping is not pushed |

Every instance is explored completely; there is no state constraint.  The bounds that
stand in guards are `MaxOrders` and `Attempts` in `Checkout`, `MaxOrders` in `Promo`,
`MaxTries` (attempts for an order of several stores), `MaxLinks`, `MaxRemits`, `MaxRows` (accounts, withdrawals), `MaxItems` and `MaxEdits`
(menu), `LastDay`, `LastMinute`, `MaxCodes`, `MaxPings`, `Days` and `ZoneDays`.  `clock`
has about 1.5 million states, `money` about 658 000, `checkout_race` 2.1 million; each
takes one to two and a half minutes.

Why they are enough: a race of this code needs one stale request and one that commits
meanwhile, so two threads; two riders are needed to compete and a third adds only a
symmetric loser; rules across orders (one active order, the wallet, the sweep) need two
orders.  Two attempts let the payment of the older one come late, of one order, or of the
other; the second order's payments are the foreign ones of the race, so `Elsewhere` is
empty there.  A promo code needs two uses, of one code or of two, and an order that is
cancelled or a code that is changed between them, and a limit of one is used up by the
first; two attempts of an order of several stores are one that is paid and one that is
paid again.  A link or a remittance needs a
replaced one, a late payment and a third that follows; the bills cover a promo larger
than the order, charges changed after placing, by a little and by more than the bill, and
odd paise.  Night hours run over
midnight, so two days see every edge twice.  A menu needs one item that a script's rows
overwrite, one that they do not know and one whose name differs from a row's in a space
and another in case; two edits put an item into each state a script
can meet (deleted, renamed, disabled subcategory, other sizes).  A cached distance
expires after two days, and six days have room for a quote, an expiry and a second
quote.  The theorems remove the bounds for the safety properties they cover.

Symmetry is used only in runs whose temporal properties are action properties; the
permuted constants appear in no definition by name.  Deadlock is allowed where an
instance ends at a bound (`clock`, `money` and the violation runs over them).

### Fairness

`Broadcast!Fairness`: a worker carries its request on or loses it (weak fairness
of `Carry`, which `Fail` may pre-empt); the app of a rider who is online polls the
dashboard every five seconds (`dispatch.py:454`), so its poll is strongly fair,
and so are its two further steps - a poll does not fail for ever. No fairness for
the restaurant, for the answers of riders or for `Fail`.

`Checkout!Fairness`: weak fairness for requests in flight; strong fairness for the
delivery of an unacknowledged webhook and for its commit - Razorpay repeats a
webhook that was not acknowledged, and it does not fail every time.  The app's
`/verify` is not assumed.

`Tracking!TrackFair`: weak fairness of the customer's poll and of showing its answer,
while the page is open (`tracking/router.py`: "Poll every 3-5 seconds from the app").
Nothing is assumed of pings, pushes, sockets or the rooms.

## Findings

1. **Two riders, one order** (`fulfilment_lock`).  `dispatch.py:8` says "The first
   partner to accept locks the order exclusively".  `accept_offer` tests
   `delivery_partner_id` and sets it at commit, without a lock or a conditional
   UPDATE.  Two riders that both pass the test are both answered "Order accepted";
   the later commit owns the row.  `SerialLock` proves the sentence for handlers
   run one at a time.
2. **A paid order is failed by a sweep** (`checkout_sweep`).  `payment_state.py:41`
   says "Never rewrite a paid capture".  `place_order` loads the customer's older
   drafts and commits them as failed; a capture recorded in between is overwritten,
   and the order cancelled.  `SerialPayment` proves the sentence for handlers run
   one at a time.

3. **A shop stays open on its first day** (`clock_first_day`).  `schedule_hours.py:98`
   says "At closing (first tick outside after that period opened) -> turn OFF".  A shop
   without a stamp that is opened by hand before its hours gets both stamps of that day
   (`schedule_hours.py:149-150`), and the closing tick finds its work done.
4. **A row's price and its sizes drift apart** (`menu_price`).  `admin/services/restaurants.py:370`
   says "Parent row mirrors the first (default) variant".  The shop's own portal sets the
   row's price and knows no sizes (`hotel_portal/router.py:356`).  For an item with one
   size called Regular the page shows the row's price and the order is charged the
   size's.
5. **Positions are not pushed** (`tracking_push`).  `websocket/broadcast.py:26` says of
   `publish_tracking_update` "Call from sync code (e.g. getlocation POST). Schedules an
   async broadcast on the running uvicorn loop."  A worker thread has no running loop,
   `_get_loop` returns None there, and nothing is scheduled.  `MapCatchesUp` shows that
   the poll makes up for it.

## Proofs

All theorems are of the form `Spec => []P` (or an action property), for every value
of the constants that satisfies the named assumptions: the "none" values are outside
the sets, a rider with `allow_multiple_orders` is a rider, bounds are natural numbers,
amounts are integers (`StoreAssumption`, `CheckoutAssumption`, `LoginAssumption`,
`PromoAssumption`, `DoorAssumption`, `QuoteAssumption`, `ShopAssumption`, `ZoneAssumption`,
`MultiStoreAssumption`, `CatalogueAssumption`, `MenuAssumption`).  Three say more: an
order of several stores has at least one and finitely many; the workers of a `Shops`
behaviour are finitely many; and in `MenuAssumption` the lists in the scripts, which are
data of the repository, repeat no dish, in whatever case, and no size of a dish.  TLC evaluates each
assumption in a run.

`FulfilmentProofs`

- `TypeCorrect`.  `TypeOK` is not inductive: a commit writes to the order and rider
  its request names.  `TInv` adds `Shape`: a request past its read names some.
- `StagesCorrect`, `CarrierCorrect`, `EarningsCorrect`, `CashCorrect` from one
  invariant, `Lifecycle`.  A stale request can regress `status`, so the argument
  cannot be about `status`; it is about what is never undone - `reached`, a rider once
  assigned, an offer row once inserted, `paid` - and what each request in flight has
  behind it (`Backed`): a pick-up request's order has been ready and has a rider, a
  split's order is paid, and so on.
- `SettledCorrect`: no step removes, reopens or reassigns a settled earning.
- For one thread, that is for requests that do not overlap but may still fail anywhere:
  `SerialLock` (`LockInv`), `SerialRider` and `SerialEarner` (`CarrierInv`: what the one
  request in flight has read of its order is still so), `SerialWallet` and
  `SerialCancellation` (`BooksInv`: the wallet is the number of orders its rider is
  credited for, so a credit or its withdrawal is one element more or less of a finite
  set).

- `LedgersCorrect`, the refinement of `fulfilment_race` for any instance: every step of
  `Fulfilment` is a step of each `EarningsLedger` or a stutter.  It needs `Lifecycle`
  (earnings only for paid orders) and `NoRowNoPayee`.

`CheckoutProofs`

- `TypeCorrect`.
- `PaymentCorrect`, `KitchenCorrect`, `FailureCorrect` from `Books`: captures and
  payment ids are never taken back (`Grows`), so what a request read stays true in
  the part that matters, and only the thread that moves owes a proof (`BackedAll`).
  What may stand on an order's row is `Backing`: its own captures or, once `/verify` has
  paid it from a row that named no attempt, any payment Razorpay signed; both only grow.
- `SerialPayment`, `SerialPlacing`, `SerialAlert`: with at most one thread, `PaidStays`,
  `LatestSurvives` and `AlertedOnce`, from `Turns`: with no other handler in between, a
  request's reading still holds when it commits.

`MultiStoreProofs`, all from `MsInv`

- `StoresAreMadeWhole` (`RefundsAddUp`).  The equation is not inductive: a payment that is
  not yet captured has no amount to compare with, and a handler that has dropped a share
  has yet to ask for its refund.  `BeforeMoney` says that every open attempt asks for the
  total as it is now, or for more once a share was dropped and the difference waived;
  `AfterMoney` that what came back, what is promised and what the running handler is
  about to ask for are what the first payment brought less what is kept, whichever
  attempts are paid after it.  An order that a payment of something else made paid takes
  nothing in.  `TotalCovers` says of which stores the stored total is the total.
- The total is the library's fold over a set, which is a function chosen by an equation.
  The lemmas show that there is one, that it does not depend on the set it was chosen
  for, and what it gains by a store (`SumsAgree`, `TotalMonotone`); they argue by a
  smallest counterexample, as the library's well-foundedness of finite sets allows and
  its induction theorems do not.
- `SharesAreEarned` (`EarningsFollow`: a live store of a delivered order that has no
  earning is being split, or its split was lost) and `RiderWaitsForEveryStore`
  (`ParentFollows`: a parent is ready only while every live store is).

`CatalogueProofs`

- `MenuInvariant`: `CatInv`, the types and that two sizes of an item never have one label.
  From it `OffersHold` (a list's offer is the first of the cheapest sizes, and the cart
  finds by its label the very size that was offered) and `MenusHold`.
- `ScriptsSettle` (`SyncSettles`), about all fourteen scripts at once.  The loop over the
  rows is a recursive function; what its first k passes do is `LoadedTo`: rows of other
  shops as they were, each loaded item there exactly once, counting every case of its
  name.  `LoadStep` is the step, and
  the least k at which it could fail the induction.  That a second run changes nothing
  is `LoadedTwice`: each item is already where it would be put.

`ClockProofs`

- `EdgesActedOnce` and `ShopKeepsHours` from `ShopInv`.  For a shop with regular hours
  (`regular`) the dates it was opened and closed on never run ahead of the clock
  (`Stamps`), all edges acted on lie behind them (`ActedBehind`), and a tick in flight
  has read the last opening and, once it was acted on, the last closing (`ReadsHold`).  `Alone` adds that
  with one worker its reading is the row.  `ReachedMoves` is what the proof needs of the
  calendar: time moves a period on exactly where the hours open.  `ShopKeepsHours` maps
  every tick, change by hand and passing of time to one of `OpeningHours`.
- `ZonesQuoteAroundTheClock` from `ZoneInv`: the active always-available rings are apart.
  Scheduled ones may overlap them and one another, as the tick does not check.

`DoorProofs`

- `BillCorrect`, over all integers, and `OnlineCorrect` (`DoorInv`: a confirmed collection
  has a paid link of its amount).
- `BooksCorrect` (`BooksAgree`).  The views show the whole bill of every delivered order
  as paid, without exception.  That both pages show the same money online has two
  exceptions, which the property names.  An order with nothing to pay is cash to the
  views and prepaid to the revenue page (`NothingToPay`).  And a rider may take an order
  wholly in cash although its link was confirmed; the views, which share the bill in
  proportion to cash and at least a paisa of online money, then put a share to the link
  that the revenue page does not count, and it grows past a paisa once the platform's
  charge has made the bill more than half as large again (`AllInCashThenRaised`).  The
  `money` run has a charge of 99 that does so, on bills of about 100: without the
  exception TLC finds the disagreement.

`MoneyProofs`

- `LimitCorrect` (`PromoInv`: what was spent and what is left is the limit) and
  `OnceCorrect` (`UsesInv`: every use is of a code that is there, by the customer of its
  order, and its code is still for whom it was unless marked in `readdressed`).
- `CashCorrect` (`CashInv`: an order is linked to a paid remittance or to none, and a paid
  remittance leaves no order on hand).
- `PayoutsPayTheNewest` (`PayoutInv`: the primary account, if any, is the last one).

`CustomerProofs`

- `SessionsCorrect` (`LoginInv`: of two codes of one phone only the later can still be
  used, and a login in flight holds a used one).
- `QuoteCorrect` (`QuoteInv`: a sure quote is backed by the cache until the oldest of its
  entries expires).

Only model-checked: the liveness properties `EveryRiderHears`, `CapturedGetsPaid` and
`MapCatchesUp`, since liveness under fairness and `ENABLED` are out of the prover's reach.
The violations of the findings are counterexamples and need no proof.  Each theorem is
about its part's own specification; that `MCClock` and `MCMoney` put parts side by side
is only for TLC.

## Limits

- An order nobody accepts waits for ever: reminders stop after ten, a rejected offer
  is not offered again.  No liveness of delivery is claimed.
- `CancellationIsClean` excepts the queued split of an online payment: the
  background split does not look at the status, and adds an earning for a cancelled
  order.  Refunds of single-store orders are made by hand.
- That every paid order is announced to the restaurant does not hold: a worker lost
  after the payment's commit loses the alert, and the repeated webhook finds the
  order paid.
- The model's commit is atomic.  In the database `accept_offer`'s bulk UPDATE
  precedes the flush; two at once may deadlock and one is then aborted, which is
  `Fail`.

- One request at a time, because the code takes no lock and two at once do break the
  rule: promo uses (two orders at once lose a decrement), multi-store cancellations (two
  stores at once each count the other as live; a share cancelled twice at once is
  refunded twice), login codes (two requests for one phone leave two codes), cached
  distances (two that miss both ask).  Transactions of `CashRemittance` are atomic;
  two that overlap can credit an order to the later remittance.
- `/verify` ties a payment to an order only once the order's row names an attempt.  A row
  that names none - before `/create-order` has committed, or of an order payable on
  delivery - takes any payment that Razorpay has signed, and `PaidOnlyIfCaptured` and
  `KitchenCooksPaidOnly` promise no more for such an order than that some payment was
  captured.  The remittance's `/verify-remittance` is the same.
- An attempt is never closed at the gateway.  Who pays a second one of an order that is
  paid gets nothing back (`gate.again`), and a refund after `/verify` has put that payment
  on the row is taken from it.  `RefundsAddUp` says so.
- `OnlineWasPaid` excepts one step: the backup webhook of an older door link, which books
  the newer link's amount on the order.
- `RefundsAddUp` excepts what a lost worker never asked for: nothing retries it.  An admin
  who cancels a paid order as a whole never refunds it.  It says nothing of an order that a
  payment of something else made paid.  `create-order` is allowed for
  an order that is cancelled, and its capture is then recorded.
- `BooksAgree` excepts the two orders named under `DoorProofs`.
- A device is kept from a second use of a code for new users by looking whom the code of
  its first use is for now: an admin who changes that audience in between lets it pass.
- V3's script retires an item by its name without case and superfluous spaces, and
  overwrites one by its name in lower case alone.  An item that differs from a row only in
  such spaces is neither: it stays, at its old price, beside the row's, which the last
  conjunct of `SyncSettles` allows.
- A code is burnt before the account's role and terms are checked.
- A toggle in the middle of a tick may be lost; a shop closed by hand in its hours before
  the opening was stamped is opened by the next tick.
- Pending withdrawals are not deducted from the balance, and nothing marks one
  "completed".
- Pick-up and delivery are never broadcast; an update that is sent may fail.
- When Google fails, a distance is estimated and not cached: that quote is no promise.
- A script is one transaction and finds its shop by name; two shops of one name make it
  abort and are not modelled.  Duplicate items of a name, deleted ones included, abort
  it too, and are.  Sizes that are retired are read by nobody and not kept.

## Plan

Done: every part of the inventory that has a rule of its own, and a theorem for every
safety property that a passing run checks.  What a later extension could add, in this
order: two requests at once in `MultiStore`, stating what is left of its rules; what two
overlapping promo uses or remittances can break at most; the reminder threads of the
dispatch.

## Not modelled

- Addresses (`users/router.py`): rows of one customer; the single default is kept by two
  statements.
- Reports, dashboards, paged histories: read-only aggregation.
- Banners, app updates, sitemap, superadmin's tenants and admins, impersonation: rows
  nothing else decides on.
- Notifications (FCM, SMS), maps and storage services, image compression: external I/O,
  whose failures are caught and logged, or are a request that fails (`Fail`).
- Token signing and password hashing.
- Demo seeds, migrations, deployment; the names, descriptions, images and MRPs of the menu
  scripts' rows, which are data: a script's rows are a constant of `MenuScripts`.
