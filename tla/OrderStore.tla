----------------------------- MODULE OrderStore -----------------------------
(***************************************************************************)
(* The rows the fulfilment handlers share - orders, delivery_offers,       *)
(* delivery_profiles and the two earning ledgers - and the requests that   *)
(* are working on them.                                                    *)
(*                                                                         *)
(* Every handler runs in a worker thread with a database session of its    *)
(* own, at the database's default isolation (READ COMMITTED), and takes no *)
(* lock: it SELECTs rows, decides, and writes when it commits.  A request  *)
(* is therefore a record of what it has read, and other requests may       *)
(* commit between its reads and its commit.  The session writes back a     *)
(* column only when the value set differs from the value read (FlushOf).   *)
(***************************************************************************)
EXTENDS Integers, FiniteSets

CONSTANTS
  Orders,       \* single-store orders
  Riders,       \* active delivery partners of the orders' tenant
  Threads,      \* workers: how many requests can be in flight together
  MultiRiders,  \* riders whose profile sets allow_multiple_orders
  Prepayments,  \* which sets of orders may have been paid online at the start
  NoOrder,      \* "no order", in an idle request
  NoRider       \* delivery_partner_id IS NULL

ASSUME StoreAssumption ==
  /\ NoOrder \notin Orders
  /\ NoRider \notin Riders
  /\ MultiRiders \subseteq Riders
  /\ Prepayments \subseteq SUBSET Orders

VARIABLES
  status,        \* orders.status
  rider,         \* orders.delivery_partner_id
  paid,          \* orders.payment_status = "paid"
  cash,          \* orders.cash_collected is set
  otp,           \* orders.delivery_otp holds an unexpired code
  offer,         \* delivery_offers.status by order and rider, "none": no row
  wallet,        \* delivery_profiles.total_earnings, in payouts
  hotelEarning,  \* restaurant_earnings.transfer_status by order
  riderEarning,  \* delivery_earnings.transfer_status by order
  earner,        \* delivery_earnings.delivery_partner_id by order
  jobs,          \* queued background runs of process_payment_split
  req,           \* the request each thread is working on
  prepaid,       \* orders paid online before the restaurant saw them
  (* what happened, for the properties alone *)
  reached,       \* the statuses ever committed for an order
  credited,      \* the rider whose wallet holds the order's payout
  voided         \* the orders admin cancel_order has cancelled

orderRow == <<status, rider, paid, cash, otp>>
earnings == <<hotelEarning, riderEarning, earner>>
history  == <<reached, credited, voided>>
vars == <<orderRow, offer, wallet, earnings, jobs, req, prepaid, history>>

-----------------------------------------------------------------------------

OrderStatus   == {"pending", "accepted", "ready", "picked_up", "delivered", "cancelled"}
OpenStatus    == {"accepted", "ready"}                \* OPEN_DISPATCH_STATUSES
ActiveStatus  == {"accepted", "ready", "picked_up"}   \* a rider is busy with it
HotelSettable == {"accepted", "ready", "cancelled"}
OfferStatus   == {"none", "offered", "accepted", "rejected", "superseded", "cancelled"}
EarningStatus == {"none", "unsettled", "settled", "failed"}

Ops == {"idle", "hotel", "dispatch", "offers", "upsert", "accept", "reject",
        "pickup", "complete", "split", "ledger", "cancel"}

(* A request: its next step and what it has read so far. *)
Request ==
  [ op     : Ops,
    order  : Orders \cup {NoOrder},
    rider  : Riders \cup {NoRider},
    want   : OrderStatus,                   \* the status a hotel asks for
    was    : OrderStatus,                   \* the status it read
    balance: Nat,                           \* the wallet it read
    cash   : BOOLEAN,                       \* the cash_collected it read
    takes  : BOOLEAN,                       \* it records cash
    pairs  : SUBSET (Orders \X Riders),     \* offer rows it reads or rewrites
    fresh  : SUBSET (Orders \X Riders),     \* offer rows it inserts
    due    : SUBSET {"hotel", "rider"} ]    \* earning rows it inserts

Idle == [op |-> "idle", order |-> NoOrder, rider |-> NoRider, want |-> "pending",
         was |-> "pending", balance |-> 0, cash |-> FALSE, takes |-> FALSE,
         pairs |-> {}, fresh |-> {}, due |-> {}]

IsIdle(t)   == req[t] = Idle
At(t, op)   == req[t].op = op
Goto(t, r)  == req' = [req EXCEPT ![t] = r]
Finish(t)   == Goto(t, Idle)

(* What a column holds after a session that read `seen` commits `new` over `now`. *)
FlushOf(seen, new, now) == IF new = seen THEN now ELSE new

(* Commit a status, and remember that the order has been there. *)
WriteStatus(o, seen, new) ==
  /\ status'  = [status EXCEPT ![o] = FlushOf(seen, new, @)]
  /\ reached' = [reached EXCEPT ![o] = @ \cup {new}]

(* Mutant of IsOpen: that the order has a rider already is not looked at. *)
IsOpenToAll(o) == status[o] \in OpenStatus

(* An order riders may still take: nobody has it, the restaurant wants it gone. *)
IsOpen(o) == rider[o] = NoRider /\ status[o] \in OpenStatus

(* A request that fails (database error, deadlock victim, worker or server    *)
(* restart) loses its transaction: nothing it has not committed is written.   *)
Fail(t) ==
  /\ ~ IsIdle(t)
  /\ Finish(t)
  /\ UNCHANGED <<orderRow, offer, wallet, earnings, jobs, prepaid, history>>

(* Orders as place_order and the payment handlers leave them: the restaurant  *)
(* sees an order once it is payable on delivery, or paid, and for a paid one  *)
(* a background split is queued.                                              *)
Init ==
  /\ prepaid \in Prepayments
  /\ status = [o \in Orders |-> "pending"]
  /\ rider  = [o \in Orders |-> NoRider]
  /\ paid   = [o \in Orders |-> o \in prepaid]
  /\ cash   = [o \in Orders |-> FALSE]
  /\ otp    = [o \in Orders |-> FALSE]
  /\ offer  = [o \in Orders |-> [r \in Riders |-> "none"]]
  /\ wallet = [r \in Riders |-> 0]
  /\ hotelEarning = [o \in Orders |-> "none"]
  /\ riderEarning = [o \in Orders |-> "none"]
  /\ earner = [o \in Orders |-> NoRider]
  /\ jobs   = prepaid
  /\ req    = [t \in Threads |-> Idle]
  /\ reached  = [o \in Orders |-> {"pending"}]
  /\ credited = [o \in Orders |-> NoRider]
  /\ voided   = {}

(* Every column holds a value of its type, and every request is well formed.  *)
TypeOK ==
  /\ prepaid \subseteq Orders
  /\ status \in [Orders -> OrderStatus]
  /\ rider \in [Orders -> Riders \cup {NoRider}]
  /\ paid \in [Orders -> BOOLEAN]
  /\ cash \in [Orders -> BOOLEAN]
  /\ otp \in [Orders -> BOOLEAN]
  /\ offer \in [Orders -> [Riders -> OfferStatus]]
  /\ wallet \in [Riders -> Nat]
  /\ hotelEarning \in [Orders -> EarningStatus]
  /\ riderEarning \in [Orders -> EarningStatus]
  /\ earner \in [Orders -> Riders \cup {NoRider}]
  /\ jobs \subseteq Orders
  /\ req \in [Threads -> Request]
  /\ reached \in [Orders -> SUBSET OrderStatus]
  /\ credited \in [Orders -> Riders \cup {NoRider}]
  /\ voided \subseteq Orders
=============================================================================
