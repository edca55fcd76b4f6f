----------------------------- MODULE Fulfilment -----------------------------
(***************************************************************************)
(* Order fulfilment: the restaurant's, the riders', the admin's and the    *)
(* payment split's handlers composed over one store, each thread working   *)
(* on one request at a time.                                               *)
(***************************************************************************)
EXTENDS HotelPortal, Dispatch, RiderDesk, PaymentSplit, AdminOrders

(* What starts a request in thread t. *)
Arrive(t) ==
  \/ \E o \in Orders, want \in HotelSettable : HotelRead(t, o, want)
  \/ \E r \in Riders : PollRead(t, r)
  \/ \E r \in Riders, o \in Orders : AcceptRead(t, r, o)
  \/ \E r \in Riders, o \in Orders : RejectRead(t, r, o)
  \/ \E o \in Orders : PickUpRead(t, o)
  \/ \E o \in Orders, takesCash \in BOOLEAN : CompleteRead(t, o, takesCash)
  \/ \E o \in Orders : SplitStart(t, o)
  \/ \E o \in Orders : CancelRead(t, o)

(* What carries the request of thread t on. *)
Proceed(t) ==
  \/ HotelCommit(t)
  \/ BroadcastRead(t)
  \/ OffersRead(t)
  \/ OffersCommit(t)
  \/ AcceptCommit(t)
  \/ RejectCommit(t)
  \/ PickUpCommit(t)
  \/ CompleteCommit(t)
  \/ SplitRead(t)
  \/ SplitCommit(t)
  \/ CancelCommit(t)

Next ==
  \/ \E t \in Threads : Arrive(t) \/ Proceed(t) \/ Fail(t)
  \/ \E o \in Orders : IssueOtp(o) \/ ExpireOtp(o)
  \/ SettleHotel
  \/ \E r \in Riders : SettleRider(r)

Spec == Init /\ [][Next]_vars

-----------------------------------------------------------------------------
(* Properties of every interleaving. *)

(* No race of stale handlers skips a stage: whatever regressions they cause,  *)
(* an order is delivered only after a pick-up, picked up only after it was    *)
(* ready, and ready only after the restaurant accepted it.                    *)
StagesInOrder ==
  \A o \in Orders :
    /\ "ready"     \in reached[o] => "accepted"  \in reached[o]
    /\ "picked_up" \in reached[o] => "ready"     \in reached[o]
    /\ "delivered" \in reached[o] => "picked_up" \in reached[o]

(* Whoever holds an order has, or had, an offer for it, and an order that has *)
(* been picked up or delivered has a rider.                                   *)
CarrierWasOffered ==
  \A o \in Orders :
    /\ rider[o] # NoRider => offer[o][rider[o]] # "none"
    /\ {"picked_up", "delivered"} \cap reached[o] # {} => rider[o] # NoRider

(* Nobody is credited for an order the customer has not paid: an earning row  *)
(* exists only for a paid order.                                              *)
EarningsOnlyWhenPaid ==
  \A o \in Orders :
    hotelEarning[o] # "none" \/ riderEarning[o] # "none" => paid[o]

(* The rider's cash and payout come from a delivery: an order that was never  *)
(* delivered has no cash recorded and no payout in a wallet.                  *)
CashOnlyFromDelivery ==
  \A o \in Orders :
    cash[o] \/ credited[o] # NoRider => "delivered" \in reached[o]

(* Money paid out stays on the books: no step removes or reopens an earning   *)
(* that was settled, nor gives it to another rider.                           *)
SettledIsFinal ==
  [][\A o \in Orders :
       /\ hotelEarning[o] = "settled" => hotelEarning'[o] = "settled"
       /\ riderEarning[o] = "settled" => riderEarning'[o] = "settled" /\ earner'[o] = earner[o]
    ]_vars

(* The two ledgers as the abstract EarningsLedger sees them: delivery_earnings *)
(* as it is, restaurant_earnings with the restaurant as the only payee.       *)
RiderLedger == INSTANCE EarningsLedger WITH
  Payees <- Riders, NoPayee <- NoRider, row <- riderEarning, payee <- earner

HotelLedger == INSTANCE EarningsLedger WITH
  Payees <- {"hotel"}, NoPayee <- "nobody", row <- hotelEarning,
  payee <- [o \in Orders |-> IF hotelEarning[o] = "none" THEN "nobody" ELSE "hotel"]

(* Whatever splits, settlements and cancellations overtake one another, both  *)
(* ledgers behave as promised: one row per order and payee, only for paid     *)
(* orders, and what was paid out or failed is never touched again.            *)
LedgersImplemented == RiderLedger!Spec /\ HotelLedger!Spec

-----------------------------------------------------------------------------
(* Properties that need the handlers to run one at a time. *)

(* "The first partner to accept locks the order exclusively": once an order   *)
(* has a rider, that rider's is the one accepted offer and none is open.      *)
ExclusiveLock ==
  \A o \in Orders : \A r \in Riders :
    /\ offer[o][r] = "accepted" => rider[o] = r
    /\ rider[o] # NoRider => offer[o][r] # "offered"

(* A rider without allow_multiple_orders carries one order at a time. *)
OneActiveOrder ==
  \A r \in Riders \ MultiRiders :
    \A o, p \in Orders :
      rider[o] = r /\ rider[p] = r /\ {status[o], status[p]} \subseteq ActiveStatus => o = p

(* The wallet adds up: it holds one payout for each order it is credited for. *)
WalletAddsUp ==
  \A r \in Riders : wallet[r] = Cardinality({o \in Orders : credited[o] = r})

(* Both ledgers name the same person: the rider's earning of an order belongs *)
(* to the rider who carries it, who is also the one whose wallet was credited.*)
EarnerIsCarrier ==
  \A o \in Orders :
    /\ riderEarning[o] # "none" => earner[o] = rider[o]
    /\ credited[o] # NoRider => credited[o] = rider[o]

(* An admin cancellation leaves nothing behind: the order stays cancelled,    *)
(* with no open or accepted offer, no cash on the rider, no payout in the     *)
(* wallet, and - but for an online payment's split still in the queue - no    *)
(* earning waiting to be settled.                                             *)
CancellationIsClean ==
  \A o \in voided :
    /\ status[o] = "cancelled"
    /\ \A r \in Riders : offer[o][r] \notin {"offered", "accepted"}
    /\ ~ cash[o] /\ credited[o] = NoRider
    /\ o \notin prepaid => "unsettled" \notin {hotelEarning[o], riderEarning[o]}
=============================================================================
