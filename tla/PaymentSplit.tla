---------------------------- MODULE PaymentSplit ----------------------------
(***************************************************************************)
(* process_payment_split and the admin's settlements.  The split runs in a *)
(* session of its own: in the background after an online payment, and at   *)
(* the end of complete_delivery.  It adds the restaurant's earning, and    *)
(* the rider's when the order has a rider, unless the row is there.  The   *)
(* order_id of each ledger is unique: a row another session has added      *)
(* since fails the whole transaction.  The amounts are left out.           *)
(***************************************************************************)
EXTENDS OrderStore

rowsOutside == <<orderRow, offer, wallet, prepaid, history>>

(* Mutant of SplitStart: run for any order, paid or not. *)
SplitAny(t, o) ==
  /\ IsIdle(t)
  /\ jobs' = jobs \ {o}
  /\ Goto(t, [Idle EXCEPT !.op = "split", !.order = o])
  /\ UNCHANGED <<rowsOutside, earnings>>

(* A worker takes up a queued background split. *)
SplitStart(t, o) ==
  /\ IsIdle(t)
  /\ o \in jobs
  /\ jobs' = jobs \ {o}
  /\ Goto(t, [Idle EXCEPT !.op = "split", !.order = o])
  /\ UNCHANGED <<rowsOutside, earnings>>

(* Which rows are missing, and for whom. *)
SplitRead(t) ==
  LET o == req[t].order IN
  /\ At(t, "split")
  /\ Goto(t, [Idle EXCEPT !.op = "ledger", !.order = o, !.rider = rider[o],
                !.due = (IF hotelEarning[o] = "none" THEN {"hotel"} ELSE {}) \cup
                        (IF rider[o] # NoRider /\ riderEarning[o] = "none"
                         THEN {"rider"} ELSE {})])
  /\ UNCHANGED <<rowsOutside, earnings, jobs>>

(* A new row waits for a settlement; when the order holds a Razorpay payment  *)
(* and the payee a linked account, it is transferred at once and may fail.    *)
NewEarning == {"unsettled", "settled", "failed"}

(* Mutant of Duplicate: the order_id columns are not unique. *)
NeverDuplicate(q) == FALSE

(* A row this session would insert has been added since by another. *)
Duplicate(q) ==
  \/ "hotel" \in q.due /\ hotelEarning[q.order] # "none"
  \/ "rider" \in q.due /\ riderEarning[q.order] # "none"

SplitCommit(t) ==
  LET q == req[t]  o == q.order IN
  /\ At(t, "ledger")
  /\ IF Duplicate(q) THEN UNCHANGED earnings
     ELSE /\ IF "hotel" \in q.due
             THEN \E s \in NewEarning : hotelEarning' = [hotelEarning EXCEPT ![o] = s]
             ELSE UNCHANGED hotelEarning
          /\ IF "rider" \in q.due
             THEN /\ \E s \in NewEarning : riderEarning' = [riderEarning EXCEPT ![o] = s]
                  /\ earner' = [earner EXCEPT ![o] = q.rider]
             ELSE UNCHANGED <<riderEarning, earner>>
  /\ Finish(t)
  /\ UNCHANGED <<rowsOutside, jobs>>

(* settle_restaurant_earnings: every unsettled row of the restaurant.  A row  *)
(* deleted meanwhile fails the transaction, so the step is atomic.            *)
SettleHotel ==
  /\ \E o \in Orders : hotelEarning[o] = "unsettled"
  /\ hotelEarning' = [o \in Orders |-> IF hotelEarning[o] = "unsettled" THEN "settled"
                                       ELSE hotelEarning[o]]
  /\ UNCHANGED <<rowsOutside, riderEarning, earner, jobs, req>>

(* settle_delivery_earnings: every unsettled row of one rider. *)
SettleRider(r) ==
  LET mine == {o \in Orders : riderEarning[o] = "unsettled" /\ earner[o] = r} IN
  /\ mine # {}
  /\ riderEarning' = [o \in Orders |-> IF o \in mine THEN "settled" ELSE riderEarning[o]]
  /\ UNCHANGED <<rowsOutside, hotelEarning, earner, jobs, req>>
=============================================================================
