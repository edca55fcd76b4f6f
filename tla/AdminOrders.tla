----------------------------- MODULE AdminOrders ----------------------------
(***************************************************************************)
(* The admin's cancel_order, for a single-store order: from any status but *)
(* cancelled.  It takes back a delivered order's payout, closes the offers *)
(* it has read, deletes the earnings that are not settled yet and clears   *)
(* the cash the rider collected.                                           *)
(***************************************************************************)
EXTENDS OrderStore

CancelRead(t, o) ==
  LET carrier == rider[o] IN
  /\ IsIdle(t)
  /\ status[o] # "cancelled"
  /\ Goto(t, [Idle EXCEPT !.op = "cancel", !.order = o, !.rider = carrier, !.was = status[o],
                !.balance = IF carrier = NoRider THEN 0 ELSE wallet[carrier],
                !.cash = cash[o],
                !.pairs = {o} \X {r \in Riders : offer[o][r] \in {"offered", "accepted"}}])
  /\ UNCHANGED <<orderRow, offer, wallet, earnings, jobs, prepaid, history>>

(* Mutant of TakesBack: neither the status nor the balance is looked at. *)
AlwaysTakesBack(q) == q.rider # NoRider

(* The payout of a delivered order leaves the wallet, which stops at zero. *)
TakesBack(q) == q.was = "delivered" /\ q.rider # NoRider /\ q.balance > 0

(* What becomes of an earning row: deleted unless it was paid out or failed. *)
VoidsAll(e)  == "none"    \* mutant: the filter on transfer_status is missing
VoidsNone(e) == e         \* mutant: earnings are left alone
Voided(e) == IF e = "unsettled" THEN "none" ELSE e

CancelCommit(t) ==
  LET q == req[t]  o == q.order IN
  /\ At(t, "cancel")
  /\ WriteStatus(o, q.was, "cancelled")
  /\ cash' = [cash EXCEPT ![o] = FlushOf(q.cash, FALSE, @)]
  /\ offer' = [offer EXCEPT ![o] = [r \in Riders |->
                 IF <<o, r>> \in q.pairs THEN "cancelled" ELSE @[r]]]
  /\ IF TakesBack(q) THEN wallet' = [wallet EXCEPT ![q.rider] = q.balance - 1]
                     ELSE UNCHANGED wallet
  /\ credited' = [credited EXCEPT ![o] = IF TakesBack(q) THEN NoRider ELSE @]
  /\ hotelEarning' = [hotelEarning EXCEPT ![o] = Voided(@)]
  /\ riderEarning' = [riderEarning EXCEPT ![o] = Voided(@)]
  /\ earner' = [earner EXCEPT ![o] = IF riderEarning'[o] = "none" THEN NoRider ELSE @]
  /\ voided' = voided \cup {o}
  /\ Finish(t)
  /\ UNCHANGED <<rider, paid, otp, jobs, prepaid>>
=============================================================================
