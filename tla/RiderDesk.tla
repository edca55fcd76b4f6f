------------------------------ MODULE RiderDesk -----------------------------
(***************************************************************************)
(* The rider's own steps (delivery/router.py): picked-up, send-otp,        *)
(* complete.  A completed delivery goes on, after its commit, to           *)
(* process_payment_split (PaymentSplit) in a session of its own.           *)
(***************************************************************************)
EXTENDS OrderStore

(* Mutant of PickUpRead: the restaurant need not have the order ready. *)
PickUpEarly(t, o) ==
  /\ IsIdle(t)
  /\ rider[o] # NoRider
  /\ status[o] \in OpenStatus
  /\ Goto(t, [Idle EXCEPT !.op = "pickup", !.order = o])
  /\ UNCHANGED <<orderRow, offer, wallet, earnings, jobs, prepaid, history>>

(* Mutant of PickUpRead: whose order it is is not looked at. *)
PickUpAny(t, o) ==
  /\ IsIdle(t)
  /\ status[o] = "ready"
  /\ Goto(t, [Idle EXCEPT !.op = "pickup", !.order = o])
  /\ UNCHANGED <<orderRow, offer, wallet, earnings, jobs, prepaid, history>>

(* mark_picked_up: the order is the rider's and the restaurant has it ready.  *)
PickUpRead(t, o) ==
  /\ IsIdle(t)
  /\ rider[o] # NoRider
  /\ status[o] = "ready"
  /\ Goto(t, [Idle EXCEPT !.op = "pickup", !.order = o])
  /\ UNCHANGED <<orderRow, offer, wallet, earnings, jobs, prepaid, history>>

(* Mutant of PickUpCommit: the payout is credited at the pick-up. *)
PickUpPays(t) ==
  LET q == req[t]  r == rider[q.order] IN
  /\ At(t, "pickup")
  /\ WriteStatus(q.order, "ready", "picked_up")
  /\ wallet' = [wallet EXCEPT ![r] = @ + 1]
  /\ credited' = [credited EXCEPT ![q.order] = r]
  /\ Finish(t)
  /\ UNCHANGED <<rider, paid, cash, otp, offer, earnings, jobs, prepaid, voided>>

PickUpCommit(t) ==
  /\ At(t, "pickup")
  /\ WriteStatus(req[t].order, "ready", "picked_up")
  /\ Finish(t)
  /\ UNCHANGED <<rider, paid, cash, otp, offer, wallet, earnings, jobs, prepaid,
                 credited, voided>>

(* send-otp: a code for an order in transit.  Only complete_delivery depends  *)
(* on it, and that handler checks the status again, so one step is enough.    *)
IssueOtp(o) ==
  /\ rider[o] # NoRider
  /\ status[o] = "picked_up"
  /\ otp' = [otp EXCEPT ![o] = TRUE]
  /\ UNCHANGED <<status, rider, paid, cash, offer, wallet, earnings, jobs, req,
                 prepaid, history>>

(* Ten minutes pass: verify_delivery_otp refuses the code. *)
ExpireOtp(o) ==
  /\ otp[o]
  /\ otp' = [otp EXCEPT ![o] = FALSE]
  /\ UNCHANGED <<status, rider, paid, cash, offer, wallet, earnings, jobs, req,
                 prepaid, history>>

(* complete_delivery up to its first write: the order in transit, the right   *)
(* code, the amounts (an order that is not paid yet is paid in cash in part or *)
(* in whole, or through a doorstep link alone), the rider's wallet.           *)
CompleteRead(t, o, takesCash) ==
  /\ IsIdle(t)
  /\ rider[o] # NoRider
  /\ status[o] = "picked_up"
  /\ otp[o]
  /\ paid[o] => ~ takesCash
  /\ Goto(t, [Idle EXCEPT !.op = "complete", !.order = o, !.rider = rider[o],
                          !.balance = wallet[rider[o]], !.cash = cash[o],
                          !.takes = takesCash])
  /\ UNCHANGED <<orderRow, offer, wallet, earnings, jobs, prepaid, history>>

CompleteCommit(t) ==
  LET q == req[t]  o == q.order IN
  /\ At(t, "complete")
  /\ WriteStatus(o, "picked_up", "delivered")
  /\ paid' = [paid EXCEPT ![o] = TRUE]
  /\ cash' = [cash EXCEPT ![o] = FlushOf(q.cash, q.takes, @)]
  /\ otp'  = [otp EXCEPT ![o] = FALSE]
  /\ wallet' = [wallet EXCEPT ![q.rider] = q.balance + 1]
  /\ credited' = [credited EXCEPT ![o] = q.rider]
  /\ Goto(t, [Idle EXCEPT !.op = "split", !.order = o])
  /\ UNCHANGED <<rider, offer, earnings, jobs, prepaid, voided>>
=============================================================================
