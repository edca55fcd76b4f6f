----------------------------- MODULE MultiStore -----------------------------
(***************************************************************************)
(* One grocery order that spans several stores (orders/multi_store.py and  *)
(* multi_store_lifecycle.py): a parent that carries the rider and the      *)
(* money, and a sub-order per store that carries its goods.  A store's     *)
(* handler commits several times: its own step, the refund, the status     *)
(* derived for the parent, the call of the riders.  Requests come one at a *)
(* time, and after each commit the worker may be lost.                     *)
(***************************************************************************)
EXTENDS Integers, Functions, FiniteSetsExt

CONSTANTS
  Stores,      \* the stores of the cart
  Goods,       \* what each store's goods cost
  Fees,        \* delivery and platform charges of the parent
  FlatOff,     \* the flat promo saved on the parent
  MaxTries     \* bound: the attempts create-order opens for the parent

ASSUME MultiStoreAssumption ==
  /\ IsFiniteSet(Stores) /\ Stores # {}
  /\ Goods \in [Stores -> Nat] /\ Fees \in Nat /\ FlatOff \in Nat /\ MaxTries \in Nat

VARIABLES
  parent,      \* the parent's row; owed is what its notes say to refund by hand,
               \* rz the attempt that razorpay_order_id names
  store,       \* the status of each sub-order
  storePay,    \* payment_status as copied to the sub-orders
  earning,     \* each store's row of restaurant_earnings
  offered,     \* the riders have open offers for the parent
  attempt,     \* the attempts the gateway has open, numbered, with their amounts
  gate,        \* the gateway: what it took in for the order to be paid, what
               \* again for an order that was, what it gave back, and what
               \* it has left of the payment on the row
  job,         \* a split of the payment waits to run
  req,         \* what is left of the running handler
  (* what happened, for the properties alone *)
  lost,        \* a worker was lost in the middle of a handler
  waived       \* cancelled without, or before, money that nobody gives back

msVars == <<parent, store, storePay, earning, offered, attempt, gate, job, req, lost, waived>>

NoReq == [op |-> "idle"]

(* razorpay_order_id is NULL, or that of a payment of something else.         *)
Unnamed == 0
Foreign == -1

(* live_sub_orders *)
Live(st) == {s \in Stores : st[s] # "cancelled"}

(* recompute_parent_totals: the promo is applied again to what is left.       *)
Total(S) ==
  LET goods == SumFunctionOnSet(Goods, S) IN goods + Fees - Min({FlatOff, goods})

MsInit ==
  /\ parent \in [status : {"pending"}, method : {"cash", "online"}, pay : {"pending"},
                 total : {Total(Stores)}, owed : {0}, rz : {Unnamed}]
  /\ store = [s \in Stores |-> "pending"]
  /\ storePay = [s \in Stores |-> "pending"]
  /\ earning = [s \in Stores |-> "none"]
  /\ offered = FALSE /\ attempt = {} /\ job = FALSE
  /\ gate = [in |-> 0, again |-> 0, out |-> 0, left |-> 0]
  /\ req = NoReq /\ lost = FALSE /\ waived = FALSE

-----------------------------------------------------------------------------
(* Payment of the parent *)

(* create_razorpay_order for the total as it is now, even when cancelled; the *)
(* attempts before it stay open at the gateway.                               *)
OpenAttempt ==
  LET n == parent.rz + 1 IN
  /\ req = NoReq /\ parent.method = "online" /\ parent.pay # "paid" /\ parent.total > 0
  /\ n <= MaxTries
  /\ attempt' = attempt \cup {[no |-> n, amount |-> parent.total]}
  /\ parent' = [parent EXCEPT !.rz = n]
  /\ waived' = (waived \/ parent.status = "cancelled")
  /\ UNCHANGED <<store, storePay, earning, offered, gate, job, req, lost>>

(* sync_sub_order_payment of a parent that is paid.                           *)
Synced == [s \in Stores |-> IF store[s] = "cancelled" THEN storePay[s] ELSE "paid"]

(* The customer pays an attempt; the webhook, or /verify if the row names it, *)
(* records it and asks for the split.                                         *)
Capture(a) ==
  /\ req = NoReq /\ a \in attempt /\ parent.pay # "paid"
  /\ attempt' = attempt \ {a}
  /\ gate' = [gate EXCEPT !.in = a.amount, !.left = a.amount]
  /\ parent' = [parent EXCEPT !.pay = "paid"]
  /\ storePay' = Synced
  /\ job' = TRUE
  /\ UNCHANGED <<store, earning, offered, req, lost, waived>>

(* The customer pays another attempt of a paid order: the webhook leaves the  *)
(* order alone, /verify puts the payment of the last attempt on the row.      *)
CaptureAgain(a, verified) ==
  /\ req = NoReq /\ a \in attempt /\ parent.pay = "paid"
  /\ verified => a.no = parent.rz
  /\ attempt' = attempt \ {a}
  /\ gate' = [gate EXCEPT !.again = @ + a.amount, !.left = IF verified THEN a.amount ELSE @]
  /\ storePay' = IF verified THEN Synced ELSE storePay
  /\ UNCHANGED <<parent, store, earning, offered, job, req, lost, waived>>

(* /verify of a row that names no attempt: any signed payment makes the order *)
(* paid and prepaid, whatever its status and method were.                     *)
VerifyUnnamed ==
  /\ req = NoReq /\ parent.rz = Unnamed
  /\ parent' = [parent EXCEPT !.pay = "paid", !.method = "online", !.rz = Foreign]
  /\ storePay' = Synced
  /\ job' = (job \/ parent.pay # "paid")
  /\ UNCHANGED <<store, earning, offered, attempt, gate, req, lost, waived>>

(* mark_prepaid_failed: a newer order of the customer sweeps this one.        *)
Sweep ==
  /\ req = NoReq /\ parent.method = "online" /\ parent.status = "pending"
  /\ parent.pay = "pending"
  /\ parent' = [parent EXCEPT !.pay = "failed", !.status = "cancelled"]
  /\ storePay' = [s \in Stores |-> IF storePay[s] = "paid" THEN "paid" ELSE "failed"]
  /\ store' = [s \in Stores |-> IF store[s] = "pending" THEN "cancelled" ELSE store[s]]
  /\ waived' = TRUE
  /\ UNCHANGED <<earning, offered, attempt, gate, job, req, lost>>

(* Mutant of Settle: cancelled shares earn as well.                           *)
SettleAll(earned) == [s \in Stores |-> IF earned[s] = "none" THEN "unsettled" ELSE earned[s]]

(* _settle_multi_store: each live store earns its own goods, once.            *)
Settle(earned) == [s \in Stores |-> IF earned[s] = "none" /\ s \in Live(store)
                                    THEN "unsettled" ELSE earned[s]]

Split ==
  /\ req = NoReq /\ job
  /\ earning' = Settle(earning)
  /\ job' = FALSE
  /\ UNCHANGED <<parent, store, storePay, offered, attempt, gate, req, lost, waived>>

PayStore(s) ==
  /\ req = NoReq /\ earning[s] = "unsettled"
  /\ earning' = [earning EXCEPT ![s] = "settled"]
  /\ UNCHANGED <<parent, store, storePay, offered, attempt, gate, job, req, lost, waived>>

-----------------------------------------------------------------------------
(* The stores *)

(* update_order_status of a sub-order: unpaid prepaid is not the kitchen's    *)
(* business, accept before ready.                                             *)
StoreMoves(s, to) ==
  /\ req = NoReq
  /\ parent.method = "online" => storePay[s] # "pending"
  /\ <<store[s], to>> \in {<<"pending", "accepted">>, <<"accepted", "ready">>, <<"ready", "ready">>}
  /\ store' = [store EXCEPT ![s] = to]
  /\ req' = [op |-> "derive"]
  /\ UNCHANGED <<parent, storePay, earning, offered, attempt, gate, job, lost, waived>>

Unsettle(earned, S) ==
  [s \in Stores |-> IF s \in S /\ earned[s] = "unsettled" THEN "none" ELSE earned[s]]

(* Mutant of RefundFor: the last store's share, and not the fees, comes back. *)
RefundForGoods(S) == parent.total - Total(S)

(* What goes back when only the stores S are left: the difference, or all.    *)
RefundFor(S) == IF S = {} THEN parent.total ELSE parent.total - Total(S)

(* cancel_store_share, by the store (whose prepaid order must be paid) or by  *)
(* an admin (at any time).                                                    *)
DropShare(s, byAdmin) ==
  LET left == Live(store) \ {s} IN
  /\ req = NoReq /\ store[s] # "cancelled"
  /\ parent.method = "online" /\ ~ byAdmin => storePay[s] # "pending"
  /\ parent.status \notin {"picked_up", "delivered"}
  /\ store' = [store EXCEPT ![s] = "cancelled"]
  /\ earning' = Unsettle(earning, {s})
  /\ parent' = IF left = {} THEN [parent EXCEPT !.status = "cancelled"]
               ELSE [parent EXCEPT !.total = Total(left)]
  /\ offered' = (offered /\ left # {})
  /\ req' = IF parent.method = "online" /\ parent.pay = "paid" /\ RefundFor(left) > 0
            THEN [op |-> "refund", amount |-> RefundFor(left)] ELSE [op |-> "derive"]
  /\ waived' = (waived \/ (attempt # {} /\ parent.pay # "paid"))
  /\ UNCHANGED <<storePay, attempt, gate, job, lost>>

(* _refund: the gateway pays back from the payment on the row as long as that *)
(* lasts (of a payment of something else it may), or a note asks for it by    *)
(* hand.                                                                      *)
Refund(granted) ==
  /\ req.op = "refund"
  /\ IF granted /\ (parent.rz = Foreign \/ req.amount <= gate.left)
     THEN /\ gate' = [gate EXCEPT !.out = @ + req.amount,
                                  !.left = IF parent.rz = Foreign THEN @ ELSE @ - req.amount]
          /\ UNCHANGED parent
     ELSE parent' = [parent EXCEPT !.owed = @ + req.amount] /\ UNCHANGED gate
  /\ req' = [op |-> "derive"]
  /\ UNCHANGED <<store, storePay, earning, offered, attempt, job, lost, waived>>

(* Mutant of Derived: one store that is ready makes the order ready.          *)
DerivedFromAny(status) ==
  IF status \in {"picked_up", "delivered", "cancelled"} THEN status
  ELSE IF \E s \in Live(store) : store[s] = "ready" THEN "ready"
  ELSE IF \E s \in Live(store) : store[s] = "accepted" THEN "accepted" ELSE "pending"

(* derived_parent_status *)
Derived(status) ==
  IF status \in {"picked_up", "delivered", "cancelled"} THEN status
  ELSE IF Live(store) = {} THEN "cancelled"
  ELSE IF \A s \in Live(store) : store[s] = "ready" THEN "ready"
  ELSE IF \E s \in Live(store) : store[s] # "pending" THEN "accepted" ELSE "pending"

(* on_sub_order_status_changed; the riders are called when the parent leaves  *)
(* pending, and their polls find it later.                                    *)
Derive ==
  /\ req.op = "derive"
  /\ parent' = [parent EXCEPT !.status = Derived(@)]
  /\ req' = IF parent.status = "pending" /\ parent'.status \in {"accepted", "ready"}
            THEN [op |-> "call"] ELSE NoReq
  /\ UNCHANGED <<store, storePay, earning, offered, attempt, gate, job, lost, waived>>

CallRiders ==
  /\ req.op = "call" \/ req = NoReq
  /\ parent.status \in {"accepted", "ready"} /\ ~ offered
  /\ offered' = TRUE
  /\ req' = NoReq
  /\ UNCHANGED <<parent, store, storePay, earning, attempt, gate, job, lost, waived>>

-----------------------------------------------------------------------------
(* The rider and the admin *)

(* propagate_rider_status *)
Follow(status) == [s \in Stores |-> IF s \in Live(store) THEN status ELSE store[s]]

PickUp ==
  /\ req = NoReq /\ offered /\ parent.status = "ready"
  /\ parent' = [parent EXCEPT !.status = "picked_up"]
  /\ store' = Follow("picked_up")
  /\ UNCHANGED <<storePay, earning, offered, attempt, gate, job, req, lost, waived>>

Deliver ==
  /\ req = NoReq /\ parent.status = "picked_up"
  /\ parent' = [parent EXCEPT !.status = "delivered", !.pay = "paid"]
  /\ store' = Follow("delivered")
  /\ storePay' = [s \in Stores |-> IF s \in Live(store) THEN "paid" ELSE storePay[s]]
  /\ req' = [op |-> "split"]
  /\ UNCHANGED <<earning, offered, attempt, gate, job, lost, waived>>

(* complete_delivery runs the split itself, after its commit.                 *)
SplitAtDoor ==
  /\ req.op = "split"
  /\ earning' = Settle(earning)
  /\ req' = NoReq
  /\ UNCHANGED <<parent, store, storePay, offered, attempt, gate, job, lost, waived>>

(* cancel_order of the parent: no refund is asked for.                        *)
CancelAll ==
  /\ req = NoReq /\ parent.status # "cancelled"
  /\ parent' = [parent EXCEPT !.status = "cancelled"]
  /\ store' = Follow("cancelled")
  /\ earning' = Unsettle(earning, Live(store))
  /\ offered' = FALSE
  /\ waived' = TRUE
  /\ UNCHANGED <<storePay, attempt, gate, job, req, lost>>

(* The worker, or the process that holds the background job, is lost.         *)
Lose ==
  /\ req # NoReq \/ job
  /\ req' = NoReq /\ lost' = TRUE
  /\ job' \in {job, FALSE}
  /\ waived' = (waived \/ req.op = "refund")
  /\ UNCHANGED <<parent, store, storePay, earning, offered, attempt, gate>>

MsNext ==
  \/ OpenAttempt \/ VerifyUnnamed \/ Sweep \/ Split
  \/ \E a \in attempt : Capture(a) \/ \E verified \in BOOLEAN : CaptureAgain(a, verified)
  \/ \E s \in Stores :
       \/ PayStore(s)
       \/ \E to \in {"accepted", "ready"} : StoreMoves(s, to)
       \/ \E byAdmin \in BOOLEAN : DropShare(s, byAdmin)
  \/ (\E granted \in BOOLEAN : Refund(granted)) \/ Derive \/ CallRiders
  \/ PickUp \/ Deliver \/ SplitAtDoor \/ CancelAll \/ Lose

MsSpec == MsInit /\ [][MsNext]_msVars

-----------------------------------------------------------------------------
(* Whatever stores drop out, in whatever order and state of the payment, and  *)
(* whichever of the customer's attempts was paid: what is neither given back  *)
(* nor promised is at least the price of the stores left and whatever was     *)
(* paid again for an order that was paid, which nobody returns.  It is        *)
(* exactly that, unless the worker was lost before asking, the payment came   *)
(* after the share was gone, or the order was cancelled as a whole.  An order *)
(* paid by a payment of something else (VerifyUnnamed) took nothing in.       *)
RefundsAddUp ==
  LET kept  == IF Live(store) = {} THEN 0 ELSE parent.total
      spent == gate.in + gate.again - gate.out - parent.owed
  IN gate.in > 0 =>
       /\ spent >= kept + gate.again
       /\ req.op # "refund" /\ ~ waived => spent = kept + gate.again

(* A rider leaves only with the goods of every store that has not cancelled,  *)
(* and from then on the stores' orders move with the parent, even when a      *)
(* store's handler was lost before the parent's status was derived.           *)
RiderTakesEveryStore ==
  [][parent.status # "picked_up" /\ parent'.status = "picked_up" =>
       /\ Live(store) # {}
       /\ \A s \in Live(store) : store[s] = "ready" /\ store'[s] = "picked_up"]_msVars

(* Money for the stores: none for a cancelled share, unless it was paid out   *)
(* before, none for an order nobody paid, and after the delivery one each.    *)
StoresEarnTheirShare ==
  \A s \in Stores :
    /\ earning[s] = "unsettled" => store[s] # "cancelled" /\ parent.pay = "paid"
    /\ parent.status = "delivered" /\ req = NoReq /\ ~ lost /\ s \in Live(store) =>
         earning[s] # "none"
=============================================================================
