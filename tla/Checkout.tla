------------------------------ MODULE Checkout ------------------------------
(***************************************************************************)
(* One customer's prepaid orders, from place_order to the captured payment *)
(* and the restaurant's first answer.                                      *)
(*                                                                         *)
(* An order is a draft until Razorpay captures its payment.  Two handlers  *)
(* hear of a capture: /verify, called by the customer's app, and the       *)
(* webhook, which Razorpay repeats until it is acknowledged and may repeat *)
(* after that.  Meanwhile placing another order fails and cancels the      *)
(* customer's older drafts.  As in OrderStore each request reads, and      *)
(* commits later what it decided, writing the columns it changed.          *)
(***************************************************************************)
EXTENDS Integers, FiniteSets

CONSTANTS
  MaxOrders,   \* bound: how many orders the customer places
  Attempts,    \* bound: the Razorpay orders that can be opened
  Elsewhere,   \* payments captured outside these orders: older orders, remittances
  Threads,     \* workers
  NoAttempt    \* razorpay_order_id or razorpay_payment_id IS NULL

ASSUME CheckoutAssumption ==
  /\ MaxOrders \in Nat
  /\ Attempts \cap Elsewhere = {}
  /\ NoAttempt \notin Attempts \cup Elsewhere

Orders == 1..MaxOrders    \* orders.id, in the order of placing
NoOrder == 0
Payments == Attempts \cup Elsewhere

VARIABLES
  placed,    \* how many orders there are
  status,    \* orders.status
  pay,       \* orders.payment_status
  rz,        \* orders.razorpay_order_id: the attempt /verify accepts, any if NULL
  payment,   \* orders.razorpay_payment_id, named by the attempt it paid
  opened,    \* attempts the customer's app was given (Razorpay)
  captured,  \* attempts that were paid (Razorpay)
  hooks,     \* captures whose webhook is not acknowledged yet (Razorpay)
  req,       \* the request each thread is working on
  alerts,    \* alerts the restaurant got, each with a background split
  everPaid,  \* orders ever committed as paid, for the properties alone
  unnamed    \* orders /verify paid from a row that named no attempt, likewise

orderRow == <<placed, status, pay, rz, payment>>
gateway  == <<opened, captured, hooks>>
history  == <<everPaid, unnamed>>
vars == <<orderRow, gateway, req, alerts, history>>

Status    == {"none", "pending", "accepted", "cancelled"}
PayStatus == {"pending", "paid", "failed"}

Ops == {"idle", "sweep", "fail", "create", "verify", "hook", "notify", "hotel", "cancel"}

Request ==
  [ op     : Ops,
    order  : Orders \cup {NoOrder},
    attempt: Payments \cup {NoAttempt},
    was    : Status,                    \* the status it read
    seen   : PayStatus,                 \* the payment_status it read
    mark   : Payments \cup {NoAttempt}, \* the razorpay_payment_id it read
    named  : Payments \cup {NoAttempt}, \* the razorpay_order_id it read
    stale  : SUBSET Orders,             \* the drafts it read
    want   : Status ]                   \* the status a hotel asks for

Idle == [op |-> "idle", order |-> NoOrder, attempt |-> NoAttempt, was |-> "none",
         seen |-> "pending", mark |-> NoAttempt, named |-> NoAttempt, stale |-> {},
         want |-> "none"]

IsIdle(t)  == req[t] = Idle
At(t, op)  == req[t].op = op
Goto(t, r) == req' = [req EXCEPT ![t] = r]
Finish(t)  == Goto(t, Idle)

(* What a column holds after a session that read `seen` commits `new` over `now`. *)
FlushOf(seen, new, now) == IF new = seen THEN now ELSE new

Placed == 1..placed

(* Mutant of IsUnpaid: a payment still awaited is taken for a settled one. *)
IsFailed(o) == pay[o] = "failed"

(* unpaid_prepaid: an online checkout that neither was captured nor failed. *)
IsUnpaid(o) == pay[o] \notin {"paid", "failed"}

-----------------------------------------------------------------------------
(* place_order, up to its first commit; the stale drafts are looked up after. *)
Place(t) ==
  LET o == placed + 1 IN
  /\ IsIdle(t)
  /\ placed < MaxOrders
  /\ placed' = o
  /\ status' = [status EXCEPT ![o] = "pending"]
  /\ Goto(t, [Idle EXCEPT !.op = "sweep", !.order = o])
  /\ UNCHANGED <<pay, rz, payment, gateway, alerts, history>>

(* Mutants of Drafts: the payment_status, or the order's own id, is not looked at. *)
AllPending(o) == {p \in Placed \ {o} : status[p] = "pending"}
AllDrafts(o)  == {p \in Placed : status[p] = "pending" /\ IsUnpaid(p)}

(* The customer's other drafts, as the new order's session sees them. *)
Drafts(o) == {p \in Placed \ {o} : status[p] = "pending" /\ IsUnpaid(p)}

SweepRead(t) ==
  LET stale == Drafts(req[t].order) IN
  /\ At(t, "sweep")
  /\ IF stale = {} THEN Finish(t)
                   ELSE Goto(t, [Idle EXCEPT !.op = "fail", !.stale = stale])
  /\ UNCHANGED <<orderRow, gateway, alerts, history>>

(* Mutants of SweepCommit: the two status columns mixed up, one of them forgotten. *)
SweepMixedUp(t) ==
  LET stale == req[t].stale IN
  /\ At(t, "fail")
  /\ status' = [o \in Orders |-> IF o \in stale THEN "failed" ELSE status[o]]
  /\ Finish(t)
  /\ UNCHANGED <<placed, pay, rz, payment, gateway, alerts, history>>

SweepPayOnly(t) ==
  LET stale == req[t].stale IN
  /\ At(t, "fail")
  /\ pay' = [o \in Orders |-> IF o \in stale THEN "failed" ELSE pay[o]]
  /\ Finish(t)
  /\ UNCHANGED <<placed, status, rz, payment, gateway, alerts, history>>

(* mark_prepaid_failed on each draft as it was read, and the second commit. *)
SweepCommit(t) ==
  LET stale == req[t].stale IN
  /\ At(t, "fail")
  /\ pay'    = [o \in Orders |-> IF o \in stale THEN "failed" ELSE pay[o]]
  /\ status' = [o \in Orders |-> IF o \in stale THEN "cancelled" ELSE status[o]]
  /\ Finish(t)
  /\ UNCHANGED <<placed, rz, payment, gateway, alerts, history>>

Fresh == Attempts \ UNION {opened[o] : o \in Orders}

(* /create-order: any order that is not paid, cancelled or not. *)
CreateRead(t, o) ==
  /\ IsIdle(t)
  /\ pay[o] # "paid"
  /\ Fresh # {}
  /\ Goto(t, [Idle EXCEPT !.op = "create", !.order = o])
  /\ UNCHANGED <<orderRow, gateway, alerts, history>>

(* Razorpay opens a new attempt; the app gets it once the row is committed. *)
CreateCommit(t, a) ==
  LET o == req[t].order IN
  /\ At(t, "create")
  /\ a \in Fresh
  /\ rz' = [rz EXCEPT ![o] = a]
  /\ opened' = [opened EXCEPT ![o] = @ \cup {a}]
  /\ Finish(t)
  /\ UNCHANGED <<placed, status, pay, payment, captured, hooks, alerts, history>>

(* Razorpay: the customer pays an attempt, whatever became of the order. *)
Capture(o, a) ==
  /\ a \in opened[o] \ captured[o]
  /\ captured' = [captured EXCEPT ![o] = @ \cup {a}]
  /\ hooks' = hooks \cup {<<o, a>>}
  /\ UNCHANGED <<orderRow, opened, req, alerts, history>>

-----------------------------------------------------------------------------
(* Mutant of VerifyRead: the signature is not checked. *)
VerifyUnsigned(t, o, a) ==
  /\ IsIdle(t)
  /\ rz[o] \in {NoAttempt, a}
  /\ Goto(t, [Idle EXCEPT !.op = "verify", !.order = o, !.attempt = a, !.seen = pay[o],
                          !.mark = payment[o], !.named = rz[o]])
  /\ UNCHANGED <<orderRow, gateway, alerts, history>>

(* What Razorpay has signed: every payment it captured, of whatever order. *)
Signed == {a \in Payments : a \in Elsewhere \/ \E o \in Orders : a \in captured[o]}

(* /verify: a signed payment, of the attempt on the row if the row names one. *)
VerifyRead(t, o, a) ==
  /\ IsIdle(t)
  /\ a \in Signed
  /\ rz[o] \in {NoAttempt, a}
  /\ Goto(t, [Idle EXCEPT !.op = "verify", !.order = o, !.attempt = a, !.seen = pay[o],
                          !.mark = payment[o], !.named = rz[o]])
  /\ UNCHANGED <<orderRow, gateway, alerts, history>>

(* Paid; the alert and the split follow unless it read that it was paid before. *)
VerifyCommit(t) ==
  LET q == req[t]  o == q.order IN
  /\ At(t, "verify")
  /\ pay' = [pay EXCEPT ![o] = FlushOf(q.seen, "paid", @)]
  /\ rz' = [rz EXCEPT ![o] = FlushOf(q.named, q.attempt, @)]
  /\ payment' = [payment EXCEPT ![o] = FlushOf(q.mark, q.attempt, @)]
  /\ everPaid' = everPaid \cup {o}
  /\ unnamed' = IF q.named = NoAttempt THEN unnamed \cup {o} ELSE unnamed
  /\ IF q.seen = "paid" THEN Finish(t)
                        ELSE Goto(t, [Idle EXCEPT !.op = "notify", !.order = o])
  /\ UNCHANGED <<placed, status, gateway, alerts>>

(* Mutants of IsPaid: the webhook leaves no order alone; failed ones as well. *)
SkipsNone(o)     == FALSE
SkipsAnswered(o) == pay[o] # "pending"

(* The orders the webhook leaves alone. *)
IsPaid(o) == pay[o] = "paid"

(* The webhook, payment.captured. *)
HookRead(t, o, a) ==
  /\ IsIdle(t)
  /\ a \in captured[o]
  /\ IF ~ IsPaid(o)
     THEN /\ Goto(t, [Idle EXCEPT !.op = "hook", !.order = o, !.attempt = a,
                                  !.mark = payment[o]])
          /\ UNCHANGED hooks
     ELSE /\ hooks' = hooks \ {<<o, a>>}
          /\ UNCHANGED req
  /\ UNCHANGED <<orderRow, opened, captured, alerts, history>>

HookCommit(t) ==
  LET q == req[t]  o == q.order IN
  /\ At(t, "hook")
  /\ pay' = [pay EXCEPT ![o] = "paid"]
  /\ payment' = [payment EXCEPT ![o] = FlushOf(q.mark, q.attempt, @)]
  /\ everPaid' = everPaid \cup {o}
  /\ Goto(t, [Idle EXCEPT !.op = "notify", !.order = o, !.attempt = q.attempt])
  /\ UNCHANGED <<placed, status, rz, gateway, alerts, unnamed>>

(* After the commit: the restaurant's alert, the background split, the answer. *)
Notify(t) ==
  LET q == req[t] IN
  /\ At(t, "notify")
  /\ alerts' = [alerts EXCEPT ![q.order] = @ + 1]
  /\ hooks' = hooks \ {<<q.order, q.attempt>>}
  /\ Finish(t)
  /\ UNCHANGED <<orderRow, opened, captured, history>>

-----------------------------------------------------------------------------
(* The restaurant accepts or cancels: an order that was paid, or has failed. *)
HotelRead(t, o, want) ==
  /\ IsIdle(t)
  /\ ~ IsUnpaid(o)
  /\ want = "accepted" => status[o] = "pending"
  /\ Goto(t, [Idle EXCEPT !.op = "hotel", !.order = o, !.was = status[o], !.want = want])
  /\ UNCHANGED <<orderRow, gateway, alerts, history>>

(* The admin's cancel_order. *)
CancelRead(t, o) ==
  /\ IsIdle(t)
  /\ status[o] # "cancelled"
  /\ Goto(t, [Idle EXCEPT !.op = "cancel", !.order = o, !.was = status[o],
                          !.want = "cancelled"])
  /\ UNCHANGED <<orderRow, gateway, alerts, history>>

StaffCommit(t) ==
  LET q == req[t] IN
  /\ At(t, "hotel") \/ At(t, "cancel")
  /\ status' = [status EXCEPT ![q.order] = FlushOf(q.was, q.want, @)]
  /\ Finish(t)
  /\ UNCHANGED <<placed, pay, rz, payment, gateway, alerts, history>>

(* A request that fails loses what it has not committed; an alert is lost with it. *)
Fail(t) ==
  /\ ~ IsIdle(t)
  /\ Finish(t)
  /\ UNCHANGED <<orderRow, gateway, alerts, history>>

-----------------------------------------------------------------------------
Init ==
  /\ placed = 0
  /\ status  = [o \in Orders |-> "none"]
  /\ pay     = [o \in Orders |-> "pending"]
  /\ rz      = [o \in Orders |-> NoAttempt]
  /\ payment = [o \in Orders |-> NoAttempt]
  /\ opened   = [o \in Orders |-> {}]
  /\ captured = [o \in Orders |-> {}]
  /\ hooks = {}
  /\ req = [t \in Threads |-> Idle]
  /\ alerts = [o \in Orders |-> 0]
  /\ everPaid = {}
  /\ unnamed = {}

Arrive(t) ==
  \/ Place(t)
  \/ \E o \in Placed : CreateRead(t, o)
  \/ \E o \in Placed, a \in Payments : VerifyRead(t, o, a)
  \/ \E o \in Placed, a \in Attempts : HookRead(t, o, a)
  \/ \E o \in Placed, want \in {"accepted", "cancelled"} : HotelRead(t, o, want)
  \/ \E o \in Placed : CancelRead(t, o)

Proceed(t) ==
  \/ SweepRead(t)
  \/ SweepCommit(t)
  \/ \E a \in Attempts : CreateCommit(t, a)
  \/ VerifyCommit(t)
  \/ HookCommit(t)
  \/ Notify(t)
  \/ StaffCommit(t)

Next ==
  \/ \E t \in Threads : Arrive(t) \/ Proceed(t) \/ Fail(t)
  \/ \E o \in Placed, a \in Attempts : Capture(o, a)

Spec == Init /\ [][Next]_vars

(* A worker carries its request on or loses it.  Razorpay repeats a webhook   *)
(* until it is acknowledged, and a webhook does not fail every time.          *)
Fairness ==
  /\ \A t \in Threads : WF_vars(Proceed(t))
  /\ \A o \in Orders, a \in Attempts :
       /\ SF_vars(\E t \in Threads : <<o, a>> \in hooks /\ HookRead(t, o, a))
       /\ SF_vars(\E t \in Threads :
                    req[t].order = o /\ req[t].attempt = a /\ HookCommit(t))

FairSpec == Spec /\ Fairness

-----------------------------------------------------------------------------
(* Every column and every request holds values of its type. *)
TypeOK ==
  /\ placed \in 0..MaxOrders
  /\ status \in [Orders -> Status]
  /\ pay \in [Orders -> PayStatus]
  /\ rz \in [Orders -> Payments \cup {NoAttempt}]
  /\ payment \in [Orders -> Payments \cup {NoAttempt}]
  /\ opened \in [Orders -> SUBSET Attempts]
  /\ captured \in [Orders -> SUBSET Attempts]
  /\ hooks \subseteq Orders \X Attempts
  /\ req \in [Threads -> Request]
  /\ alerts \in [Orders -> Nat]
  /\ everPaid \subseteq Orders
  /\ unnamed \subseteq Orders

(* Properties of every interleaving. *)

(* The payments that may stand on an order's row.  The webhook knows whose    *)
(* payment it reports.  /verify knows it by the attempt the row names; a row  *)
(* that names none yet takes any signed payment.                              *)
Backing(o) == IF o \in unnamed THEN Signed ELSE captured[o]

(* An order is paid only by money that Razorpay captured, and captured for    *)
(* this very order unless /verify met it before create-order had put an       *)
(* attempt on its row, whatever attempts, sweeps and webhooks race.           *)
PaidOnlyIfCaptured ==
  \A o \in Orders : pay[o] = "paid" => payment[o] \in Backing(o)

(* The kitchen cooks for captured payments only: whatever a sweep or another  *)
(* payment overwrites between the restaurant's reading and its commit, an     *)
(* accepted order bears a payment of the same kind as a paid one.             *)
KitchenCooksPaidOnly ==
  \A o \in Orders : status[o] = "accepted" => payment[o] \in Backing(o)

(* A failed order is not left in front of the restaurant as a fresh one: a    *)
(* sweep that fails an order has taken it off the pending list as well, and   *)
(* no handler puts it back.                                                   *)
FailedIsNotPending ==
  \A o \in Orders : pay[o] = "failed" => status[o] # "pending"

(* Properties that need the handlers to run one at a time. *)

(* "Never rewrite a paid capture": what was committed as paid stays paid.     *)
PaidStays == \A o \in everPaid : pay[o] = "paid"

(* The customer's last order is not swept away by its own placing. *)
LatestSurvives == placed > 0 => pay[placed] # "failed"

(* However often /verify and the webhook report a payment, and whichever      *)
(* comes first, the restaurant is alerted and the split run at most once.     *)
AlertedOnce == \A o \in Orders : alerts[o] <= 1

(* Captured money reaches the order: even if the app never calls /verify, if  *)
(* the payment was of an older attempt or the draft was swept meanwhile.      *)
CapturedGetsPaid ==
  \A o \in Orders : captured[o] # {} ~> pay[o] = "paid"
=============================================================================
