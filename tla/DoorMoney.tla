------------------------------ MODULE DoorMoney -----------------------------
(***************************************************************************)
(* The money of one order at the customer's door (delivery/router.py,      *)
(* payments/router.py): payment links, the poll and the two webhooks that  *)
(* confirm them, and the completion that books what was collected.         *)
(* Requests come one at a time; the customer and the gateway at any time.  *)
(***************************************************************************)
EXTENDS Bill, Sequences

CONSTANTS
  Bills,       \* the bills orders are placed with
  Platforms,   \* platform charges an admin sets
  Parts,       \* amounts a rider asks for online
  PlacedUnder, \* the payment settings when the order was placed
  Off,         \* by how much cash and online miss the total
  MaxLinks     \* bound on the links of the order

ASSUME DoorAssumption ==
  /\ Bills \subseteq [display : Int, transfer : Int, platform : Int, delivery : Int,
                      payout : Int, packing : Int, discount : Int]
  /\ Platforms \subseteq Int /\ Parts \subseteq Int /\ Off \subseteq Int

VARIABLES
  bill,        \* what the order was billed at
  order,       \* its row: [method, pay, cash, online, qr, delivered, link, amount]
  links,       \* the gateway's payment links, in the order they were made
  platform,    \* the charge in the payment settings now
  strayed      \* for the properties: a payment of an older link was booked

doorVars == <<bill, order, links, platform, strayed>>

Tolerance == 5
Near(a, b) == a - b <= Tolerance /\ b - a <= Tolerance
Due == CustomerTotal(bill)

(* An order in the rider's bag: in cash, or prepaid and paid.                 *)
DoorInit ==
  /\ bill \in Bills
  /\ order \in {[method |-> m, pay |-> IF m = "cash" THEN "pending" ELSE "paid", cash |-> 0,
                 online |-> 0, qr |-> FALSE, delivered |-> FALSE, link |-> 0, amount |-> 0] :
                m \in {w \in {"cash", "online"} : MethodAllowed(w, Due, PlacedUnder)}}
  /\ links = <<>> /\ platform = bill.platform /\ strayed = FALSE

-----------------------------------------------------------------------------
(* Mutant of Linked: what an older link confirmed is kept.                    *)
LinkedOver(o, l, amount) == [o EXCEPT !.link = l, !.amount = amount]

(* The row after a new link: nothing is confirmed of it.                      *)
Linked(o, l, amount) == [o EXCEPT !.link = l, !.amount = amount, !.qr = FALSE]

(* initiate_online_collection *)
Initiate(amount) ==
  /\ ~ order.delivered /\ order.pay # "paid"
  /\ amount > 0 /\ amount <= Due + 1
  /\ Len(links) < MaxLinks
  /\ links' = Append(links, [amount |-> amount, paid |-> FALSE])
  /\ order' = Linked(order, Len(links'), amount)
  /\ UNCHANGED <<bill, platform, strayed>>

(* The customer pays a link, the newest or an older one.                      *)
PayLink(l) ==
  /\ l \in DOMAIN links /\ ~ links[l].paid
  /\ links' = [links EXCEPT ![l].paid = TRUE]
  /\ UNCHANGED <<bill, order, platform, strayed>>

Confirmed(o) == [o EXCEPT !.qr = TRUE, !.online = o.amount]

(* get_online_collection_status, or the payment_link.paid webhook: only the   *)
(* link the order has.                                                        *)
ConfirmLink ==
  /\ order.link # 0 /\ links[order.link].paid /\ ~ order.qr
  /\ order' = Confirmed(order)
  /\ UNCHANGED <<bill, links, platform, strayed>>

(* The payment.captured webhook of a link knows only the order.               *)
ConfirmPayment(l) ==
  /\ l \in DOMAIN links /\ links[l].paid /\ ~ order.qr
  /\ order' = Confirmed(order)
  /\ strayed' = (strayed \/ l # order.link)
  /\ UNCHANGED <<bill, links, platform>>

(* complete_delivery: cash and online make up the total, and the online part  *)
(* is the confirmed collection.                                               *)
DoorStepOk(cash, online) ==
  /\ cash >= 0 /\ online >= 0 /\ Near(cash + online, Due)
  /\ online > 0 => order.link # 0 /\ order.qr /\ Near(order.amount, online)

Complete(cash, online) ==
  /\ ~ order.delivered
  /\ IF order.pay = "paid"
     THEN order' = [order EXCEPT !.delivered = TRUE, !.cash = 0, !.online = 0]
     ELSE /\ DoorStepOk(cash, online)
          /\ order' = [order EXCEPT !.delivered = TRUE, !.pay = "paid", !.cash = cash, !.online = online,
                         !.method = CASE online = 0 -> "cash" [] cash = 0 -> "online" [] OTHER -> "split"]
  /\ UNCHANGED <<bill, links, platform, strayed>>

(* update_payment_settings: the views of old orders follow the new charge.    *)
SetPlatform(charge) ==
  /\ charge # platform
  /\ platform' = charge
  /\ UNCHANGED <<bill, order, links, strayed>>

DoorNext ==
  \/ \E amount \in Parts \cup {Due} : Initiate(amount)
  \/ (\E l \in 1..MaxLinks : PayLink(l) \/ ConfirmPayment(l)) \/ ConfirmLink
  \/ \E online \in Parts \cup {0, Due}, off \in Off : Complete(Due - online + off, online)
  \/ \E charge \in Platforms : SetPlatform(charge)

DoorSpec == DoorInit /\ [][DoorNext]_doorVars

-----------------------------------------------------------------------------
(* "Online collection requires a verified Razorpay payment": however often    *)
(* the rider makes a new link, an order completed with money online was paid  *)
(* on the link it has, in that amount -- unless the payment of an older link  *)
(* was booked by the webhook that knows only the order (see the hazards).     *)
OnlineWasPaid ==
  order.delivered /\ order.online > 0 /\ ~ strayed =>
    links[order.link].paid /\ Near(links[order.link].amount, order.online)

(* For every bill, at the charge the views use now, the total is shared among *)
(* the restaurant, the rider and the platform without a rest, and as long as  *)
(* the promo leaves something to pay, the profit is explained by the charge,  *)
(* the margins and the promo.                                                 *)
BillAddsUp ==
  LET live == [bill EXCEPT !.platform = platform]
      b    == Breakdown(live)
  IN /\ b.total = b.hotel + b.rider + b.profit
     /\ Charged(live) >= 0 => b.profit = b.platform + b.menu + b.delivery - b.promo

(* The bill as the pages show it now.                                         *)
BilledNow == CustomerTotal([bill EXCEPT !.platform = platform])

(* Two orders the pages disagree about.  One with nothing to pay: the views   *)
(* take it for cash, the revenue page for prepaid.  And one whose link was    *)
(* confirmed, and which the rider then took all in cash: the views take a     *)
(* paisa of that cash for money online, which grows with the bill once the    *)
(* charge has made it more than half as large again.                          *)
NothingToPay == order.method = "cash" /\ order.cash = 0
AllInCashThenRaised ==
  order.qr /\ order.online = 0 /\ order.cash > 0 /\ 2 * BilledNow > 3 * (order.cash + 1)

(* The revenue page and the payment views are computed from the same columns  *)
(* by different formulas.  Of every delivered order, at whatever charge is in *)
(* force now, the views show the whole bill, as paid; and, but for the two    *)
(* orders above, both pages show the same money online, up to the paisa that  *)
(* rounding a share may cost.                                                 *)
BooksAgree ==
  LET view == PaymentView(order, BilledNow)
  IN order.delivered =>
       /\ view.online + view.cash = BilledNow
       /\ PaymentMode(order, BilledNow) \notin {"pending", "failed"}
       /\ ~ NothingToPay /\ ~ AllInCashThenRaised =>
            view.online - RevenueOf(order, BilledNow) \in -1..1
=============================================================================
