-------------------------------- MODULE Bill --------------------------------
(***************************************************************************)
(* The money views of an order (payments/breakdown.py, payment_split.py,   *)
(* revenue.py), in whole paise: what the customer pays, what the partners  *)
(* and the platform keep, how it was paid, and what revenue counts of it.  *)
(***************************************************************************)
EXTENDS Integers, FiniteSetsExt

(* A bill: [display, transfer, platform, delivery, payout, packing, discount].*)
(* customer_price_view: a promo never makes the total negative.               *)
Charged(bill) == bill.display + bill.platform + bill.delivery + bill.packing - bill.discount
CustomerTotal(bill) == Max({0, Charged(bill)})

(* Mutant of HotelPayout: the packing stays with the platform. *)
FoodOnly(bill) == bill.transfer

(* The restaurant gets its transfer price and the packing. *)
HotelPayout(bill) == bill.transfer + bill.packing

(* admin_price_view, build_order_price_breakdown *)
Breakdown(bill) ==
  [total    |-> CustomerTotal(bill),
   hotel    |-> HotelPayout(bill),
   rider    |-> bill.payout,
   profit   |-> CustomerTotal(bill) - HotelPayout(bill) - bill.payout,
   platform |-> bill.platform,
   menu     |-> bill.display - bill.transfer,
   delivery |-> bill.delivery - bill.payout,
   promo    |-> bill.discount]

(* validate_payment_method: may an order of this total be paid this way?      *)
MethodAllowed(method, total, settings) ==
  \/ method = "online" /\ settings.prepaid
  \/ method = "cash" /\ settings.cod /\ total <= settings.codMax

-----------------------------------------------------------------------------
(* An order as paid: [method, pay, cash, online, qr], qr the time stamp of an *)
(* online collection at the door; billed is what the views show as its total. *)
Share(billed, part, whole) == (2 * billed * part + whole) \div (2 * whole)

(* payment_collection_from_order *)
PaymentView(o, billed) ==
  LET paid == o.pay = "paid"
      AsPaid(amount) == IF paid THEN amount ELSE 0
      cash == AsPaid(Share(billed, o.cash, o.cash + Max({o.online, 1})))
      View(via, on, off) == [via |-> via, online |-> on, cash |-> off]
  IN CASE o.cash > 0 /\ (o.online > 0 \/ o.qr)          -> View("split", AsPaid(billed - cash), cash)
       [] o.cash = 0 /\ (o.online > 0 \/ o.qr)          -> View("dp_qr", IF paid \/ o.qr THEN billed ELSE 0, 0)
       [] o.cash > 0 /\ o.online = 0 /\ ~ o.qr          -> View("cod", 0, AsPaid(billed))
       [] o.cash = 0 /\ o.online = 0 /\ ~ o.qr /\ o.method = "cash" ->
            View(IF paid THEN "cod" ELSE "none", 0, AsPaid(billed))
       [] OTHER                                         -> View("prepaid", AsPaid(billed), 0)

(* display_payment_mode *)
PaymentMode(o, billed) ==
  LET via == PaymentView(o, billed).via IN
  CASE via = "prepaid" -> (CASE o.pay = "failed" -> "failed" [] o.pay = "paid" -> "paid" [] OTHER -> "pending")
    [] via = "none"    -> "cod"
    [] OTHER           -> via

(* Mutant of RevenueOf: the whole bill counts once anything came in online.   *)
RevenueWhole(o, billed) == IF o.online > 0 \/ o.cash = 0 THEN billed ELSE 0

(* compose_revenue_rows: what a paid order brings in; cash counts when it is  *)
(* remitted.                                                                  *)
RevenueOf(o, billed) ==
  CASE o.online > 0 /\ o.cash > 0 -> Share(billed, o.online, o.cash + o.online)
    [] o.online > 0 /\ o.cash = 0 -> billed
    [] o.online = 0 /\ o.cash > 0 -> 0
    [] OTHER                      -> billed
=============================================================================
