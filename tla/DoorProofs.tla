----------------------------- MODULE DoorProofs -----------------------------
(***************************************************************************)
(* The money of an order at the door, for any bills, charges, amounts and  *)
(* number of payment links: the bill adds up at whatever charge the views  *)
(* use, and what was collected online had been paid.                       *)
(***************************************************************************)
EXTENDS DoorMoney, SequenceTheorems, TLAPS

(* What a bill's and a link's columns hold.                                   *)
BillRow  == [display : Int, transfer : Int, platform : Int, delivery : Int,
             payout : Int, packing : Int, discount : Int]
LinkRow  == [amount : Int, paid : BOOLEAN]

(* The order's columns, whatever amounts they hold.                           *)
OrderRow == [method : {"cash", "online", "split"}, pay : {"pending", "paid"}, cash : Int, online : Int, qr : BOOLEAN,
             delivered : BOOLEAN, link : Nat, amount : Int]

(* A confirmed collection has a paid link, and a delivered order took no      *)
(* other money online than its confirmed collection.                          *)
DoorInv ==
  /\ bill \in BillRow /\ platform \in Int
  /\ order \in OrderRow /\ links \in Seq(LinkRow) /\ strayed \in BOOLEAN
  /\ order.link # 0 => order.link \in 1..Len(links) /\ links[order.link].amount = order.amount
  /\ order.qr /\ ~ strayed => order.link # 0 /\ links[order.link].paid
  /\ order.delivered /\ order.online > 0 => order.qr /\ Near(order.amount, order.online)

(* The larger of zero and an integer.                                        *)
LEMMA MaxOfZero ==
  ASSUME NEW n \in Int
  PROVE  Max({0, n}) \in Nat /\ (n >= 0 => Max({0, n}) = n)
  <1>1. \E x \in {0, n} : \A y \in {0, n} : x >= y
    OBVIOUS
  <1>2. Max({0, n}) \in {0, n} /\ \A y \in {0, n} : Max({0, n}) >= y
    BY <1>1 DEF Max
  <1> QED
    BY <1>2

(* What the customer pays is what is charged, unless that is negative.       *)
LEMMA TotalIsCharged ==
  ASSUME NEW b \in BillRow
  PROVE  /\ Charged(b) \in Int /\ CustomerTotal(b) \in Nat
         /\ Charged(b) >= 0 => CustomerTotal(b) = Charged(b)
  <1>1. Charged(b) \in Int
    BY DEF Charged, BillRow
  <1> QED
    BY <1>1, MaxOfZero DEF CustomerTotal

(* The parts of a bill, for any charge the payment settings have since got.   *)
LEMMA Adds ==
  ASSUME DoorInv
  PROVE  BillAddsUp
  <1> DEFINE live == [bill EXCEPT !.platform = platform]
  <1>1. live \in BillRow
    BY DEF DoorInv, BillRow
  <1> HIDE DEF live
  <1>2. /\ CustomerTotal(live) \in Int /\ (Charged(live) >= 0 => CustomerTotal(live) = Charged(live))
    BY <1>1, TotalIsCharged
  <1>3. Charged(live) = live.display + live.platform + live.delivery + live.packing - live.discount
    BY DEF Charged
  <1>4. /\ live.display \in Int /\ live.transfer \in Int /\ live.platform \in Int /\ live.delivery \in Int
        /\ live.payout \in Int /\ live.packing \in Int /\ live.discount \in Int
    BY <1>1 DEF BillRow
  <1>5. LET b == Breakdown(live) IN
        /\ b.total = b.hotel + b.rider + b.profit
        /\ Charged(live) >= 0 => b.profit = b.platform + b.menu + b.delivery - b.promo
    BY <1>2, <1>3, <1>4 DEF Breakdown, HotelPayout
  <1> QED
    BY <1>5 DEF BillAddsUp, live

(* What is due at the door is an amount.                                     *)
LEMMA DueIsInt == DoorInv => Due \in Int
  BY TotalIsCharged DEF Due, DoorInv

(* The order in the bag has no link and took no money yet.                   *)
LEMMA DoorStarts == DoorInit => DoorInv
  <1> SUFFICES ASSUME DoorInit PROVE DoorInv
    OBVIOUS
  <1>1. bill \in BillRow /\ platform = bill.platform /\ links = <<>> /\ strayed = FALSE
    BY DoorAssumption DEF DoorInit, BillRow
  <1>2. PICK m \in {"cash", "online"} : order =
          [method |-> m, pay |-> IF m = "cash" THEN "pending" ELSE "paid", cash |-> 0,
           online |-> 0, qr |-> FALSE, delivered |-> FALSE, link |-> 0, amount |-> 0]
    BY DEF DoorInit
  <1>5. PICK p \in {"pending", "paid"} : order =
          [method |-> m, pay |-> p, cash |-> 0,
           online |-> 0, qr |-> FALSE, delivered |-> FALSE, link |-> 0, amount |-> 0]
    BY <1>2
  <1>3. order \in OrderRow /\ order.link = 0 /\ order.qr = FALSE /\ order.delivered = FALSE
    BY <1>5 DEF OrderRow
  <1>6. links \in Seq(LinkRow)
    BY <1>1
  <1>4. platform \in Int
    BY <1>1 DEF BillRow
  <1> QED
    BY <1>1, <1>3, <1>4, <1>6 DEF DoorInv

(* A new link forgets what an older one confirmed.                           *)
LEMMA InitiateKeeps ==
  ASSUME DoorInv, NEW amount \in Int, Initiate(amount)
  PROVE  DoorInv'
  <1> DEFINE row == [amount |-> amount, paid |-> FALSE]
  <1>1. row \in LinkRow /\ row.amount = amount
    BY DEF LinkRow
  <1>2. links' = Append(links, row) /\ links \in Seq(LinkRow)
    BY DEF Initiate, DoorInv
  <1> HIDE DEF row
  <1>3. links' \in Seq(LinkRow) /\ Len(links') = Len(links) + 1 /\ Len(links) \in Nat
        /\ links'[Len(links) + 1] = row
    BY <1>1, <1>2
  <1>4. /\ order' \in OrderRow /\ order'.qr = FALSE /\ order'.amount = amount
        /\ order'.link = Len(links) + 1 /\ order'.delivered = FALSE
    <2>1. order' = [order EXCEPT !.link = Len(links) + 1, !.amount = amount, !.qr = FALSE]
      BY <1>3 DEF Initiate, Linked
    <2>2. order \in OrderRow /\ order.delivered = FALSE
      BY DEF Initiate, DoorInv, OrderRow
    <2>3. Len(links) + 1 \in Nat
      BY <1>3
    <2> QED
      BY <2>1, <2>2, <2>3 DEF OrderRow
  <1> QED
    BY <1>1, <1>3, <1>4 DEF Initiate, DoorInv

(* A link that is paid keeps its amount, and the others are as they were.    *)
LEMMA PayKeeps ==
  ASSUME DoorInv, NEW l, PayLink(l)
  PROVE  DoorInv'
  <1>1. links[l] \in LinkRow /\ l \in 1..Len(links)
    BY DEF PayLink, DoorInv
  <1>2. [links[l] EXCEPT !.paid = TRUE] \in LinkRow /\ [links[l] EXCEPT !.paid = TRUE].amount = links[l].amount
        /\ [links[l] EXCEPT !.paid = TRUE].paid = TRUE
    BY <1>1 DEF LinkRow
  <1>3. /\ links' \in Seq(LinkRow) /\ Len(links') = Len(links)
        /\ \A k \in 1..Len(links) : links'[k].amount = links[k].amount /\ (links[k].paid => links'[k].paid)
    BY <1>1, <1>2 DEF PayLink, DoorInv
  <1> QED
    BY <1>3 DEF PayLink, DoorInv

(* A confirmation books the amount of the link the order has.                *)
LEMMA ConfirmedRow ==
  ASSUME DoorInv, order' = Confirmed(order)
  PROVE  /\ order' \in OrderRow /\ order'.qr = TRUE /\ order'.online = order.amount
         /\ order'.link = order.link /\ order'.amount = order.amount
         /\ Near(order'.amount, order'.online)
  <1>1. order.amount \in Int /\ order \in OrderRow
    BY DEF DoorInv, OrderRow
  <1>2. /\ order' \in OrderRow /\ order'.qr = TRUE /\ order'.online = order.amount
        /\ order'.link = order.link /\ order'.amount = order.amount
    BY <1>1 DEF Confirmed, OrderRow
  <1> QED
    BY <1>1, <1>2 DEF Near, Tolerance

(* A completion takes money online only from a confirmed collection.         *)
LEMMA CompleteKeeps ==
  ASSUME DoorInv, NEW cash \in Int, NEW online \in Int, Complete(cash, online)
  PROVE  DoorInv'
  <1>1. order \in OrderRow
    BY DEF DoorInv
  <1>2. CASE order.pay = "paid"
    <2>1. /\ order' \in OrderRow /\ order'.online = 0 /\ order'.link = order.link
          /\ order'.qr = order.qr /\ order'.amount = order.amount
      <3>1. order' = [order EXCEPT !.delivered = TRUE, !.cash = 0, !.online = 0]
        BY <1>2, Zenon DEF Complete
      <3>2. order' \in OrderRow
        <4>1. ASSUME NEW n \in Int, NEW b \in BOOLEAN
              PROVE  [order EXCEPT !.delivered = b, !.cash = n, !.online = n] \in OrderRow
          BY <1>1 DEF OrderRow
        <4>0. 0 \in Int /\ TRUE \in BOOLEAN
          OBVIOUS
        <4>2. [order EXCEPT !.delivered = TRUE, !.cash = 0, !.online = 0] \in OrderRow
          BY <4>0, <4>1, Zenon
        <4> QED
          BY <3>1, <4>2, Zenon
      <3>3. order'.online = 0
        BY <1>1, <3>1 DEF OrderRow
      <3>4. order'.link = order.link /\ order'.qr = order.qr /\ order'.amount = order.amount
        BY <1>1, <3>1, Zenon DEF OrderRow
      <3> QED
        BY <3>2, <3>3, <3>4
    <2> QED
      BY <2>1 DEF Complete, DoorInv
  <1>3. CASE order.pay # "paid"
    <2>1. /\ order.link # 0 \/ ~ online > 0
          /\ online > 0 => order.qr /\ Near(order.amount, online)
      BY <1>3 DEF Complete, DoorStepOk
    <2>2. PICK m \in {"cash", "online", "split"} :
            order' = [order EXCEPT !.delivered = TRUE, !.pay = "paid", !.cash = cash, !.online = online,
                                   !.method = m]
      <3> DEFINE m == CASE online = 0 -> "cash" [] cash = 0 -> "online" [] OTHER -> "split"
      <3>1. m \in {"cash", "online", "split"}
        OBVIOUS
      <3>2. order' = [order EXCEPT !.delivered = TRUE, !.pay = "paid", !.cash = cash, !.online = online,
                                   !.method = m]
        BY <1>3 DEF Complete
      <3> HIDE DEF m
      <3> QED
        BY <3>1, <3>2
    <2>3. /\ order' \in OrderRow /\ order'.online = online /\ order'.link = order.link
          /\ order'.qr = order.qr /\ order'.amount = order.amount
      BY <1>1, <2>2 DEF OrderRow
    <2> QED
      BY <2>1, <2>3 DEF Complete, DoorInv
  <1> QED
    BY <1>2, <1>3

(* Every step keeps the invariant.                                           *)
LEMMA DoorStep ==
  ASSUME DoorInv, [DoorNext]_doorVars
  PROVE  DoorInv'
  <1>1. Due \in Int
    BY DueIsInt
  <1>2. ASSUME NEW amount \in Parts \cup {Due}, Initiate(amount) PROVE DoorInv'
    BY <1>1, <1>2, DoorAssumption, InitiateKeeps
  <1>3. ASSUME NEW l, PayLink(l) PROVE DoorInv'
    BY <1>3, PayKeeps
  <1>4. ASSUME ConfirmLink PROVE DoorInv'
    BY <1>4, ConfirmedRow DEF ConfirmLink, DoorInv
  <1>5. ASSUME NEW l, ConfirmPayment(l) PROVE DoorInv'
    <2>1. l \in 1..Len(links) /\ l # 0 /\ strayed' \in BOOLEAN
      BY <1>5 DEF ConfirmPayment, DoorInv
    <2> QED
      BY <1>5, <2>1, ConfirmedRow DEF ConfirmPayment, DoorInv
  <1>6. ASSUME NEW online \in Parts \cup {0, Due}, NEW off \in Off, Complete(Due - online + off, online)
        PROVE  DoorInv'
    <2>1. online \in Int /\ Due - online + off \in Int
      BY <1>1, DoorAssumption
    <2> QED
      BY <1>6, <2>1, CompleteKeeps
  <1>7. ASSUME NEW charge \in Platforms, SetPlatform(charge) PROVE DoorInv'
    BY <1>7, DoorAssumption DEF SetPlatform, DoorInv
  <1>8. ASSUME UNCHANGED doorVars PROVE DoorInv'
    BY <1>8 DEF doorVars, DoorInv
  <1> QED
    BY <1>2, <1>3, <1>4, <1>5, <1>6, <1>7, <1>8 DEF DoorNext

(* The total of an order is shared among the restaurant, the rider and the    *)
(* platform without a rest, whatever an admin makes the charge afterwards.    *)
THEOREM BillCorrect == DoorSpec => []BillAddsUp
  <1>1. DoorInv /\ [DoorNext]_doorVars => DoorInv'
    BY DoorStep
  <1> QED
    BY <1>1, DoorStarts, Adds, PTL DEF DoorSpec

(* However many links the rider makes and whichever the customer pays, money  *)
(* taken online at the door was paid on the link the order has, unless the    *)
(* webhook that knows only the order booked the payment of an older link.     *)
THEOREM OnlineCorrect == DoorSpec => []OnlineWasPaid
  <1>1. DoorInv /\ [DoorNext]_doorVars => DoorInv'
    BY DoorStep
  <1>2. DoorInv => OnlineWasPaid
    BY DEF DoorInv, OnlineWasPaid
  <1> QED
    BY <1>1, <1>2, DoorStarts, PTL DEF DoorSpec
-----------------------------------------------------------------------------
(* The two books *)

(* Of products with the same positive factor the larger has the larger other  *)
(* factor.                                                                    *)
LEMMA FactorLess ==
  ASSUME NEW d \in Nat \ {0}, NEW s \in Int, NEW t \in Int, d * s < d * t
  PROVE  s < t
  <1>1. ASSUME s >= t PROVE d * s >= d * t
    <2>1. d * (s - t) >= 0
      BY <1>1
    <2>2. d * (s - t) = d * s - d * t
      OBVIOUS
    <2> QED
      BY <2>1, <2>2
  <1> QED
    BY <1>1

(* What a share is, without the division.                                     *)
LEMMA ShareIs ==
  ASSUME NEW b \in Nat, NEW p \in Nat, NEW w \in Nat \ {0}
  PROVE  /\ Share(b, p, w) \in Int
         /\ (2 * w) * Share(b, p, w) <= 2 * (b * p) + w
         /\ 2 * (b * p) + w < (2 * w) * (Share(b, p, w) + 1)
  <1> DEFINE x == 2 * (b * p) + w
             d == 2 * w
  <1>1. x \in Nat /\ d \in Nat \ {0} /\ Share(b, p, w) = x \div d
    <2>1. b * p \in Nat /\ 2 * b * p = 2 * (b * p)
      OBVIOUS
    <2> QED
      BY <2>1 DEF Share
  <1> HIDE DEF x, d
  <1>2. x \div d \in Int /\ d * (x \div d) <= x /\ x < d * ((x \div d) + 1)
    BY <1>1
  <1> QED
    BY <1>1, <1>2 DEF x, d

(* The shares of two parts make the whole bill, or a paisa more.              *)
LEMMA SharesMakeTheBill ==
  ASSUME NEW b \in Nat, NEW c \in Nat, NEW o \in Nat, c + o > 0
  PROVE  Share(b, c, c + o) + Share(b, o, c + o) \in {b, b + 1}
  <1> DEFINE w == c + o
             d == 2 * w
             s == Share(b, c, w)
             t == Share(b, o, w)
  <1>1. w \in Nat \ {0} /\ d \in Nat \ {0}
    OBVIOUS
  <1>2. /\ s \in Int /\ d * s <= 2 * (b * c) + w /\ 2 * (b * c) + w < d * (s + 1)
        /\ t \in Int /\ d * t <= 2 * (b * o) + w /\ 2 * (b * o) + w < d * (t + 1)
    BY <1>1, ShareIs
  <1>3. 2 * (b * c) + w + (2 * (b * o) + w) = d * (b + 1)
    OBVIOUS
  <1> HIDE DEF s, t
  <1>4. d * (s + t) <= d * (b + 1) /\ d * (b + 1) < d * (s + t + 2)
    <2>1. d * s + d * t = d * (s + t) /\ d * (s + 1) + d * (t + 1) = d * (s + t + 2)
      BY <1>1, <1>2
    <2> QED
      BY <1>2, <1>3, <2>1
  <1> HIDE DEF w, d
  <1>5. s + t < b + 2
    <2>1. d * (b + 1) < d * (b + 2)
      BY <1>1
    <2>2. d * (s + t) < d * (b + 2)
      BY <1>1, <1>2, <1>4, <2>1
    <2> QED
      BY <1>1, <1>2, <2>2, FactorLess
  <1>6. b + 1 < s + t + 2
    BY <1>1, <1>2, <1>4, FactorLess
  <1> QED
    BY <1>2, <1>5, <1>6 DEF s, t, w

(* A bill that is at most half as large again as the cash leaves no share,    *)
(* or a paisa of rounding, for the one paisa that stands for money online.    *)
LEMMA NothingOnline ==
  ASSUME NEW b \in Nat, NEW c \in Nat, 2 * b <= 3 * (c + 1)
  PROVE  b - Share(b, c, c + 1) \in -1..1
  <1> DEFINE d == 2 * (c + 1)
             s == Share(b, c, c + 1)
  <1>1. s \in Int /\ d \in Nat \ {0}
    BY ShareIs
  <1>2. d * s <= 2 * (b * c) + (c + 1) /\ 2 * (b * c) + (c + 1) < d * (s + 1)
    BY ShareIs
  <1>3. d * (b - 1) = 2 * (b * c) + 2 * b - 2 * (c + 1) /\ d * (b + 1) = 2 * (b * c) + 2 * b + 2 * (c + 1)
    OBVIOUS
  <1>4. b * c \in Nat
    OBVIOUS
  <1> HIDE DEF d, s
  <1>5. d * (b - 1) < d * (s + 1) /\ d * s < d * (b + 1)
    BY <1>1, <1>2, <1>3, <1>4
  <1>6. b - 1 < s + 1 /\ s < b + 1
    BY <1>1, <1>5, FactorLess
  <1>7. b - s \in -1..1
    BY <1>1, <1>6
  <1> QED
    BY <1>7 DEF s

(* Amounts are never negative, and a delivered order is paid.                 *)
BooksInv ==
  /\ DoorInv
  /\ order.amount >= 0 /\ order.cash >= 0 /\ order.online >= 0
  /\ order.delivered => order.pay = "paid"

(* The books' invariant holds at the start.                                   *)
LEMMA BooksStart == DoorInit => BooksInv
  <1> SUFFICES ASSUME DoorInit PROVE BooksInv
    OBVIOUS
  <1>1. PICK m \in {"cash", "online"}, p \in {"pending", "paid"} : order =
          [method |-> m, pay |-> p, cash |-> 0,
           online |-> 0, qr |-> FALSE, delivered |-> FALSE, link |-> 0, amount |-> 0]
    BY DEF DoorInit
  <1>2. order.amount = 0 /\ order.cash = 0 /\ order.online = 0 /\ order.delivered = FALSE
    BY <1>1
  <1> QED
    BY <1>2, DoorStarts DEF BooksInv

(* Only an amount above zero is asked for, and only amounts from zero up are  *)
(* collected.                                                                 *)
LEMMA BooksStep ==
  ASSUME BooksInv, [DoorNext]_doorVars
  PROVE  BooksInv'
  <1>1. DoorInv' /\ order \in OrderRow /\ Due \in Int
    BY DoorStep, DueIsInt DEF BooksInv, DoorInv
  <1> DEFINE Columns == /\ order'.amount >= 0 /\ order'.cash >= 0 /\ order'.online >= 0
                        /\ order'.delivered => order'.pay = "paid"
  <1>2. ASSUME NEW amount \in Parts \cup {Due}, Initiate(amount) PROVE Columns
    <2>1. amount > 0 /\ amount \in Int /\ ~ order.delivered
      BY <1>1, <1>2, DoorAssumption DEF Initiate
    <2>2. /\ order'.amount = amount /\ order'.cash = order.cash /\ order'.online = order.online
          /\ order'.delivered = order.delivered
      BY <1>1, <1>2 DEF Initiate, Linked, OrderRow
    <2> QED
      BY <2>1, <2>2 DEF BooksInv
  <1>3. ASSUME order' = Confirmed(order) PROVE Columns
    <2>1. /\ order'.amount = order.amount /\ order'.cash = order.cash /\ order'.online = order.amount
          /\ order'.delivered = order.delivered /\ order'.pay = order.pay
      BY <1>1, <1>3 DEF Confirmed, OrderRow
    <2> QED
      BY <2>1 DEF BooksInv
  <1>4. ASSUME order' = order PROVE Columns
    BY <1>4 DEF BooksInv
  <1>5. ASSUME NEW online \in Parts \cup {0, Due}, NEW off \in Off, Complete(Due - online + off, online)
        PROVE  Columns
    <2>1. CASE order.pay = "paid"
      <3>1. order' = [order EXCEPT !.delivered = TRUE, !.cash = 0, !.online = 0]
        BY <1>5, <2>1, Zenon DEF Complete
      <3>2. order'.cash = 0 /\ order'.online = 0
        BY <1>1, <3>1 DEF OrderRow
      <3>3. order'.amount = order.amount /\ order'.pay = order.pay
        BY <1>1, <3>1, Zenon DEF OrderRow
      <3> QED
        BY <2>1, <3>2, <3>3 DEF BooksInv
    <2>2. CASE order.pay # "paid"
      <3> DEFINE cash == Due - online + off
                 m == CASE online = 0 -> "cash" [] cash = 0 -> "online" [] OTHER -> "split"
      <3>1. online >= 0 /\ cash >= 0
        BY <1>5, <2>2 DEF Complete, DoorStepOk
      <3>2. order' = [order EXCEPT !.delivered = TRUE, !.pay = "paid", !.cash = cash, !.online = online,
                                   !.method = m]
        BY <1>5, <2>2 DEF Complete
      <3> HIDE DEF m, cash
      <3>3. order'.cash = cash /\ order'.online = online /\ order'.amount = order.amount /\ order'.pay = "paid"
        BY <1>1, <3>2 DEF OrderRow
      <3> QED
        BY <3>1, <3>3 DEF BooksInv
    <2> QED
      BY <2>1, <2>2
  <1> HIDE DEF Columns
  <1>6. Columns
    BY <1>2, <1>3, <1>4, <1>5 DEF DoorNext, PayLink, ConfirmLink, ConfirmPayment, SetPlatform, doorVars
  <1> QED
    BY <1>1, <1>6 DEF BooksInv, Columns

(* The payment views and the revenue page split a delivered order's bill by   *)
(* the same cash and online amounts; the two shares add up to the bill, or to *)
(* a paisa more.                                                              *)
LEMMA Agree ==
  ASSUME BooksInv
  PROVE  BooksAgree
  <1> DEFINE b == BilledNow
             view == PaymentView(order, b)
             c == order.cash
             o == order.online
  <1>1. b \in Nat
    <2>1. [bill EXCEPT !.platform = platform] \in BillRow
      BY DEF BooksInv, DoorInv, BillRow
    <2> QED
      BY <2>1, TotalIsCharged DEF BilledNow
  <1>2. SUFFICES ASSUME order.delivered
                 PROVE  /\ view.online + view.cash = b
                        /\ PaymentMode(order, b) \notin {"pending", "failed"}
                        /\ ~ NothingToPay /\ ~ AllInCashThenRaised =>
                             view.online - RevenueOf(order, b) \in -1..1
    BY DEF BooksAgree
  <1>3. order.pay = "paid" /\ c \in Nat /\ o \in Nat /\ order.qr \in BOOLEAN
    BY <1>2 DEF BooksInv, DoorInv, OrderRow
  <1> HIDE DEF b
  <1>4. CASE c > 0 /\ (o > 0 \/ order.qr)
    <2> DEFINE w == c + Max({o, 1})
               s == Share(b, c, w)
    <2>1. w = IF o > 0 THEN c + o ELSE c + 1
      <3>1. Max({o, 1}) = IF o > 0 THEN o ELSE 1
        <4>1. \A x \in {o, 1} : (\A y \in {o, 1} : x >= y) => x = IF o > 0 THEN o ELSE 1
          BY <1>3
        <4>2. \E x \in {o, 1} : \A y \in {o, 1} : x >= y
          BY <1>3
        <4> QED
          BY <4>1, <4>2 DEF Max
      <3> QED
        BY <3>1
    <2>2. view = [via |-> "split", online |-> b - s, cash |-> s]
      BY <1>3, <1>4 DEF PaymentView
    <2> HIDE DEF w, view
    <2>0. w \in Nat \ {0}
      BY <1>3, <1>4, <2>1
    <2>3. s \in Int
      <3> HIDE DEF c
      <3> QED
        BY <1>1, <1>3, <2>0, ShareIs
    <2>4. ~ AllInCashThenRaised => b - s - RevenueOf(order, b) \in -1..1
      <3>1. CASE o > 0
        <4>1. RevenueOf(order, b) = Share(b, o, c + o)
          BY <1>3, <1>4, <3>1 DEF RevenueOf
        <4>2. s + Share(b, o, c + o) \in {b, b + 1}
          BY <1>1, <1>3, <2>1, <3>1, SharesMakeTheBill
        <4>3. Share(b, o, c + o) \in Int
          <5>1. c + o \in Nat \ {0}
            BY <1>3, <3>1
          <5> HIDE DEF c, o
          <5> QED
            BY <1>1, <1>3, <5>1, ShareIs
        <4> HIDE DEF s
        <4> QED
          BY <1>1, <2>3, <4>1, <4>2, <4>3
      <3>2. CASE o = 0
        <4>1. RevenueOf(order, b) = 0
          BY <1>3, <1>4, <3>2 DEF RevenueOf
        <4>2. ~ AllInCashThenRaised => b - s \in -1..1
          BY <1>1, <1>3, <1>4, <2>1, <3>2, NothingOnline DEF AllInCashThenRaised, b
        <4> HIDE DEF s
        <4> QED
          BY <1>1, <2>3, <4>1, <4>2
      <3> QED
        BY <1>3, <3>1, <3>2
    <2>5. PaymentMode(order, b) = "split"
      BY <2>2 DEF PaymentMode, view
    <2> HIDE DEF s
    <2> QED
      BY <1>1, <2>2, <2>3, <2>4, <2>5
  <1>5. CASE c = 0 /\ (o > 0 \/ order.qr)
    <2>1. view = [via |-> "dp_qr", online |-> b, cash |-> 0]
      BY <1>3, <1>5 DEF PaymentView
    <2>2. RevenueOf(order, b) = b
      BY <1>3, <1>5 DEF RevenueOf
    <2> HIDE DEF view
    <2>3. PaymentMode(order, b) = "dp_qr"
      BY <2>1 DEF PaymentMode, view
    <2> QED
      BY <1>1, <2>1, <2>2, <2>3
  <1>6. CASE c > 0 /\ o = 0 /\ ~ order.qr
    <2>1. view = [via |-> "cod", online |-> 0, cash |-> b]
      BY <1>3, <1>6 DEF PaymentView
    <2>2. RevenueOf(order, b) = 0
      BY <1>3, <1>6 DEF RevenueOf
    <2> HIDE DEF view
    <2>3. PaymentMode(order, b) = "cod"
      BY <2>1 DEF PaymentMode, view
    <2> QED
      BY <1>1, <2>1, <2>2, <2>3
  <1>7. CASE c = 0 /\ o = 0 /\ ~ order.qr /\ order.method # "cash"
    <2>1. view = [via |-> "prepaid", online |-> b, cash |-> 0]
      BY <1>3, <1>7 DEF PaymentView
    <2>2. RevenueOf(order, b) = b
      BY <1>3, <1>7 DEF RevenueOf
    <2> HIDE DEF view
    <2>3. PaymentMode(order, b) = "paid"
      BY <1>3, <2>1 DEF PaymentMode, view
    <2> QED
      BY <1>1, <2>1, <2>2, <2>3
  <1>8. CASE c = 0 /\ o = 0 /\ ~ order.qr /\ order.method = "cash"
    <2>1. view = [via |-> "cod", online |-> 0, cash |-> b]
      BY <1>3, <1>8 DEF PaymentView
    <2>2. NothingToPay
      BY <1>8 DEF NothingToPay
    <2> HIDE DEF view
    <2>3. PaymentMode(order, b) = "cod"
      BY <2>1 DEF PaymentMode, view
    <2> QED
      BY <1>1, <2>1, <2>2, <2>3
  <1> QED
    BY <1>3, <1>4, <1>5, <1>6, <1>7, <1>8

(* The payment views (payment_view) and the revenue page (online_amount)      *)
(* agree about a delivered order up to a paisa, and a split is always whole:  *)
(* for any bills, charges and amounts, but for the two orders that            *)
(* NothingToPay and AllInCashThenRaised describe.                             *)
THEOREM BooksCorrect == DoorSpec => []BooksAgree
  <1>1. BooksInv /\ [DoorNext]_doorVars => BooksInv'
    BY BooksStep
  <1>2. BooksInv => BooksAgree
    BY Agree
  <1> QED
    BY <1>1, <1>2, BooksStart, PTL DEF DoorSpec
=============================================================================
