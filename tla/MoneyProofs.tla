---------------------------- MODULE MoneyProofs -----------------------------
(***************************************************************************)
(* No promo code is used more often than its limit nor twice by a          *)
(* customer, cash is credited once, and withdrawals go to the newest       *)
(* account: for any codes, customers, carts, offers and limits, any number *)
(* of workers, cash orders and remittances, and any accounts and amounts.  *)
(***************************************************************************)
EXTENDS Promo, CashRemittance, Payouts, SequenceTheorems, TLAPS

-----------------------------------------------------------------------------
(* Promo codes.                                                               *)
(* No code is used more often than its limit, for any codes, customers,       *)
(* carts, offers and limits, and however the limit is changed.  The column    *)
(* remaining_uses is what carries the argument: while a code is limited it    *)
(* is never below zero, and is the limit less the uses counted against it.    *)

(* What the argument needs of a row of promo_codes.                          *)
Counts(p, used) ==
  /\ p.max \in Nat /\ p.remaining \in Int /\ used \in Nat
  /\ p.max > 0 => p.remaining = p.max - used /\ used <= p.max

(* A promo code's row has its columns.                                        *)
IsRow(p) == p \in PromoRow

(* The inductive invariant of the limits: what was spent and what is left.    *)
PromoInv ==
  /\ DOMAIN promos = Codes /\ DOMAIN spent = Codes
  /\ \A c \in Codes : promos[c] # NoPromo => IsRow(promos[c]) /\ Counts(promos[c], spent[c])

(* Switching a code off touches neither its limit nor what is left of it.    *)
LEMMA Deactivated ==
  ASSUME NEW p, IsRow(p)
  PROVE  /\ IsRow(AutoDeactivate(p)) /\ AutoDeactivate(p).max = p.max
         /\ AutoDeactivate(p).remaining = p.remaining
  BY DEF IsRow, PromoRow, AutoDeactivate

(* The larger of zero and a natural number.                                  *)
LEMMA MaxOfTwo ==
  ASSUME NEW n \in Nat
  PROVE  Max({0, n}) = n
  <1>1. \E x \in {0, n} : \A y \in {0, n} : x >= y
    OBVIOUS
  <1>2. Max({0, n}) \in {0, n} /\ \A y \in {0, n} : Max({0, n}) >= y
    BY <1>1 DEF Max
  <1> QED
    BY <1>2

(* A limited code has a use left when it is redeemed, and one less after.    *)
LEMMA RedeemCounts ==
  ASSUME NEW p, NEW used, IsRow(p), Counts(p, used), ~ IsExpired(AutoDeactivate(p))
  PROVE  /\ IsRow(Taken(AutoDeactivate(p)))
         /\ Counts(Taken(AutoDeactivate(p)), IF p.max = 0 THEN 0 ELSE used + 1)
  <1> DEFINE q == AutoDeactivate(p)
  <1>1. IsRow(q) /\ q.max = p.max /\ q.remaining = p.remaining
    BY Deactivated
  <1>2. p.max > 0 => p.remaining # 0
    BY <1>1 DEF IsExpired
  <1> HIDE DEF q
  <1>3. CASE p.max = 0
    <2>1. Taken(q) = q /\ q.max = 0 /\ q.remaining \in Int
      BY <1>1, <1>3 DEF Taken, Counts
    <2> QED
      BY <1>1, <1>3, <2>1 DEF Counts, q
  <1>4. CASE p.max > 0
    <2>1. p.remaining - 1 \in Nat /\ Max({0, p.remaining - 1}) = p.remaining - 1
      BY <1>2, <1>4, MaxOfTwo DEF Counts
    <2>2. IsRow(Taken(q)) /\ Taken(q).max = p.max /\ Taken(q).remaining = p.remaining - 1
      <3>0. q.max # 0 /\ Max({0, q.remaining - 1}) = p.remaining - 1
        BY <1>1, <1>4, <2>1
      <3>1. PICK b \in BOOLEAN : Taken(q) = [q EXCEPT !.remaining = Max({0, q.remaining - 1}), !.active = b]
        <4> DEFINE on == q.active /\ q.remaining > 1
        <4>1. on \in BOOLEAN
          OBVIOUS
        <4>2. Taken(q) = [q EXCEPT !.remaining = Max({0, q.remaining - 1}), !.active = on]
          BY <3>0 DEF Taken
        <4> HIDE DEF on
        <4> QED
          BY <4>1, <4>2
      <3>2. Taken(q) = [q EXCEPT !.remaining = p.remaining - 1, !.active = b]
        <4>1. Max({0, q.remaining - 1}) = p.remaining - 1
          BY <3>0
        <4> QED
          BY <3>1, <4>1, Zenon
      <3>3. q \in PromoRow /\ p.remaining - 1 \in Int
        BY <1>1, <2>1 DEF IsRow
      <3> QED
        BY <1>1, <3>2, <3>3 DEF IsRow, PromoRow
    <2> QED
      BY <1>4, <2>1, <2>2 DEF Counts, q
  <1> QED
    BY <1>3, <1>4 DEF Counts

(* A new limit that update_promo accepts leaves what the uses left of it.    *)
LEMMA RecapCounts ==
  ASSUME NEW p, NEW used, NEW cap \in Nat, IsRow(p), Counts(p, used),
         cap # 0 /\ p.max # 0 => cap >= p.max - p.remaining
  PROVE  /\ IsRow(Recapped(p, cap)) /\ IsRow(AutoDeactivate(Recapped(p, cap)))
         /\ Counts(AutoDeactivate(Recapped(p, cap)), IF cap = 0 \/ p.max = 0 THEN 0 ELSE used)
  <1> DEFINE q == Recapped(p, cap)
  <1>1. /\ IsRow(q) /\ q.max = cap
        /\ q.remaining = IF cap = 0 \/ p.max = 0 THEN cap ELSE cap - (p.max - p.remaining)
    <2> DEFINE left == IF cap = 0 \/ p.max = 0 THEN cap ELSE cap - (p.max - p.remaining)
    <2>1. PICK b \in BOOLEAN : q = [p EXCEPT !.max = cap, !.remaining = left, !.active = b]
      BY DEF Recapped
    <2>2. left \in Int
      BY DEF Counts
    <2> HIDE DEF left, q
    <2>3. IsRow(q) /\ q.max = cap /\ q.remaining = left
      BY <2>1, <2>2 DEF IsRow, PromoRow
    <2> QED
      BY <2>3 DEF left
  <1> HIDE DEF q
  <1>2. IsRow(AutoDeactivate(q)) /\ AutoDeactivate(q).max = q.max /\ AutoDeactivate(q).remaining = q.remaining
    BY <1>1, Deactivated
  <1>3. Counts(AutoDeactivate(q), IF cap = 0 \/ p.max = 0 THEN 0 ELSE used)
    BY <1>1, <1>2 DEF Counts
  <1> QED
    BY <1>1, <1>2, <1>3 DEF q

(* Every step changes the row of one code, or none of what is counted.       *)
LEMMA PromoStep ==
  ASSUME PromoInv, [PromoNext]_promoVars
  PROVE  PromoInv'
  <1> USE DEF PromoInv
  <1>1. ASSUME NEW who \in Customers, NEW cart \in Carts, NEW code \in Codes, Redeem(who, cart, code)
        PROVE  PromoInv'
    <2>1. IsRow(promos[code]) /\ Counts(promos[code], spent[code]) /\ ~ IsExpired(AutoDeactivate(promos[code]))
      BY <1>1 DEF Redeem, Valid
    <2>2. /\ promos' = [promos EXCEPT ![code] = Taken(AutoDeactivate(promos[code]))]
          /\ spent' = [spent EXCEPT ![code] = IF promos[code].max = 0 THEN 0 ELSE spent[code] + 1]
      BY <1>1 DEF Redeem
    <2> QED
      BY <2>1, <2>2, RedeemCounts
  <1>2. ASSUME NEW code \in Codes, NEW cap \in Caps, UpdateCap(code, cap)
        PROVE  PromoInv'
    <2>1. /\ promos[code] # NoPromo /\ cap \in Nat
          /\ cap # 0 /\ promos[code].max # 0 => cap >= promos[code].max - promos[code].remaining
      BY <1>2, PromoAssumption DEF UpdateCap
    <2>2. /\ promos' = [promos EXCEPT ![code] = AutoDeactivate(Recapped(promos[code], cap))]
          /\ spent' = [spent EXCEPT ![code] = IF cap = 0 \/ promos[code].max = 0 THEN 0 ELSE spent[code]]
      BY <1>2 DEF UpdateCap
    <2> QED
      BY <2>1, <2>2, RecapCounts
  <1>3. ASSUME NEW code \in Codes, NEW offer \in Offers, NEW cap \in Caps, CreatePromo(code, offer, cap)
        PROVE  PromoInv'
    BY <1>3, PromoAssumption DEF CreatePromo, IsRow, PromoRow, Counts
  <1>4. ASSUME NEW code \in Codes, NEW offer \in Offers, NEW active \in BOOLEAN, UpdateOffer(code, offer, active)
        PROVE  PromoInv'
    <2> DEFINE q == [promos[code] EXCEPT !.offer = offer, !.active = active]
    <2>1. /\ IsRow(q) /\ q.max = promos[code].max /\ q.remaining = promos[code].remaining
          /\ Counts(promos[code], spent[code])
      BY <1>4 DEF UpdateOffer, IsRow, PromoRow
    <2>2. promos' = [promos EXCEPT ![code] = AutoDeactivate(q)] /\ UNCHANGED spent
      BY <1>4 DEF UpdateOffer
    <2> HIDE DEF q
    <2>3. IsRow(AutoDeactivate(q)) /\ Counts(AutoDeactivate(q), spent[code])
      BY <2>1, Deactivated DEF Counts
    <2> QED
      BY <2>2, <2>3
  <1>5. ASSUME Look PROVE PromoInv'
    <2>1. \A c \in Codes : promos[c] # NoPromo =>
            IsRow(AutoDeactivate(promos[c])) /\ Counts(AutoDeactivate(promos[c]), spent[c])
      BY Deactivated DEF Counts
    <2> QED
      BY <1>5, <2>1 DEF Look
  <1>6. ASSUME NEW code \in Codes, Passes(code) PROVE PromoInv'
    <2>1. promos' = [promos EXCEPT ![code] = [promos[code] EXCEPT !.past = TRUE]] /\ UNCHANGED spent
      BY <1>6 DEF Passes
    <2>2. IsRow([promos[code] EXCEPT !.past = TRUE]) /\ Counts([promos[code] EXCEPT !.past = TRUE], spent[code])
      BY <1>6 DEF Passes, IsRow, PromoRow, Counts
    <2> QED
      BY <2>1, <2>2
  <1>7. ASSUME NEW code \in Codes, DeletePromo(code) PROVE PromoInv'
    BY <1>7 DEF DeletePromo
  <1>8. ASSUME UNCHANGED <<promos, spent>> PROVE PromoInv'
    BY <1>8
  <1> QED
    BY <1>1, <1>2, <1>3, <1>4, <1>5, <1>6, <1>7, <1>8
       DEF PromoNext, promoVars, PlainOrder, CancelPromoOrder

(* However its limit is raised, lowered, lifted and set again, a limited code *)
(* is never used more often than its limit.                                   *)
THEOREM LimitCorrect == PromoSpec => []UsesWithinLimit
  <1>1. PromoInit => PromoInv
    BY DEF PromoInit, PromoInv
  <1>2. PromoInv /\ [PromoNext]_promoVars => PromoInv'
    BY PromoStep
  <1>3. PromoInv => UsesWithinLimit
    BY DEF PromoInv, Counts, UsesWithinLimit
  <1> QED
    BY <1>1, <1>2, <1>3, PTL DEF PromoSpec

-----------------------------------------------------------------------------
(* What an order keeps of its promo.                                          *)
OrderRow == [customer : Customers, cancelled : BOOLEAN]

(* Who a code is for.                                                         *)
Audience(c) == promos[c].offer.audience

(* A use belongs to a code that is still there, and is for whom it was unless *)
(* that was changed, and to its customer's order.                             *)
UsesInv ==
  /\ promoOrders \in Seq(OrderRow)
  /\ \A u \in usages : /\ u.code \in Codes /\ promos[u.code] # NoPromo
                       /\ u.code \notin readdressed => Audience(u.code) = u.audience
                       /\ u.order \in 1..Len(promoOrders) /\ promoOrders[u.order].customer = u.customer

(* The codes used are still there, and for whom they were unless that is      *)
(* marked as changed.                                                         *)
AudienceKept ==
  \A u \in usages' :
    /\ promos'[u.code] # NoPromo
    /\ u.code \notin readdressed' => u.code \notin readdressed /\ Audience(u.code)' = Audience(u.code)

(* What a step that takes no use may do.                                      *)
KeepsUses ==
  /\ usages' \subseteq usages
  /\ promoOrders' \in Seq(OrderRow) /\ Len(promoOrders') >= Len(promoOrders)
  /\ \A i \in 1..Len(promoOrders) : /\ promoOrders'[i].customer = promoOrders[i].customer
                                    /\ promoOrders[i].cancelled => promoOrders'[i].cancelled
  /\ AudienceKept

(* Such a step keeps the rule, and that uses belong to orders.               *)
LEMMA UsesKept ==
  ASSUME UsesInv, OncePerMobile, KeepsUses
  PROVE  UsesInv' /\ OncePerMobile'
  <1>1. Len(promoOrders) \in Nat /\ Len(promoOrders') \in Nat
    BY DEF UsesInv, KeepsUses
  <1>2. UsesInv'
    BY <1>1 DEF UsesInv, KeepsUses, AudienceKept
  <1>3. ASSUME NEW u \in usages', NEW v \in usages', u.order < v.order
        PROVE  /\ u.code = v.code /\ u.customer = v.customer => v.audience = "all_time"
               /\ v.audience = "new_users" =>
                    /\ u.customer = v.customer => promoOrders'[u.order].cancelled
                    /\ u.device = v.device /\ u.device # NoScope /\ u.code \notin readdressed' =>
                         u.audience # "new_users"
    BY <1>3 DEF UsesInv, KeepsUses, AudienceKept, OncePerMobile
  <1> QED
    BY <1>2, <1>3 DEF OncePerMobile

(* No change of a row but UpdateOffer's touches what the code offers.         *)
LEMMA OffersKept ==
  ASSUME NEW p, IsRow(p)
  PROVE  /\ IsRow(AutoDeactivate(p)) /\ AutoDeactivate(p).offer = p.offer
         /\ Taken(p).offer = p.offer
         /\ \A cap \in Nat : Recapped(p, cap).offer = p.offer
  BY Deactivated DEF IsRow, PromoRow, AutoDeactivate, Taken, Recapped

(* A code that is changed is marked unless it keeps its audience; the others  *)
(* keep theirs.                                                               *)
LEMMA OneRowChanged ==
  ASSUME UsesInv, PromoInv, NEW c \in Codes, NEW row, IsRow(row),
         promos' = [promos EXCEPT ![c] = row], usages' \subseteq usages,
         readdressed \subseteq readdressed',
         row.offer.audience = promos[c].offer.audience \/ c \in readdressed'
  PROVE  AudienceKept
  BY PromoAssumption DEF UsesInv, PromoInv, IsRow, AudienceKept, Audience

(* A step that places and cancels no order.                                  *)
LEMMA OrdersKept ==
  ASSUME UsesInv, UNCHANGED promoOrders, usages' \subseteq usages, AudienceKept
  PROVE  KeepsUses
  BY DEF UsesInv, KeepsUses, AudienceKept

(* The orders after one is placed.                                           *)
LEMMA OrderAdded ==
  ASSUME UsesInv, NEW who \in Customers, promoOrders' = NewOrder(who)
  PROVE  /\ promoOrders' \in Seq(OrderRow) /\ Len(promoOrders) \in Nat
         /\ Len(promoOrders') = Len(promoOrders) + 1
         /\ promoOrders'[Len(promoOrders) + 1].customer = who
         /\ \A i \in 1..Len(promoOrders) : promoOrders'[i] = promoOrders[i]
  <1> DEFINE o == [customer |-> who, cancelled |-> FALSE]
  <1>1. o \in OrderRow /\ o.customer = who
    BY DEF OrderRow
  <1>2. promoOrders' = Append(promoOrders, o) /\ promoOrders \in Seq(OrderRow)
    BY DEF NewOrder, UsesInv
  <1> HIDE DEF o
  <1> QED
    BY <1>1, <1>2

(* The use an order takes is a later one than all others, by a customer who   *)
(* is eligible.                                                               *)
LEMMA RedeemOnce ==
  ASSUME PromoInv, UsesInv, OncePerMobile, NEW who \in Customers, NEW cart \in Carts, NEW code \in Codes,
         Redeem(who, cart, code)
  PROVE  UsesInv' /\ OncePerMobile'
  <1> DEFINE n == Len(promoOrders) + 1
             w == [code |-> code, order |-> n, customer |-> who, device |-> cart.device,
                   discount |-> Discount(promos[code].offer, cart.subtotal),
                   audience |-> promos[code].offer.audience]
  <1>1. w.code = code /\ w.order = n /\ w.customer = who /\ w.device = cart.device
        /\ w.audience = Audience(code)
    BY DEF Audience
  <1>2. usages' = usages \cup {w} /\ promoOrders' = NewOrder(who) /\ Eligible(code, who, w.device)
        /\ readdressed' = readdressed
    BY DEF Redeem, Valid
  <1>3. /\ promoOrders' \in Seq(OrderRow) /\ Len(promoOrders) \in Nat /\ Len(promoOrders') = n
        /\ promoOrders'[n].customer = who /\ n = Len(promoOrders) + 1
        /\ \A i \in 1..Len(promoOrders) : promoOrders'[i] = promoOrders[i]
    BY <1>2, OrderAdded
  <1> HIDE DEF w, n
  <1>4. /\ promos[code] # NoPromo /\ promos'[code] # NoPromo /\ Audience(code)' = Audience(code)
        /\ \A c \in Codes : c # code => promos'[c] = promos[c]
    <2>1. /\ promos[code] # NoPromo /\ IsRow(promos[code]) /\ Counts(promos[code], spent[code])
          /\ ~ IsExpired(AutoDeactivate(promos[code]))
          /\ promos' = [promos EXCEPT ![code] = Taken(AutoDeactivate(promos[code]))]
      BY DEF Redeem, Valid, PromoInv
    <2>2. IsRow(Taken(AutoDeactivate(promos[code])))
          /\ Taken(AutoDeactivate(promos[code])).offer = promos[code].offer
      BY <2>1, RedeemCounts, OffersKept
    <2> QED
      BY <2>1, <2>2, PromoAssumption DEF PromoInv, IsRow, Audience
  <1>5. UsesInv'
    <2>1. ASSUME NEW u \in usages
          PROVE  Audience(u.code)' = Audience(u.code) /\ promos'[u.code] # NoPromo
      BY <1>4 DEF UsesInv, Audience
    <2> QED
      BY <1>1, <1>2, <1>3, <1>4, <2>1 DEF UsesInv
  <1>6. \A u \in usages : u.order < n /\ u.order \in 1..Len(promoOrders)
          /\ promoOrders'[u.order] = promoOrders[u.order] /\ u.code \in Codes
          /\ promoOrders[u.order].customer = u.customer /\ Audience(u.code)' = Audience(u.code)
    BY <1>3, <1>4 DEF UsesInv, Audience
  <1>7. ASSUME NEW u \in usages', NEW v \in usages', u.order < v.order
        PROVE  /\ u.code = v.code /\ u.customer = v.customer => v.audience = "all_time"
               /\ v.audience = "new_users" =>
                    /\ u.customer = v.customer => promoOrders'[u.order].cancelled
                    /\ u.device = v.device /\ u.device # NoScope /\ u.code \notin readdressed' =>
                         u.audience # "new_users"
    <2>1. u \in usages
      BY <1>1, <1>2, <1>3, <1>6, <1>7
    <2>2. CASE v \in usages
      BY <1>2, <1>6, <1>7, <2>1, <2>2 DEF OncePerMobile
    <2>3. CASE v = w
      <3>1. /\ Audience(code) # "all_time" => ~ HasUsed(code, who)
            /\ Audience(code) = "new_users" => ~ DeviceUsed(v.device) /\ IsNewCustomer(who)
        BY <1>2, <2>3 DEF Eligible, Audience
      <3>2. u.customer = who /\ Audience(code) = "new_users" => promoOrders'[u.order].cancelled
        BY <1>3, <1>6, <2>1, <3>1 DEF IsNewCustomer
      <3>3. u.code = code /\ u.customer = who => Audience(code) = "all_time"
        BY <2>1, <3>1 DEF HasUsed
      <3>4. Audience(code) = "new_users" /\ u.device = v.device /\ u.device # NoScope
            /\ u.code \notin readdressed => u.audience # "new_users"
        BY <2>1, <3>1 DEF DeviceUsed, UsesInv, Audience
      <3> QED
        BY <1>1, <1>2, <2>1, <2>3, <3>2, <3>3, <3>4
    <2> QED
      BY <1>2, <2>2, <2>3
  <1> QED
    BY <1>5, <1>7 DEF OncePerMobile, Audience

(* Every step keeps the rule, and that uses belong to orders.                *)
LEMMA UsesStep ==
  ASSUME PromoInv, UsesInv, OncePerMobile, [PromoNext]_promoVars
  PROVE  UsesInv' /\ OncePerMobile'
  <1>1. ASSUME NEW who \in Customers, NEW cart \in Carts, NEW code \in Codes, Redeem(who, cart, code)
        PROVE  UsesInv' /\ OncePerMobile'
    BY <1>1, RedeemOnce
  <1>2. ASSUME NEW who \in Customers, PlainOrder(who)
        PROVE  UsesInv' /\ OncePerMobile'
    BY <1>2, OrderAdded, UsesKept DEF PlainOrder, KeepsUses, AudienceKept, UsesInv, Audience
  <1>3. ASSUME NEW i \in DOMAIN promoOrders, CancelPromoOrder(i)
        PROVE  UsesInv' /\ OncePerMobile'
    <2>1. promoOrders[i] \in OrderRow
      BY DEF UsesInv
    <2>2. /\ [promoOrders[i] EXCEPT !.cancelled = TRUE] \in OrderRow
          /\ [promoOrders[i] EXCEPT !.cancelled = TRUE].customer = promoOrders[i].customer
          /\ [promoOrders[i] EXCEPT !.cancelled = TRUE].cancelled = TRUE
      BY <2>1 DEF OrderRow
    <2>3. /\ promoOrders' \in Seq(OrderRow) /\ Len(promoOrders') = Len(promoOrders) /\ Len(promoOrders) \in Nat
          /\ \A j \in 1..Len(promoOrders) : /\ promoOrders'[j].customer = promoOrders[j].customer
                                            /\ promoOrders[j].cancelled => promoOrders'[j].cancelled
      BY <1>3, <2>2 DEF CancelPromoOrder, UsesInv
    <2> QED
      BY <1>3, <2>3, UsesKept DEF CancelPromoOrder, KeepsUses, AudienceKept, UsesInv, Audience
  <1>4. ASSUME NEW code \in Codes, NEW cap \in Caps, UpdateCap(code, cap)
        PROVE  UsesInv' /\ OncePerMobile'
    <2>1. /\ promos[code] # NoPromo /\ IsRow(promos[code]) /\ Counts(promos[code], spent[code]) /\ cap \in Nat
          /\ cap # 0 /\ promos[code].max # 0 => cap >= promos[code].max - promos[code].remaining
          /\ promos' = [promos EXCEPT ![code] = AutoDeactivate(Recapped(promos[code], cap))]
      BY <1>4, PromoAssumption DEF UpdateCap, PromoInv
    <2>2. IsRow(Recapped(promos[code], cap)) /\ IsRow(AutoDeactivate(Recapped(promos[code], cap)))
      BY <2>1, RecapCounts
    <2>3. AutoDeactivate(Recapped(promos[code], cap)).offer = promos[code].offer
      BY <2>1, <2>2, OffersKept
    <2> QED
      BY <1>4, <2>1, <2>2, <2>3, OneRowChanged, OrdersKept, UsesKept DEF UpdateCap
  <1>5. ASSUME NEW code \in Codes, NEW offer \in Offers, NEW cap \in Caps, CreatePromo(code, offer, cap)
        PROVE  UsesInv' /\ OncePerMobile'
    <2>1. \A u \in usages : u.code # code
      BY <1>5 DEF CreatePromo, UsesInv
    <2>2. AudienceKept
      BY <1>5, <2>1 DEF CreatePromo, UsesInv, AudienceKept, Audience
    <2> QED
      BY <1>5, <2>2, OrdersKept, UsesKept DEF CreatePromo
  <1>6. ASSUME NEW code \in Codes, NEW offer \in Offers, NEW active \in BOOLEAN, UpdateOffer(code, offer, active)
        PROVE  UsesInv' /\ OncePerMobile'
    <2> DEFINE q == [promos[code] EXCEPT !.offer = offer, !.active = active]
    <2>1. IsRow(q) /\ q.offer = offer
      BY <1>6 DEF UpdateOffer, IsRow, PromoRow, PromoInv
    <2>2. /\ promos' = [promos EXCEPT ![code] = AutoDeactivate(q)] /\ readdressed \subseteq readdressed'
          /\ offer.audience = promos[code].offer.audience \/ code \in readdressed'
      BY <1>6 DEF UpdateOffer
    <2> HIDE DEF q
    <2>3. IsRow(AutoDeactivate(q)) /\ AutoDeactivate(q).offer = offer
      BY <2>1, OffersKept
    <2> QED
      BY <1>6, <2>2, <2>3, OneRowChanged, OrdersKept, UsesKept DEF UpdateOffer
  <1>7. ASSUME Look PROVE UsesInv' /\ OncePerMobile'
    <2>1. \A c \in Codes : promos[c] # NoPromo =>
            AutoDeactivate(promos[c]) # NoPromo /\ AutoDeactivate(promos[c]).offer = promos[c].offer
      BY OffersKept, PromoAssumption DEF PromoInv, IsRow
    <2>2. AudienceKept
      BY <1>7, <2>1 DEF Look, UsesInv, AudienceKept, Audience
    <2> QED
      BY <1>7, <2>2, OrdersKept, UsesKept DEF Look
  <1>8. ASSUME NEW code \in Codes, Passes(code) PROVE UsesInv' /\ OncePerMobile'
    <2>1. promos' = [promos EXCEPT ![code] = [promos[code] EXCEPT !.past = TRUE]]
      BY <1>8 DEF Passes
    <2>2. /\ IsRow([promos[code] EXCEPT !.past = TRUE])
          /\ [promos[code] EXCEPT !.past = TRUE].offer = promos[code].offer
      BY <1>8 DEF Passes, IsRow, PromoRow, PromoInv
    <2> QED
      BY <1>8, <2>1, <2>2, OneRowChanged, OrdersKept, UsesKept DEF Passes
  <1>9. ASSUME NEW code \in Codes, DeletePromo(code) PROVE UsesInv' /\ OncePerMobile'
    <2>1. AudienceKept
      BY <1>9 DEF DeletePromo, UsesInv, AudienceKept, Audience
    <2> QED
      BY <1>9, <2>1, OrdersKept, UsesKept DEF DeletePromo
  <1>10. ASSUME UNCHANGED promoVars PROVE UsesInv' /\ OncePerMobile'
    BY <1>10 DEF promoVars, UsesInv, OncePerMobile, Audience
  <1> QED
    BY <1>1, <1>2, <1>3, <1>4, <1>5, <1>6, <1>7, <1>8, <1>9, <1>10 DEF PromoNext

(* However codes are changed, deleted and made again, and orders cancelled:   *)
(* a customer uses a code once unless it is for all times, and a code for new *)
(* users only before an order that counts and once on a device.               *)
THEOREM OnceCorrect == PromoSpec => []OncePerMobile
  <1>1. PromoInit => PromoInv /\ UsesInv /\ OncePerMobile
    BY DEF PromoInit, PromoInv, UsesInv, OncePerMobile
  <1>2. PromoInv /\ UsesInv /\ OncePerMobile /\ [PromoNext]_promoVars =>
          PromoInv' /\ UsesInv' /\ OncePerMobile'
    BY PromoStep, UsesStep
  <1> QED
    BY <1>1, <1>2, PTL DEF PromoSpec

-----------------------------------------------------------------------------
(* Cash remittances.                                                          *)
(* Cash is credited once, for any number of workers, cash orders and          *)
(* remittances: an order is only ever linked to a remittance that is paid,    *)
(* and a paid one has all of its orders linked, to itself or to another.      *)

(* What a row of remittances may hold.                                        *)
RemitRow == [status : {"pending", "paid", "failed"}, orders : SUBSET CashOrders,
             gate : {"none", "open", "captured"}]

(* The inductive invariant: an order points to a paid remittance or to none,  *)
(* and a paid remittance covers no order on hand.                             *)
CashInv ==
  /\ collected \subseteq CashOrders
  /\ linked \in [CashOrders -> Nat]
  /\ remits \in Seq(RemitRow)
  /\ \A o \in CashOrders : linked[o] # 0 => linked[o] \in DOMAIN remits /\ remits[linked[o]].status = "paid"
  /\ \A r \in DOMAIN remits : remits[r].status = "paid" => \A o \in remits[r].orders : linked[o] # 0

(* What is cleared stays with the remittance it was credited to.             *)
Credited ==
  \A o \in CashOrders : Cleared(o) => linked'[o] = linked[o] /\ Cleared(o)'

(* What every step owes: the invariant, and no credit undone.                 *)
Kept == CashInv' /\ Credited

(* The orders of a remittance are cash orders.                               *)
LEMMA RowsOrders ==
  ASSUME CashInv
  PROVE  \A q \in DOMAIN remits : remits[q].orders \subseteq CashOrders
  <1> SUFFICES ASSUME NEW q \in DOMAIN remits PROVE remits[q].orders \subseteq CashOrders
    OBVIOUS
  <1>1. remits[q] \in RemitRow
    BY DEF CashInv
  <1> QED
    BY <1>1 DEF RemitRow

(* A step that changes one row, neither its orders nor a row that is paid,    *)
(* and no link.                                                              *)
LEMMA RowChanged ==
  ASSUME CashInv, NEW r, NEW row \in RemitRow, r \in DOMAIN remits,
         row.orders = remits[r].orders, row.status = "paid" <=> remits[r].status = "paid",
         remits' = [remits EXCEPT ![r] = row], UNCHANGED <<collected, linked>>
  PROVE  Kept
  <1>1. remits' \in Seq(RemitRow) /\ DOMAIN remits' = DOMAIN remits
    BY DEF CashInv
  <1>2. \A q \in DOMAIN remits : /\ remits'[q].orders = remits[q].orders
                                 /\ remits'[q].status = "paid" <=> remits[q].status = "paid"
    BY DEF CashInv
  <1> QED
    BY <1>1, <1>2 DEF CashInv, Kept, Credited, Cleared

(* A released row is not paid, and no order is linked to it.                  *)
LEMMA ReleaseKeeps ==
  ASSUME CashInv, NEW r, Released(r), UNCHANGED collected
  PROVE  Kept
  <1>1. CASE remits[r].status = "paid"
    BY <1>1 DEF Released, CashInv, Kept, Credited, Cleared
  <1>2. CASE remits[r].status # "paid"
    <2>1. linked' = linked
      BY <1>2 DEF Released, CashInv
    <2>2. CASE r \notin DOMAIN remits
      <3>1. remits' = remits
        BY <1>2, <2>2 DEF Released, CashInv
      <3> QED
        BY <2>1, <3>1 DEF CashInv, Kept, Credited, Cleared
    <2>3. CASE r \in DOMAIN remits
      <3>1. remits[r] \in RemitRow
        BY <2>3 DEF CashInv
      <3>2. remits' = [remits EXCEPT ![r] = [remits[r] EXCEPT !.status = "failed"]]
        BY <1>2 DEF Released
      <3>3. /\ [remits[r] EXCEPT !.status = "failed"] \in RemitRow
            /\ [remits[r] EXCEPT !.status = "failed"].orders = remits[r].orders
            /\ [remits[r] EXCEPT !.status = "failed"].status # "paid"
        BY <3>1 DEF RemitRow
      <3> QED
        BY <1>2, <2>1, <2>3, <3>2, <3>3, RowChanged
    <2> QED
      BY <2>2, <2>3
  <1> QED
    BY <1>1, <1>2

(* Only what the gateway knows of a row changes.                             *)
LEMMA GateChanged ==
  ASSUME CashInv, NEW r, NEW gate \in {"none", "open", "captured"},
         remits' = [remits EXCEPT ![r].gate = gate], UNCHANGED <<collected, linked>>
  PROVE  Kept
  <1>1. CASE r \notin DOMAIN remits
    <2>1. remits' = remits
      BY <1>1 DEF CashInv
    <2> QED
      BY <2>1 DEF CashInv, Kept, Credited, Cleared
  <1>2. CASE r \in DOMAIN remits
    <2>1. remits[r] \in RemitRow
      BY <1>2 DEF CashInv
    <2>2. /\ [remits[r] EXCEPT !.gate = gate] \in RemitRow
          /\ [remits[r] EXCEPT !.gate = gate].orders = remits[r].orders
          /\ [remits[r] EXCEPT !.gate = gate].status = remits[r].status
      BY <2>1 DEF RemitRow
    <2> QED
      BY <1>2, <2>2, RowChanged
  <1> QED
    BY <1>1, <1>2

(* A row is added; if it is paid, its orders are linked to it.               *)
LEMMA RowAdded ==
  ASSUME CashInv, NEW status \in {"pending", "paid"},
         remits' = Append(remits, [status |-> status, orders |-> OnHand, gate |-> "none"]),
         linked' = IF status = "pending" THEN linked
                   ELSE [o \in CashOrders |-> IF o \in OnHand THEN Len(remits') ELSE linked[o]],
         UNCHANGED collected
  PROVE  Kept
  <1> DEFINE row == [status |-> status, orders |-> OnHand, gate |-> "none"]
  <1>1. row \in RemitRow /\ row.status = status /\ row.orders = OnHand
    BY DEF RemitRow, OnHand, CashInv
  <1>2. remits \in Seq(RemitRow) /\ remits' = Append(remits, row)
    BY DEF CashInv
  <1> HIDE DEF row
  <1>3. /\ remits' \in Seq(RemitRow) /\ Len(remits') = Len(remits) + 1
        /\ DOMAIN remits' = 1..(Len(remits) + 1) /\ DOMAIN remits = 1..Len(remits) /\ Len(remits) \in Nat
        /\ remits'[Len(remits) + 1] = row
        /\ \A q \in 1..Len(remits) : remits'[q] = remits[q]
    BY <1>1, <1>2
  <1>4. CASE status = "pending"
    BY <1>1, <1>3, <1>4 DEF CashInv, Kept, Credited, Cleared
  <1>5. CASE status = "paid"
    <2>1. /\ \A o \in OnHand : linked'[o] = Len(remits) + 1
          /\ \A o \in CashOrders \ OnHand : linked'[o] = linked[o]
          /\ linked' \in [CashOrders -> Nat] /\ OnHand \subseteq CashOrders
      BY <1>3, <1>5 DEF CashInv, OnHand
    <2>2. \A o \in CashOrders : linked'[o] # 0 =>
            linked'[o] \in DOMAIN remits' /\ remits'[linked'[o]].status = "paid"
      BY <1>1, <1>3, <1>5, <2>1 DEF CashInv
    <2>5. \A o \in OnHand : linked'[o] # 0
      <3>1. Len(remits) + 1 # 0
        BY <1>3
      <3> QED
        BY <2>1, <3>1, Zenon
    <2>3. \A r \in DOMAIN remits' : remits'[r].status = "paid" => \A o \in remits'[r].orders : linked'[o] # 0
      <3>1. ASSUME NEW r \in 1..Len(remits), remits[r].status = "paid", NEW o \in remits[r].orders
            PROVE  linked'[o] # 0
        <4>1. o \in CashOrders /\ linked[o] # 0
          BY <1>3, <3>1, RowsOrders DEF CashInv
        <4>2. CASE o \in OnHand
          BY <2>5, <4>2
        <4>3. CASE o \notin OnHand
          <5>1. linked'[o] = linked[o]
            BY <2>1, <4>1, <4>3
          <5> QED
            BY <4>1, <5>1
        <4> QED
          BY <4>2, <4>3
      <3>2. ASSUME NEW o \in OnHand PROVE linked'[o] # 0
        BY <2>5, <3>2
      <3>3. ASSUME NEW r \in DOMAIN remits', remits'[r].status = "paid", NEW o \in remits'[r].orders
            PROVE  linked'[o] # 0
        <4>1. CASE r = Len(remits) + 1
          BY <1>1, <1>3, <3>2, <3>3, <4>1
        <4>2. CASE r \in 1..Len(remits)
          BY <1>3, <3>1, <3>3, <4>2
        <4> QED
          BY <1>3, <4>1, <4>2
      <3> QED
        BY <3>3
    <2>4. Credited
      BY <1>3, <2>1, <2>2 DEF Credited, Cleared, OnHand, CashInv
    <2> QED
      BY <1>3, <2>1, <2>2, <2>3, <2>4 DEF Kept, CashInv
  <1> QED
    BY <1>4, <1>5

(* A payment is recorded: the orders another paid remittance has stay there. *)
LEMMA RecordKeeps ==
  ASSUME CashInv, NEW r, RecordRemittance(r)
  PROVE  Kept
  <1>1. r \in DOMAIN remits /\ remits[r] \in RemitRow /\ r \in Nat \ {0}
    BY DEF RecordRemittance, CashInv
  <1>2. /\ remits' \in Seq(RemitRow) /\ DOMAIN remits' = DOMAIN remits
        /\ remits'[r].status = "paid" /\ remits'[r].orders = remits[r].orders
        /\ \A q \in DOMAIN remits : q # r => remits'[q] = remits[q]
    <2>1. [remits[r] EXCEPT !.status = "paid"] \in RemitRow
      BY <1>1 DEF RemitRow
    <2> QED
      BY <1>1, <2>1 DEF RecordRemittance, CashInv, RemitRow
  <1>3. /\ linked' \in [CashOrders -> Nat]
        /\ \A o \in CashOrders : linked[o] # 0 => linked'[o] = linked[o]
        /\ \A o \in CashOrders : o \in remits[r].orders /\ linked[o] = 0 => linked'[o] = r
        /\ \A o \in CashOrders : linked'[o] \in {linked[o], r}
    BY <1>1 DEF RecordRemittance, Attach, Cleared, CashInv
  <1>4. \A o \in CashOrders : linked'[o] # 0 =>
          linked'[o] \in DOMAIN remits' /\ remits'[linked'[o]].status = "paid"
    BY <1>1, <1>2, <1>3 DEF CashInv
  <1>5. \A q \in DOMAIN remits' : remits'[q].status = "paid" => \A o \in remits'[q].orders : linked'[o] # 0
    <2> SUFFICES ASSUME NEW q \in DOMAIN remits, remits'[q].status = "paid", NEW o \in remits'[q].orders
                 PROVE  linked'[o] # 0
      BY <1>2
    <2>1. CASE q = r
      <3>1. o \in CashOrders /\ o \in remits[r].orders
        BY <1>1, <1>2, <2>1, RowsOrders
      <3> QED
        BY <1>1, <1>3, <3>1
    <2>2. CASE q # r
      <3>1. o \in CashOrders /\ linked[o] # 0
        BY <1>2, <2>2, RowsOrders DEF CashInv
      <3> QED
        BY <1>3, <3>1
    <2> QED
      BY <2>1, <2>2
  <1>6. Credited
    BY <1>2, <1>3, <1>4 DEF Credited, Cleared, CashInv
  <1> QED
    BY <1>2, <1>3, <1>4, <1>5, <1>6 DEF Kept, CashInv, RecordRemittance

(* Every step keeps the invariant, and what is credited.                     *)
LEMMA CashStep ==
  ASSUME CashInv, [CashNext]_cashVars
  PROVE  Kept
  <1>1. ASSUME NEW o \in CashOrders, HandIn(o) PROVE Kept
    BY <1>1 DEF HandIn, CashInv, Kept, Credited, Cleared
  <1>2. ASSUME NEW d \in Desks, NEW op, StartCash(d, op) PROVE Kept
    BY <1>2 DEF StartCash, CashInv, Kept, Credited, Cleared
  <1>3. ASSUME NEW d \in Desks, NEW op, NEW r, StartRelease(d, op, r) PROVE Kept
    BY <1>3, ReleaseKeeps DEF StartRelease
  <1>4. ASSUME NEW d \in Desks, NEW r, Release(d, r) PROVE Kept
    BY <1>4, ReleaseKeeps DEF Release
  <1>5. ASSUME NEW d \in Desks, AddRemittance(d) PROVE Kept
    BY <1>5, RowAdded DEF AddRemittance
  <1>6. ASSUME NEW d \in Desks, OpenRemittance(d) PROVE Kept
    BY <1>6, GateChanged DEF OpenRemittance
  <1>7. ASSUME NEW d \in Desks, ClearByHand(d) PROVE Kept
    BY <1>7, RowAdded DEF ClearByHand
  <1>8. ASSUME NEW r, PayRemittance(r) PROVE Kept
    BY <1>8, GateChanged DEF PayRemittance
  <1>9. ASSUME NEW r, RecordRemittance(r) PROVE Kept
    BY <1>9, RecordKeeps
  <1>10. ASSUME UNCHANGED <<collected, linked, remits>> PROVE Kept
    BY <1>10 DEF CashInv, Kept, Credited, Cleared
  <1> QED
    BY <1>1, <1>2, <1>3, <1>4, <1>5, <1>6, <1>7, <1>8, <1>9, <1>10
       DEF CashNext, cashVars, LeaveDesk

(* Whatever requests and payments of one rider cross, a payment that is       *)
(* recorded takes all the cash it lists off his hands, and cash that is off   *)
(* them is never credited to a second remittance.                             *)
THEOREM CashCorrect == CashSpec => CashClearedOnce
  <1>1. CashInit => CashInv
    BY DEF CashInit, CashInv
  <1>2. CashInv /\ [CashNext]_cashVars => CashInv'
    BY CashStep DEF Kept
  <1>3. CashInv /\ [CashNext]_cashVars =>
          /\ \A r \in DOMAIN remits' : remits'[r].status = "paid" => remits'[r].orders \cap OnHand' = {}
          /\ \A o \in CashOrders : Cleared(o) => linked'[o] = linked[o] /\ Cleared(o)'
    <2> SUFFICES ASSUME CashInv, [CashNext]_cashVars
                 PROVE  /\ \A r \in DOMAIN remits' : remits'[r].status = "paid" =>
                                                     remits'[r].orders \cap OnHand' = {}
                        /\ Credited
      BY DEF Credited
    <2>1. CashInv' /\ Credited
      BY CashStep DEF Kept
    <2>2. ASSUME NEW r \in DOMAIN remits', remits'[r].status = "paid", NEW o \in remits'[r].orders
          PROVE  o \notin OnHand'
      <3>1. linked'[o] # 0 /\ remits'[r] \in RemitRow
        BY <2>1, <2>2 DEF CashInv
      <3>3. o \in CashOrders
        BY <2>2, <3>1 DEF RemitRow
      <3>2. Cleared(o)'
        BY <2>1, <3>1, <3>3 DEF CashInv, Cleared
      <3> QED
        BY <3>2 DEF OnHand
    <2> QED
      BY <2>1, <2>2
  <1> QED
    BY <1>1, <1>2, <1>3, PTL DEF CashSpec, CashClearedOnce

-----------------------------------------------------------------------------
(* Bank accounts and withdrawals.                                             *)
(* Only the newest account of a partner can be the primary one: adding one    *)
(* demotes the others, and an account is never promoted.                      *)

(* What a row of bank_accounts may hold.                                      *)
AccountColumns == [verified : BOOLEAN, primary : BOOLEAN]

(* The primary account, if any, is the newest.                                *)
PayoutInv ==
  /\ accounts \in Seq(AccountColumns)
  /\ \A i \in DOMAIN accounts : accounts[i].primary => i = Len(accounts)
  /\ withdrawals \in Seq([amount : Amounts, status : {"processing", "pending"}, account : Nat])

(* What a step may do with a withdrawal. *)
PayoutStep == Len(withdrawals') > Len(withdrawals) => Last(withdrawals').account = Len(accounts)

(* A new account is the last row and the only primary one.                    *)
LEMMA AccountAdded ==
  ASSUME PayoutInv, NEW v \in BOOLEAN, AddAccount(v)
  PROVE  PayoutInv' /\ PayoutStep
  <1>1. /\ accounts \in Seq(AccountColumns) /\ Len(accounts) \in Nat
        /\ DOMAIN accounts = 1..Len(accounts)
    BY DEF PayoutInv
  <1> DEFINE d == Demoted(accounts)  new == [verified |-> v, primary |-> TRUE]
  <1>2. /\ d \in Seq(AccountColumns) /\ Len(d) = Len(accounts)
        /\ \A i \in DOMAIN accounts : ~ d[i].primary
    <2>1. /\ DOMAIN d = 1..Len(accounts)
          /\ \A i \in 1..Len(accounts) : d[i] = [accounts[i] EXCEPT !.primary = FALSE]
      BY <1>1 DEF Demoted
    <2>2. \A i \in 1..Len(accounts) : accounts[i] \in AccountColumns
      BY <1>1
    <2>3. \A i \in 1..Len(accounts) : d[i] \in AccountColumns /\ ~ d[i].primary
      BY <2>1, <2>2 DEF AccountColumns
    <2>4. d = [i \in 1..Len(accounts) |-> d[i]]
      BY <1>1 DEF Demoted
    <2>5. d \in Seq(AccountColumns)
      <3> HIDE DEF d
      <3> QED BY <1>1, <2>3, <2>4, IsASeq
    <2>6. Len(d) = Len(accounts)
      <3> HIDE DEF d
      <3> QED BY <1>1, <2>1, <2>5
    <2> QED
      BY <1>1, <2>3, <2>5, <2>6
  <1>3. accounts' = Append(d, new) /\ withdrawals' = withdrawals
    BY DEF AddAccount
  <1> HIDE DEF d
  <1>4. new \in AccountColumns
    BY DEF AccountColumns
  <1> HIDE DEF new
  <1>5. /\ accounts' \in Seq(AccountColumns) /\ Len(accounts') = Len(accounts) + 1
        /\ \A i \in 1..Len(accounts) : accounts'[i] = d[i]
    BY <1>1, <1>2, <1>3, <1>4
  <1>6. \A i \in DOMAIN accounts' : accounts'[i].primary => i = Len(accounts')
    BY <1>1, <1>2, <1>5
  <1> QED
    BY <1>3, <1>5, <1>6 DEF PayoutInv, PayoutStep

(* A withdrawal takes the primary account, which is the newest.               *)
LEMMA Withdrawn ==
  ASSUME PayoutInv, NEW a \in Amounts, NEW g \in BOOLEAN, Withdraw(a, g)
  PROVE  PayoutInv' /\ PayoutStep
  <1>1. PICK i \in DOMAIN accounts :
          /\ accounts[i].primary
          /\ withdrawals' = Append(withdrawals,
               [amount |-> a, status |-> IF g THEN "processing" ELSE "pending", account |-> i])
    BY DEF Withdraw
  <1>2. i = Len(accounts) /\ accounts' = accounts /\ i \in Nat
    BY <1>1 DEF PayoutInv, Withdraw
  <1> DEFINE w == [amount |-> a, status |-> IF g THEN "processing" ELSE "pending", account |-> i]
             Rows == [amount : Amounts, status : {"processing", "pending"}, account : Nat]
  <1>3. w \in Rows /\ w.account = i
    BY <1>2
  <1>4. withdrawals \in Seq(Rows) /\ withdrawals' = Append(withdrawals, w)
    BY <1>1 DEF PayoutInv
  <1> HIDE DEF w, Rows
  <1>5. withdrawals' \in Seq(Rows) /\ Len(withdrawals') = Len(withdrawals) + 1
        /\ withdrawals'[Len(withdrawals')] = w
    BY <1>3, <1>4
  <1>6. Last(withdrawals') = w
    BY <1>5 DEF Last
  <1> QED
    BY <1>2, <1>3, <1>5, <1>6 DEF PayoutInv, PayoutStep, Rows

(* The primary account is always the newest.                                  *)
LEMMA PayoutSafe == PayoutSpec => []PayoutInv /\ [][PayoutStep]_payoutVars
  <1>1. PayoutInit => PayoutInv
    BY DEF PayoutInit, PayoutInv
  <1>2. PayoutInv /\ [PayoutNext]_payoutVars => PayoutInv' /\ [PayoutStep]_payoutVars
    <2>1. PayoutInv /\ PayoutNext => PayoutInv' /\ PayoutStep
      BY AccountAdded, Withdrawn DEF PayoutNext
    <2>2. PayoutInv /\ UNCHANGED payoutVars => PayoutInv'
      BY DEF PayoutInv, payoutVars
    <2> QED
      BY <2>1, <2>2
  <1> QED
    BY <1>1, <1>2, PTL DEF PayoutSpec

(* A withdrawal is created for the account that was added last                *)
(* (request_withdrawal takes the primary account, add_bank_account demotes    *)
(* the others), for any number of accounts, withdrawals and amounts.          *)
THEOREM PayoutsPayTheNewest == PayoutSpec => PaysNewestAccount
  BY PayoutSafe DEF PaysNewestAccount, PayoutStep
=============================================================================
