-------------------------------- MODULE Promo -------------------------------
(***************************************************************************)
(* Promo codes (promocodes/service.py): what the admin sets, which carts   *)
(* and customers a code is for, and the uses that orders take.  Requests   *)
(* come one at a time; with two at once remaining_uses loses a decrement.  *)
(***************************************************************************)
EXTENDS Integers, Sequences, FiniteSetsExt

CONSTANTS
  Codes,         \* the codes of one tenant
  Offers,        \* what a code may offer: [channel, audience, stores, category, minCart,
                 \*   flat, percent]; no stores, NoScope and 0 set no limit
  Caps,          \* values of max_uses; 0 is unlimited
  Carts,         \* what is ordered: [store, category, channel, subtotal, device]
  Customers,     \* customers, each with a mobile number of its own
  NoScope,       \* no category; no usable device id
  NoPromo,       \* no such row
  MaxOrders      \* bound on the orders placed

(* A row of promo_codes; past says that its expires_at has passed.            *)
PromoRow == [offer : Offers, max : Nat, remaining : Int, active : BOOLEAN, past : BOOLEAN]

ASSUME PromoAssumption == Caps \subseteq Nat /\ NoPromo \notin PromoRow

VARIABLES
  promos,        \* the rows of promo_codes
  usages,        \* the rows of promo_code_usages
  promoOrders,   \* the orders placed, in the order of their ids
  (* what happened, for the properties alone; so is a use's audience *)
  spent,         \* uses since the limit was last set from unlimited
  readdressed    \* the codes whose audience was changed

promoVars == <<promos, usages, promoOrders, spent, readdressed>>

(* _maybe_auto_deactivate: used up or past its date.                          *)
AutoDeactivate(p) ==
  [p EXCEPT !.active = @ /\ ~ ((p.max > 0 /\ p.remaining = 0) \/ p.past)]

(* _is_expired *)
IsExpired(p) == ~ p.active \/ (p.max > 0 /\ p.remaining = 0) \/ p.past

(* _restaurant_mismatch; _category_mismatch, where a category the cart does   *)
(* not tell is not held against it.                                           *)
RestaurantMismatch(offer, cart) == offer.stores # {} /\ cart.store \notin offer.stores
CategoryMismatch(offer, cart) ==
  NoScope \notin {offer.category, cart.category} /\ offer.category # cart.category

(* _compute_discount *)
Discount(offer, subtotal) ==
  IF offer.flat > 0 THEN Min({offer.flat, subtotal}) ELSE (subtotal * offer.percent) \div 100

HasUsed(code, who)  == \E u \in usages : u.code = code /\ u.customer = who
DeviceUsed(device)  ==
  device # NoScope /\ \E u \in usages : u.device = device /\ promos[u.code].offer.audience = "new_users"
IsNewCustomer(who)  ==
  \A i \in DOMAIN promoOrders : promoOrders[i].customer = who => promoOrders[i].cancelled

(* Mutant of Eligible: a new customer is one without orders, whatever he used.*)
EligibleByOrders(code, who, device) ==
  promos[code].offer.audience = "new_users" => IsNewCustomer(who)

(* _eligibility_error: once per mobile or account, unless the code is for all *)
(* times; a code for new users also once per device and before any order.     *)
Eligible(code, who, device) ==
  LET audience == promos[code].offer.audience IN
  \/ audience = "all_time"
  \/ /\ ~ HasUsed(code, who)
     /\ audience = "new_users" => ~ DeviceUsed(device) /\ IsNewCustomer(who)

(* validate_promo *)
Valid(code, who, cart) ==
  LET p == promos[code] IN
  /\ p # NoPromo
  /\ p.offer.channel = "mobile_app" => cart.channel # "web"
  /\ ~ IsExpired(AutoDeactivate(p))
  /\ ~ RestaurantMismatch(p.offer, cart) /\ ~ CategoryMismatch(p.offer, cart)
  /\ Eligible(code, who, cart.device)
  /\ cart.subtotal >= p.offer.minCart

(* The use an order takes: at the last one the code is switched off.          *)
Taken(p) ==
  IF p.max = 0 THEN p
  ELSE [p EXCEPT !.remaining = Max({0, @ - 1}), !.active = @ /\ p.remaining > 1]

-----------------------------------------------------------------------------
NewOrder(who) == Append(promoOrders, [customer |-> who, cancelled |-> FALSE])

(* place_order with a code: checked before the order is made and again, with  *)
(* the order in the session, by apply_promo_to_order; then one commit.  A     *)
(* code that does not hold leaves no order.                                   *)
Redeem(who, cart, code) ==
  /\ Len(promoOrders) < MaxOrders
  /\ Valid(code, who, cart)
  /\ promoOrders' = NewOrder(who)
  /\ usages' = usages \cup
       {[code |-> code, order |-> Len(promoOrders) + 1, customer |-> who, device |-> cart.device,
         discount |-> Discount(promos[code].offer, cart.subtotal),
         audience |-> promos[code].offer.audience]}
  /\ promos' = [promos EXCEPT ![code] = Taken(AutoDeactivate(@))]
  /\ spent' = [spent EXCEPT ![code] = IF promos[code].max = 0 THEN 0 ELSE @ + 1]
  /\ UNCHANGED readdressed

PlainOrder(who) ==
  /\ Len(promoOrders) < MaxOrders
  /\ promoOrders' = NewOrder(who)
  /\ UNCHANGED <<promos, usages, spent, readdressed>>

(* An order is cancelled: the use it took stays taken.                        *)
CancelPromoOrder(i) ==
  /\ ~ promoOrders[i].cancelled
  /\ promoOrders' = [promoOrders EXCEPT ![i].cancelled = TRUE]
  /\ UNCHANGED <<promos, usages, spent, readdressed>>

(* The admin's list, the public list and a validation switch off what is over.*)
Look ==
  /\ promos' = [c \in Codes |-> IF promos[c] = NoPromo THEN NoPromo ELSE AutoDeactivate(promos[c])]
  /\ UNCHANGED <<usages, promoOrders, spent, readdressed>>

Passes(code) ==
  /\ promos[code] # NoPromo /\ ~ promos[code].past
  /\ promos' = [promos EXCEPT ![code].past = TRUE]
  /\ UNCHANGED <<usages, promoOrders, spent, readdressed>>

CreatePromo(code, offer, cap) ==
  /\ promos[code] = NoPromo
  /\ promos' = [promos EXCEPT ![code] =
       [offer |-> offer, max |-> cap, remaining |-> cap, active |-> TRUE, past |-> FALSE]]
  /\ spent' = [spent EXCEPT ![code] = 0]
  /\ UNCHANGED <<usages, promoOrders, readdressed>>

(* Mutant of Recapped: a new limit starts from zero uses.                     *)
RecappedAfresh(p, cap) == [p EXCEPT !.max = cap, !.remaining = cap]

(* max_uses is changed: the uses taken count against the new limit, except    *)
(* those taken while the code was unlimited.                                  *)
Recapped(p, cap) ==
  LET left == IF cap = 0 \/ p.max = 0 THEN cap ELSE cap - (p.max - p.remaining) IN
  [p EXCEPT !.max = cap, !.remaining = left,
            !.active = @ /\ (cap = 0 \/ p.max = 0 \/ left > 0)]

(* update_promo                                                               *)
UpdateCap(code, cap) ==
  LET p == promos[code] IN
  /\ p # NoPromo
  /\ cap # 0 /\ p.max # 0 => cap >= p.max - p.remaining
  /\ promos' = [promos EXCEPT ![code] = AutoDeactivate(Recapped(p, cap))]
  /\ spent' = [spent EXCEPT ![code] = IF cap = 0 \/ p.max = 0 THEN 0 ELSE @]
  /\ UNCHANGED <<usages, promoOrders, readdressed>>

UpdateOffer(code, offer, active) ==
  /\ promos[code] # NoPromo
  /\ promos' = [promos EXCEPT ![code] =
       AutoDeactivate([@ EXCEPT !.offer = offer, !.active = active])]
  /\ readdressed' = readdressed \cup
       (IF offer.audience # promos[code].offer.audience THEN {code} ELSE {})
  /\ UNCHANGED <<usages, promoOrders, spent>>

(* The usages of a code go with it.                                           *)
DeletePromo(code) ==
  /\ promos[code] # NoPromo
  /\ promos' = [promos EXCEPT ![code] = NoPromo]
  /\ usages' = {u \in usages : u.code # code}
  /\ spent' = [spent EXCEPT ![code] = 0] /\ readdressed' = readdressed \ {code}
  /\ UNCHANGED promoOrders

PromoInit ==
  /\ promos = [c \in Codes |-> NoPromo] /\ spent = [c \in Codes |-> 0]
  /\ usages = {} /\ promoOrders = <<>> /\ readdressed = {}

PromoNext ==
  \/ \E who \in Customers :
       \/ PlainOrder(who)
       \/ \E cart \in Carts, code \in Codes : Redeem(who, cart, code)
  \/ (\E i \in DOMAIN promoOrders : CancelPromoOrder(i)) \/ Look
  \/ \E code \in Codes :
       \/ Passes(code) \/ DeletePromo(code) \/ (\E cap \in Caps : UpdateCap(code, cap))
       \/ \E offer \in Offers :
            \/ \E cap \in Caps : CreatePromo(code, offer, cap)
            \/ \E active \in BOOLEAN : UpdateOffer(code, offer, active)

PromoSpec == PromoInit /\ [][PromoNext]_promoVars

-----------------------------------------------------------------------------
(* However the limit is raised, lowered, lifted and set again while orders    *)
(* come and go, a limited code is never used more often than its limit, and   *)
(* remaining_uses is what is left of it.                                      *)
UsesWithinLimit ==
  \A c \in Codes : promos[c] # NoPromo /\ promos[c].max > 0 =>
    promos[c].remaining = promos[c].max - spent[c] /\ spent[c] <= promos[c].max

(* "all = any customer, once per mobile; new_users = first order only": under *)
(* the audience that it has at the time, no customer uses a code twice, also  *)
(* when the order of the first use was cancelled, and a code for new users is *)
(* used before any order that counts. A device uses one of them once, unless  *)
(* the audience of the code it used was changed: what counts is whom that     *)
(* code is for now.                                                           *)
OncePerMobile ==
  \A u, v \in usages : u.order < v.order =>
    /\ u.code = v.code /\ u.customer = v.customer => v.audience = "all_time"
    /\ v.audience = "new_users" =>
         /\ u.customer = v.customer => promoOrders[u.order].cancelled
         /\ u.device = v.device /\ u.device # NoScope /\ u.code \notin readdressed =>
              u.audience # "new_users"
=============================================================================
