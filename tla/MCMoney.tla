------------------------------- MODULE MCMoney ------------------------------
(* Menus and what they offer, promo codes, an order of several stores, money  *)
(* at the door, cash on hand, and payouts: a behaviour is about one of them.  *)
EXTENDS Promo, MultiStore, DoorMoney, CashRemittance, Payouts, MenuScripts

CONSTANTS s1, s2

VARIABLES
  part,           \* what the behaviour is about
  town            \* the two shops of a behaviour about menus

AnyOffer   == [channel |-> "all", audience |-> "all_time", stores |-> {}, category |-> NoScope,
               minCart |-> 0, flat |-> 0, percent |-> 10]
PromoOffers ==
  {[AnyOffer EXCEPT !.audience = "all", !.stores = {"grocer"}, !.category = "food", !.flat = 30],
   [AnyOffer EXCEPT !.audience = "new_users"],
   [AnyOffer EXCEPT !.channel = "mobile_app", !.minCart = 100]}
PromoCarts ==
  {[store |-> "grocer", category |-> "food", channel |-> "web", subtotal |-> 200, device |-> NoScope],
   [store |-> "baker", category |-> NoScope, channel |-> "app", subtotal |-> 90, device |-> "phone"]}

BillOf(discount, packing) ==
  [display |-> 100, transfer |-> 70, platform |-> 2, delivery |-> 20, payout |-> 15,
   packing |-> packing, discount |-> discount]
DoorBills  == {BillOf(0, 0), BillOf(0, 7), BillOf(10, 7), BillOf(129, 7)}
(* Two stores with different goods; the promo is larger than one of them.     *)
StoreGoods   == (s1 :> 3) @@ (s2 :> 7)
DoorSettings == [prepaid |-> TRUE, cod |-> TRUE, codMax |-> 125]

(* Towns of two shops: together they have every shop a script is for.         *)
Towns ==
  {{"Apna Adda", "Chai Shai Bar"}, {"Freshness Point", "Hot N Cool Cups"},
   {"Hotels Town Restaurant", "Lalganj Cafe Town"},
   {"Bikaner Rajasthan Sweets", "Shyam Sawariya Sweets"},
   {"The Delhi Chaap", "Vinayak Bhog Family Restaurants"},
   {"Vinayak Restaurant & Hotel", "Vinayak Hotel and Restaurant"},
   {RpGrand, "V3 South Indian Family Restaurants"}}
FirstShop(shops) == IF RpGrand \in shops THEN RpGrand ELSE CHOOSE s \in shops : TRUE
AllShops == UNION Towns

(* A script's rows: one dish in one size and one in two, in two subcategories *)
(* that the breakfast script has the other way round, as the code's lists do. *)
MenuRow(name, sub, veg, sizes) == [name |-> name, sub |-> sub, veg |-> veg, sizes |-> sizes]
Transfer(label, price) == [label |-> label, transfer |-> price]
ScriptRows ==
  [script \in Scripts |->
     IF script = "Breakfast"
     THEN <<MenuRow("d1", "sub2", TRUE, <<Transfer("Regular", 4505)>>)>>
     ELSE <<MenuRow("d1", "sub1", FALSE, <<Transfer("Regular", 5000)>>),
            MenuRow("d2", "sub2", TRUE, <<Transfer("Half", 9000), Transfer("Full", 16055)>>)>>]
(* Names like those of the rows: in another case, and with a space too many.  *)
DishNames == {"d1", "d1 ", "d2", "D2", "d3"}
Lowered   == [name \in DishNames |-> IF name = "D2" THEN "d2" ELSE name]
Normal    == [name \in DishNames |-> IF name = "d1 " THEN "d1" ELSE Lowered[name]]

AdminSizes == {<<Size("Regular", 6000)>>, <<Size("Full", 12000), Size("Half", 7000)>>}
FirstMenus(shop) == {<<>>} \cup {<<AdminRow(shop, "D2", "sub1", sizes, TRUE)>> : sizes \in AdminSizes}

Alike == Permutations(Codes) \cup Permutations(Customers) \cup Permutations(CashOrders)

MoneyInit ==
  /\ part \in {"menus", "promo", "stores", "door", "cash", "payouts"}
  /\ town \in IF part = "menus" THEN Towns ELSE {CHOOSE shops \in Towns : TRUE}
  /\ \E menu \in IF part = "menus" THEN FirstMenus(FirstShop(town)) ELSE {<<>>} :
       CatalogueInit({FirstShop(town)}, {"sub1"}, menu)
  /\ PromoInit /\ MsInit /\ DoorInit /\ CashInit /\ PayoutInit
  /\ part # "door" => bill = BillOf(0, 0) /\ order.method = "cash"
  /\ part # "stores" => parent.method = "cash"

MoneyNext ==
  /\ UNCHANGED <<part, town>>
  /\ \/ /\ part = "menus" /\ MenuNext(town)
        /\ UNCHANGED <<promoVars, msVars, doorVars, cashVars, payoutVars>>
     \/ part = "promo" /\ PromoNext /\ UNCHANGED <<catalogueVars, msVars, doorVars, cashVars, payoutVars>>
     \/ part = "stores" /\ MsNext /\ UNCHANGED <<catalogueVars, promoVars, doorVars, cashVars, payoutVars>>
     \/ part = "door" /\ DoorNext /\ UNCHANGED <<catalogueVars, promoVars, msVars, cashVars, payoutVars>>
     \/ part = "cash" /\ CashNext /\ UNCHANGED <<catalogueVars, promoVars, msVars, doorVars, payoutVars>>
     \/ part = "payouts" /\ PayoutNext /\ UNCHANGED <<catalogueVars, promoVars, msVars, doorVars, cashVars>>

MoneySpec ==
  MoneyInit /\ [][MoneyNext]_<<part, town, catalogueVars, promoVars, msVars, doorVars, cashVars, payoutVars>>
=============================================================================
