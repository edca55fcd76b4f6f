----------------------------- MODULE MenuScripts ----------------------------
(***************************************************************************)
(* The scripts an operator runs to load a shop's menu, and the one that     *)
(* raises a menu's prices. Each is one transaction over rows it reads once: *)
(* it finds its shop by name, puts the shop into the restaurant category,   *)
(* enables the subcategories its rows name, and creates or overwrites one   *)
(* menu item a row. Where the code raises, nothing is committed: operators  *)
(* give the set of what a step can lead to, empty for a raise. The rows are *)
(* a constant: [name, sub, veg, sizes], a size being [label, transfer].     *)
(***************************************************************************)
EXTENDS Catalogue

CONSTANTS
  MenuOf,         \* each script's rows, a sequence
  Respelt,        \* another spelling of the name of seed_vinayak_menu.py's shop
  LowerOf,        \* a name in lower case
  NormalOf        \* a name as normalize_name has it: without case, and with no
                  \* space that does not separate words

NamesOf(rows) == {rows[k].name : k \in DOMAIN rows}
SubsOf(rows)  == {rows[k].sub : k \in DOMAIN rows}

(* Display prices: thirty percent or five rupees on the shop's own price.     *)
AddedThird == [transfer \in Nat |-> (transfer * 130 + 50) \div 100]
AddedFive  == [transfer \in Nat |-> transfer + 500]

Priced(row, price) ==
  [k \in DOMAIN row.sizes |-> Size(row.sizes[k].label, price[row.sizes[k].transfer])]

(* persist_size_variants does not keep it.                                    *)
LoneRegular(row) == Len(row.sizes) = 1 /\ row.sizes[1].label = "Regular"

(* Mutant of Prepared: disabled subcategories stay disabled.                  *)
PreparedMissing(d, shop, rows) ==
  IF d.shops[shop].category \notin {"uncategorised", "restaurant"} THEN {}
  ELSE {[d EXCEPT !.shops[shop].category = "restaurant",
                  !.subs = [s \in Subs |-> IF s \in SubsOf(rows) /\ d.subs[s] = "none"
                                            THEN "on" ELSE d.subs[s]]]}

(* What all scripts do first: the shop exists and is a restaurant, or becomes *)
(* one, and every subcategory of the rows is created or enabled.              *)
Prepared(d, shop, rows) ==
  IF d.shops[shop].category \notin {"uncategorised", "restaurant"} THEN {}
  ELSE {[d EXCEPT !.shops[shop].category = "restaurant",
                  !.subs = [s \in Subs |-> IF s \in SubsOf(rows) THEN "on" ELSE d.subs[s]]]}

(* The item that a script makes of a row: on sale, whatever it was before.    *)
ItemOf(shop, row, veg, sizes, price) ==
  [shop |-> shop, name |-> row.name, sub |-> row.sub, price |-> price[row.sizes[1].transfer],
   veg |-> veg, available |-> TRUE, deleted |-> FALSE, sizes |-> sizes]

(* The rows of an item's shop that have its name, in whatever case: deleted   *)
(* ones count, too.                                                           *)
Named(menu, item) ==
  {i \in DOMAIN menu : menu[i].shop = item.shop /\ LowerOf[menu[i].name] = LowerOf[item.name]}

(* What all scripts do with an item: it is added, or takes the place of one.  *)
Upserted(menu, item) ==
  LET named == Named(menu, item)
  IN  IF Cardinality(named) > 1 THEN {}
      ELSE IF named = {} THEN {Append(menu, item)}
      ELSE {[i \in DOMAIN menu |-> IF i \in named THEN item ELSE menu[i]]}

(* The loop of all scripts over their items.                                  *)
Loaded(menu, items) ==
  LET After[k \in 0..Len(items)] ==
        IF k = 0 THEN {menu} ELSE UNION {Upserted(m, items[k]) : m \in After[k - 1]}
  IN  After[Len(items)]

(* A script's rows, made into items of the shop.                              *)
Filled(prepared, shop, Item(_, _), rows) ==
  LET items == [k \in 1..Len(rows) |-> Item(shop, rows[k])]
  IN  UNION {{[d EXCEPT !.menu = menu] : menu \in Loaded(d.menu, items)} : d \in prepared}

-----------------------------------------------------------------------------
(* seed_apna_add_menu.py; its rows say what is vegetarian.                   *)
ApnaAddaShop(d) == Prepared(d, "Apna Adda", MenuOf["ApnaAdda"])
ApnaAddaItem(shop, row) ==
  ItemOf(shop, row, row.veg, Priced(row, AddedThird), AddedThird)
ApnaAdda(d) == Filled(ApnaAddaShop(d), "Apna Adda", ApnaAddaItem, MenuOf["ApnaAdda"])

(* seed_chai_shai_bar_menu.py.                                               *)
ChaiShaiBarShop(d) == Prepared(d, "Chai Shai Bar", MenuOf["ChaiShaiBar"])
ChaiShaiBarItem(shop, row) == ItemOf(shop, row, TRUE, Priced(row, AddedThird), AddedThird)
ChaiShaiBar(d) ==
  Filled(ChaiShaiBarShop(d), "Chai Shai Bar", ChaiShaiBarItem, MenuOf["ChaiShaiBar"])

(* seed_freshness_point_menu.py.                                             *)
FreshnessPointShop(d) == Prepared(d, "Freshness Point", MenuOf["FreshnessPoint"])
FreshnessPointItem(shop, row) == ItemOf(shop, row, TRUE, Priced(row, AddedThird), AddedThird)
FreshnessPoint(d) ==
  Filled(FreshnessPointShop(d), "Freshness Point", FreshnessPointItem, MenuOf["FreshnessPoint"])

(* seed_hot_cool_menu.py.                                                    *)
HotCoolShop(d) == Prepared(d, "Hot N Cool Cups", MenuOf["HotCool"])
HotCoolItem(shop, row) == ItemOf(shop, row, TRUE, Priced(row, AddedThird), AddedThird)
HotCool(d) == Filled(HotCoolShop(d), "Hot N Cool Cups", HotCoolItem, MenuOf["HotCool"])

(* seed_hotels_town_menu.py; its rows say what is vegetarian.                *)
HotelsTownShop(d) == Prepared(d, "Hotels Town Restaurant", MenuOf["HotelsTown"])
HotelsTownItem(shop, row) ==
  ItemOf(shop, row, row.veg, Priced(row, AddedThird), AddedThird)
HotelsTown(d) ==
  Filled(HotelsTownShop(d), "Hotels Town Restaurant", HotelsTownItem, MenuOf["HotelsTown"])

(* seed_lalganj_town_menu.py.                                                *)
LalganjTownShop(d) == Prepared(d, "Lalganj Cafe Town", MenuOf["LalganjTown"])
LalganjTownItem(shop, row) == ItemOf(shop, row, TRUE, Priced(row, AddedThird), AddedThird)
LalganjTown(d) ==
  Filled(LalganjTownShop(d), "Lalganj Cafe Town", LalganjTownItem, MenuOf["LalganjTown"])

(* seed_rajasthan_menu.py.                                                   *)
RajasthanShop(d) == Prepared(d, "Bikaner Rajasthan Sweets", MenuOf["Rajasthan"])
RajasthanItem(shop, row) == ItemOf(shop, row, TRUE, Priced(row, AddedThird), AddedThird)
Rajasthan(d) ==
  Filled(RajasthanShop(d), "Bikaner Rajasthan Sweets", RajasthanItem, MenuOf["Rajasthan"])

(* seed_sawariya_menu.py.                                                    *)
SawariyaShop(d) == Prepared(d, "Shyam Sawariya Sweets", MenuOf["Sawariya"])
SawariyaItem(shop, row) == ItemOf(shop, row, TRUE, Priced(row, AddedThird), AddedThird)
Sawariya(d) ==
  Filled(SawariyaShop(d), "Shyam Sawariya Sweets", SawariyaItem, MenuOf["Sawariya"])

(* seed_the_delhi_chaap.py.                                                  *)
DelhiChaapShop(d) == Prepared(d, "The Delhi Chaap", MenuOf["DelhiChaap"])
DelhiChaapItem(shop, row) == ItemOf(shop, row, TRUE, Priced(row, AddedThird), AddedThird)
DelhiChaap(d) ==
  Filled(DelhiChaapShop(d), "The Delhi Chaap", DelhiChaapItem, MenuOf["DelhiChaap"])

(* seed_vinayak_bhog_menu.py.                                                *)
VinayakBhogShop(d) == Prepared(d, "Vinayak Bhog Family Restaurants", MenuOf["VinayakBhog"])
VinayakBhogItem(shop, row) == ItemOf(shop, row, TRUE, Priced(row, AddedThird), AddedThird)
VinayakBhog(d) ==
  Filled(VinayakBhogShop(d), "Vinayak Bhog Family Restaurants", VinayakBhogItem, MenuOf["VinayakBhog"])

(* seed_vinayak_menu.py; its rows say what is vegetarian, and the shop may be *)
(* listed under another spelling of its name.                                 *)
VinayakName(d) ==
  IF d.shops["Vinayak Restaurant & Hotel"] # NoShop THEN "Vinayak Restaurant & Hotel" ELSE Respelt
VinayakShop(d) == Prepared(d, VinayakName(d), MenuOf["Vinayak"])
VinayakItem(shop, row) ==
  ItemOf(shop, row, row.veg, Priced(row, AddedThird), AddedThird)
Vinayak(d) == Filled(VinayakShop(d), VinayakName(d), VinayakItem, MenuOf["Vinayak"])

(* seed_rp_grand_menu_another_batch.py.                                      *)
AnotherBatchShop(d) == Prepared(d, "Hotel RP Grand & Restaurants", MenuOf["AnotherBatch"])
AnotherBatchItem(shop, row) == ItemOf(shop, row, TRUE, Priced(row, AddedThird), AddedThird)
AnotherBatch(d) ==
  Filled(AnotherBatchShop(d), "Hotel RP Grand & Restaurants", AnotherBatchItem, MenuOf["AnotherBatch"])

(* seed_rp_grand_breakfast_menu.py: one price a row, kept as the size Regular. *)
BreakfastShop(d) == Prepared(d, "Hotel RP Grand & Restaurants", MenuOf["Breakfast"])
BreakfastItem(shop, row) ==
  ItemOf(shop, row, TRUE, <<Priced(row, AddedThird)[1]>>, AddedThird)
Breakfast(d) ==
  Filled(BreakfastShop(d), "Hotel RP Grand & Restaurants", BreakfastItem, MenuOf["Breakfast"])

(* seed_v3_menu.py: other prices, no size picker for a lone size, and items   *)
(* that are not its own are retired first, where spaces make no difference:   *)
(* an item with more of them than a row is neither retired nor overwritten.   *)
V3Shop(d) == Prepared(d, "V3 South Indian Family Restaurants", MenuOf["V3"])
V3Listed(name) == NormalOf[name] \in {NormalOf[n] : n \in NamesOf(MenuOf["V3"])}
V3Retired(menu) ==
  [i \in DOMAIN menu |->
     IF menu[i].shop # "V3 South Indian Family Restaurants" \/ menu[i].deleted
        \/ V3Listed(menu[i].name) THEN menu[i]
     ELSE [menu[i] EXCEPT !.deleted = TRUE, !.available = FALSE, !.sizes = <<>>]]
V3Item(shop, row) == ItemOf(shop, row, TRUE,
           IF LoneRegular(row) THEN <<>> ELSE Priced(row, AddedFive), AddedFive)
V3(d) ==
  Filled({[ready EXCEPT !.menu = V3Retired(@)] : ready \in V3Shop(d)},
         "V3 South Indian Family Restaurants", V3Item, MenuOf["V3"])

-----------------------------------------------------------------------------
(* update_rp_grand_menu_prices.py: five percent on what is there, so that a   *)
(* second run adds them again.                                                *)
RpGrand == "Hotel RP Grand & Restaurants"
Raised(price) == (price * 105 + 50) \div 100

RaisedItem(item) ==
  IF item.sizes = <<>> THEN [item EXCEPT !.price = Raised(@)]
  ELSE LET sizes == [k \in DOMAIN item.sizes |-> [item.sizes[k] EXCEPT !.price = Raised(@)]]
       IN  [item EXCEPT !.price = sizes[1].price, !.sizes = sizes]

RpGrandPrices(d) ==
  LET its == {i \in DOMAIN d.menu : d.menu[i].shop = RpGrand /\ ~d.menu[i].deleted}
  IN  IF d.shops[RpGrand] = NoShop \/ its = {} THEN {}
      ELSE {[d EXCEPT !.menu = [i \in DOMAIN d.menu |->
                IF i \in its THEN RaisedItem(d.menu[i]) ELSE d.menu[i]]]}

-----------------------------------------------------------------------------

Scripts ==
  {"ApnaAdda", "ChaiShaiBar", "FreshnessPoint", "HotCool", "HotelsTown", "LalganjTown",
   "Rajasthan", "Sawariya", "DelhiChaap", "VinayakBhog", "Vinayak", "AnotherBatch",
   "Breakfast", "V3"}

(* The shops that scripts are for.                                            *)
ScriptShops ==
  {"Apna Adda", "Chai Shai Bar", "Freshness Point", "Hot N Cool Cups", "Hotels Town Restaurant",
   "Lalganj Cafe Town", "Bikaner Rajasthan Sweets", "Shyam Sawariya Sweets", "The Delhi Chaap",
   "Vinayak Bhog Family Restaurants", "Vinayak Restaurant & Hotel", Respelt, RpGrand,
   "V3 South Indian Family Restaurants"}

(* The lists in the scripts: no dish twice, in whatever case, and no size of  *)
(* a dish twice.                                                              *)
ASSUME MenuAssumption ==
  /\ ScriptShops \subseteq ShopNames
  /\ \A script \in Scripts :
       LET rows == MenuOf[script] IN
       /\ rows \in Seq(Range(rows))
       /\ \A j, k \in DOMAIN rows : LowerOf[rows[j].name] = LowerOf[rows[k].name] => j = k
       /\ \A k \in DOMAIN rows :
            /\ rows[k].sub \in Subs /\ rows[k].veg \in BOOLEAN
            /\ rows[k].sizes \in Seq([label : Labels, transfer : Nat]) /\ rows[k].sizes # <<>>
            /\ \A a, b \in DOMAIN rows[k].sizes :
                 rows[k].sizes[a].label = rows[k].sizes[b].label => a = b
            /\ script = "Breakfast" => Len(rows[k].sizes) = 1

(* What committing a script's run leads to.                                   *)
ResultOf(script, d) ==
  CASE script = "ApnaAdda" -> ApnaAdda(d)
    [] script = "ChaiShaiBar" -> ChaiShaiBar(d)
    [] script = "FreshnessPoint" -> FreshnessPoint(d)
    [] script = "HotCool" -> HotCool(d)
    [] script = "HotelsTown" -> HotelsTown(d)
    [] script = "LalganjTown" -> LalganjTown(d)
    [] script = "Rajasthan" -> Rajasthan(d)
    [] script = "Sawariya" -> Sawariya(d)
    [] script = "DelhiChaap" -> DelhiChaap(d)
    [] script = "VinayakBhog" -> VinayakBhog(d)
    [] script = "Vinayak" -> Vinayak(d)
    [] script = "AnotherBatch" -> AnotherBatch(d)
    [] script = "Breakfast" -> Breakfast(d)
    [] script = "V3" -> V3(d)

RunScript(script) ==
  /\ db' \in ResultOf(script, db)
  /\ ran' = script
  /\ UNCHANGED <<shelf, edits>>

(* A run that raises prices is a change like the portal's.                    *)
RaisePrices == \E d \in RpGrandPrices(db) : Edited(d)

(* The shop that a script loads.                                              *)
ShopOf(script, d) ==
  CASE script = "ApnaAdda" -> "Apna Adda"
    [] script = "ChaiShaiBar" -> "Chai Shai Bar"
    [] script = "FreshnessPoint" -> "Freshness Point"
    [] script = "HotCool" -> "Hot N Cool Cups"
    [] script = "HotelsTown" -> "Hotels Town Restaurant"
    [] script = "LalganjTown" -> "Lalganj Cafe Town"
    [] script = "Rajasthan" -> "Bikaner Rajasthan Sweets"
    [] script = "Sawariya" -> "Shyam Sawariya Sweets"
    [] script = "DelhiChaap" -> "The Delhi Chaap"
    [] script = "VinayakBhog" -> "Vinayak Bhog Family Restaurants"
    [] script = "Vinayak" -> VinayakName(d)
    [] script = "AnotherBatch" -> "Hotel RP Grand & Restaurants"
    [] script = "Breakfast" -> "Hotel RP Grand & Restaurants"
    [] script = "V3" -> "V3 South Indian Family Restaurants"

MenuNext(names) ==
  CatalogueNext(names) \/ RaisePrices \/ \E script \in Scripts : RunScript(script)

(* Any shops to begin with, none of which has a menu.                         *)
MenuInit ==
  \E first \in SUBSET ShopNames, known \in SUBSET Subs : CatalogueInit(first, known, <<>>)

MenuSpec == MenuInit /\ [][MenuNext(ShopNames)]_catalogueVars

-----------------------------------------------------------------------------
(* Is this item what the row of the script asks for, ready to be sold?        *)
Matches(item, row, script, subs) ==
  LET Price(transfer) == IF script = "V3" THEN transfer + 500 ELSE (transfer * 130 + 50) \div 100
      sizes == [k \in DOMAIN row.sizes |-> Size(row.sizes[k].label, Price(row.sizes[k].transfer))]
  IN  /\ item.name = row.name /\ item.sub = row.sub /\ subs[item.sub] = "on"
      /\ ~item.deleted /\ item.available
      /\ item.price = sizes[1].price
      /\ item.sizes = sizes \/ (Len(sizes) = 1 /\ sizes[1].label = "Regular" /\ item.sizes = <<>>)
      /\ item.veg = (row.veg \/ script \notin {"ApnaAdda", "HotelsTown", "Vinayak"})

(* Once a menu script has committed, each of its rows is exactly one item of  *)
(* its shop, on sale with the row's sizes and prices whatever was there       *)
(* before (deleted, in another case, with other sizes, in a disabled          *)
(* subcategory); no item of another shop has changed; running it again would  *)
(* change nothing; and V3's, which replaces a menu, leaves no other item on   *)
(* sale, unless it differs from one of the rows in spaces alone.              *)
SyncSettles ==
  [][ran' \in Scripts =>
       LET shop == ShopOf(ran', db)
           rows == MenuOf[ran']
           own  == {i \in DOMAIN db'.menu : db'.menu[i].shop = shop}
       IN  /\ \A k \in DOMAIN rows :
                \E i \in own : /\ Matches(db'.menu[i], rows[k], ran', db'.subs)
                              /\ \A j \in own \ {i} : LowerOf[db'.menu[j].name] # LowerOf[rows[k].name]
           /\ \A i \in DOMAIN db.menu : i \notin own => db'.menu[i] = db.menu[i]
           /\ \A s \in ShopNames \ {shop} : db'.shops[s] = db.shops[s]
           /\ ResultOf(ran', db') = {db'}
           /\ ran' = "V3" => \A i \in own : db'.menu[i].deleted \/ V3Listed(db'.menu[i].name)
    ]_catalogueVars
=============================================================================
