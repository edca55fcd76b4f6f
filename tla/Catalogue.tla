------------------------------ MODULE Catalogue -----------------------------
(***************************************************************************)
(* The shops of a town, the catalogue's subcategories and the shops' menus, *)
(* changed by three parties (the admin, the shop's own portal and, in       *)
(* module MenuScripts, the scripts that load a menu), and what customers    *)
(* are shown of them: in searches, lists and shelves, and on the menu page. *)
(* A menu row keeps the sizes that are not retired, in their order: a       *)
(* retired size is read by nobody, and is taken up again by its label.      *)
(* Prices are display prices in paise; transfer prices and MRPs, which no   *)
(* property tells apart, are left out, and so are images and descriptions.  *)
(***************************************************************************)
EXTENDS Integers, Sequences, SequencesExt, FiniteSetsExt, Functions

CONSTANTS
  ShopNames,      \* the names shops can have
  Subs,           \* slugs of the food category's subcategories
  NoSub,          \* business_subcategory_id is NULL
  Labels,         \* what sizes are called
  NoLabel,        \* no variant_id in a cart line, or none in an offer
  Dishes,         \* names of menu items
  SizeLists,      \* the lists of sizes an admin enters
  VegMarks,       \* how the admin and shops mark items: vegetarian or not
  PortalPrices,   \* the prices a shop enters
  MaxItems,       \* bound on the rows of menu_items
  MaxEdits        \* bound on the changes of a behaviour

ASSUME CatalogueAssumption ==
  /\ NoLabel \notin Labels
  /\ SizeLists \subseteq Seq([label : Labels, price : Nat])
  /\ PortalPrices \subseteq Nat /\ VegMarks \subseteq BOOLEAN

NoShop == [category |-> "none", approved |-> FALSE, active |-> FALSE]
NewShop(category, approved) == [category |-> category, approved |-> approved, active |-> TRUE]
Refused == -1

VARIABLES
  db,             \* [shops, subs, menu]: restaurants, catalog_subcategories, menu_items
  shelf,          \* the menu items of an admin-curated shelf
  edits,          \* how many changes were made
  ran             \* the script whose commit was the last step, or NoScript

catalogueVars == <<db, shelf, edits, ran>>

NoScript == "no script"
Shops == {s \in ShopNames : db.shops[s] # NoShop}
Size(label, price) == [label |-> label, price |-> price]
LabelsOf(sizes) == {sizes[i].label : i \in DOMAIN sizes}

(* A town whose first shops are created and approved, whose catalogue has some *)
(* of the subcategories, and where the admin has entered a menu.              *)
CatalogueInit(first, known, menu) ==
  /\ db = [shops |-> [s \in ShopNames |-> IF s \in first THEN NewShop("uncategorised", TRUE) ELSE NoShop],
           subs |-> [s \in Subs |-> IF s \in known THEN "on" ELSE "none"],
           menu |-> menu]
  /\ shelf = {} /\ edits = 0 /\ ran = NoScript

(* Every change but a script's.                                               *)
Edited(new) ==
  /\ edits < MaxEdits
  /\ db' = new /\ edits' = edits + 1 /\ ran' = NoScript
  /\ UNCHANGED shelf

-----------------------------------------------------------------------------
(* The admin's catalogue and shops.                                           *)

(* ensure_default_catalog for the default ones, create_subcategory for others.*)
AddSub(s) ==
  /\ db.subs[s] = "none"
  /\ Edited([db EXCEPT !.subs[s] = "on"])

(* toggle_subcategory: for every shop of every town.                          *)
ToggleSub(s) ==
  /\ db.subs[s] # "none"
  /\ Edited([db EXCEPT !.subs[s] = IF @ = "on" THEN "off" ELSE "on"])

(* create_restaurant, in the food category unless another is named.           *)
CreateShop(s, category, approved) ==
  /\ db.shops[s] = NoShop
  /\ Edited([db EXCEPT !.shops[s] = NewShop(category, approved)])

ApproveShop(s) ==
  /\ s \in Shops
  /\ Edited([db EXCEPT !.shops[s].approved = TRUE])

(* update_restaurant, of what decides whether a shop is listed.               *)
UpdateShop(s, category, active) ==
  /\ s \in Shops
  /\ Edited([db EXCEPT !.shops[s].category = category, !.shops[s].active = active])

-----------------------------------------------------------------------------
(* Menus, by the admin.                                                       *)

(* What the admin names as subcategory is enabled, or (current) the item's.   *)
SubAccepted(shop, sub, current) ==
  sub # NoSub =>
    /\ db.subs[sub] = "on" \/ (sub = current /\ db.subs[sub] # "none")
    /\ db.shops[shop].category \in {"uncategorised", "restaurant"}

(* _resolve_variant_inputs and _priced_variant_inputs: no two sizes have the  *)
(* same label, and the parent's price is the first one's.                     *)
SizesAccepted(sizes) == sizes # <<>> /\ Cardinality(LabelsOf(sizes)) = Len(sizes)

AdminRow(shop, name, sub, sizes, veg) ==
  [shop |-> shop, name |-> name, sub |-> sub, price |-> sizes[1].price, veg |-> veg,
   available |-> TRUE, deleted |-> FALSE, sizes |-> sizes]

AdminAdd(shop, name, sub, sizes, veg) ==
  /\ shop \in Shops /\ SizesAccepted(sizes) /\ SubAccepted(shop, sub, NoSub)
  /\ Len(db.menu) < MaxItems
  /\ Edited([db EXCEPT !.menu = Append(@, AdminRow(shop, name, sub, sizes, veg))])

(* update_menu_item: sizes that are not entered again are retired.            *)
AdminUpdate(i, name, sub, sizes, veg) ==
  /\ ~db.menu[i].deleted
  /\ SizesAccepted(sizes) /\ SubAccepted(db.menu[i].shop, sub, db.menu[i].sub)
  /\ Edited([db EXCEPT !.menu[i] =
       [@ EXCEPT !.name = name, !.sub = sub, !.price = sizes[1].price, !.veg = veg,
                 !.sizes = sizes]])

AdminToggle(i) ==
  /\ ~db.menu[i].deleted
  /\ Edited([db EXCEPT !.menu[i].available = ~@])

AdminDelete(i) ==
  /\ ~db.menu[i].deleted
  /\ Edited([db EXCEPT !.menu[i].deleted = TRUE])

(* _apply, create_shelf and update_shelf: any live item of the food shops.    *)
SaveShelf(items) ==
  /\ edits < MaxEdits /\ items # shelf
  /\ \A i \in items : /\ ~db.menu[i].deleted
                      /\ db.shops[db.menu[i].shop].category \in {"uncategorised", "restaurant"}
  /\ shelf' = items /\ edits' = edits + 1 /\ ran' = NoScript
  /\ UNCHANGED db

-----------------------------------------------------------------------------
(* Menus, by the shop's portal, which knows neither subcategories nor sizes.  *)

PortalAdd(shop, name, price, available, veg) ==
  /\ shop \in Shops
  /\ Len(db.menu) < MaxItems
  /\ Edited([db EXCEPT !.menu = Append(@,
       [shop |-> shop, name |-> name, sub |-> NoSub, price |-> price, veg |-> veg,
        available |-> available, deleted |-> FALSE, sizes |-> <<>>])])

(* Any of the columns, as they are or anew.                                   *)
PortalUpdate(i, name, price, available, veg) ==
  /\ ~db.menu[i].deleted
  /\ Edited([db EXCEPT !.menu[i] =
       [@ EXCEPT !.name = name, !.price = price, !.available = available, !.veg = veg]])

(* delete_menu_item and toggle_availability also find deleted items.          *)
PortalDelete(i) == Edited([db EXCEPT !.menu[i].deleted = TRUE])
PortalToggle(i) == Edited([db EXCEPT !.menu[i].available = ~@])

-----------------------------------------------------------------------------
(* What customers are shown.                                                  *)

(* subcategory_enabled_filter.                                                *)
SubEnabled(item) == item.sub = NoSub \/ db.subs[item.sub] = "on"

(* sellable_product_filters, also of the two searches and the shop list.      *)
Sold(item) ==
  /\ db.shops[item.shop].active /\ db.shops[item.shop].approved
  /\ ~item.deleted /\ item.available
  /\ SubEnabled(item)

(* Mutant of OfferOf: the parent's price stands for its first size.           *)
OfferOfParent(item) ==
  IF item.sizes = <<>> THEN Size(NoLabel, item.price) ELSE Size(item.sizes[1].label, item.price)

(* _list_offer: the price in a list, and the size a tap on "Buy" puts into    *)
(* the cart.                                                                  *)
OfferOf(item) ==
  IF item.sizes = <<>> THEN Size(NoLabel, item.price)
  ELSE item.sizes[CHOOSE k \in DOMAIN item.sizes :
                    \A j \in DOMAIN item.sizes :
                      \/ item.sizes[k].price < item.sizes[j].price
                      \/ item.sizes[k].price = item.sizes[j].price /\ k <= j]

(* search_products, list_catalog_products; list_public_shelves of the shelf.  *)
OffersOf(ids) == {<<i, OfferOf(db.menu[i])>> : i \in {j \in ids : Sold(db.menu[j])}}

(* get_restaurant_menu: a lone size called Regular is not shown as a size.    *)
ShownSizes(item) ==
  IF Len(item.sizes) = 1 /\ item.sizes[1].label = "Regular" THEN <<>> ELSE item.sizes

ShownPrice(item) ==
  IF ShownSizes(item) = <<>> THEN item.price
  ELSE Min({size.price : size \in Range(ShownSizes(item))})

(* Mutant of OnMenuPage: items of disabled subcategories are not left out.    *)
OnAnyMenuPage(i) ==
  LET item == db.menu[i]
  IN  /\ db.shops[item.shop].active /\ db.shops[item.shop].approved
      /\ ~item.deleted /\ item.available

OnMenuPage(i) ==
  LET item == db.menu[i]
  IN  /\ db.shops[item.shop].active /\ db.shops[item.shop].approved
      /\ ~item.deleted /\ item.available /\ SubEnabled(item)

-----------------------------------------------------------------------------
(* What an order is charged.                                                  *)

(* _resolve_order_variant, and the parent's price where there is no size.     *)
SizeOf(item, label) ==
  IF label # NoLabel THEN {size \in Range(item.sizes) : size.label = label}
  ELSE IF item.sizes = <<>> THEN {Size(NoLabel, item.price)}
  ELSE IF Len(item.sizes) = 1 THEN Range(item.sizes) ELSE {}

(* build_line_rows of one line, in an order that place_order lets through.    *)
PriceOf(i, label) ==
  LET item == db.menu[i]
      size == SizeOf(item, label)
      open == /\ db.shops[item.shop].active /\ db.shops[item.shop].approved
              /\ ~item.deleted /\ item.available /\ SubEnabled(item)
  IN  IF open /\ size # {} THEN (CHOOSE s \in size : TRUE).price ELSE Refused

CatalogueNext(names) ==
  \/ \E s \in Subs : AddSub(s) \/ ToggleSub(s)
  \/ \E s \in names :
       \/ \E approved \in BOOLEAN, c \in {"uncategorised", "restaurant", "grocery"} :
            CreateShop(s, c, approved) \/ UpdateShop(s, c, approved)
       \/ ApproveShop(s)
       \/ \E name \in Dishes, veg \in VegMarks :
            \/ \E sub \in Subs \cup {NoSub}, sizes \in SizeLists : AdminAdd(s, name, sub, sizes, veg)
            \/ \E price \in PortalPrices, available \in BOOLEAN :
                 PortalAdd(s, name, price, available, veg)
  \/ \E i \in DOMAIN db.menu :
       \/ \E name \in Dishes \cup {db.menu[i].name}, veg \in VegMarks :
            \/ \E sub \in Subs \cup {NoSub}, sizes \in SizeLists : AdminUpdate(i, name, sub, sizes, veg)
            \/ \E price \in PortalPrices \cup {db.menu[i].price}, available \in BOOLEAN :
                 PortalUpdate(i, name, price, available, veg)
       \/ AdminToggle(i) \/ AdminDelete(i) \/ PortalDelete(i) \/ PortalToggle(i)
  \/ \E items \in SUBSET DOMAIN db.menu : SaveShelf(items)

-----------------------------------------------------------------------------
(* Whatever a list, a search or a shelf offers for one tap can be ordered as  *)
(* it is put into the cart, at the price it was offered for.                  *)
OfferIsCharged ==
  \A offer \in OffersOf(DOMAIN db.menu) \cup OffersOf(shelf) :
    PriceOf(offer[1], offer[2].label) = offer[2].price

(* Whatever the menu page shows can be ordered: each size it shows, at that   *)
(* size's price, and, where it shows none, the item without naming a size.    *)
MenuIsOrderable ==
  \A i \in {j \in DOMAIN db.menu : OnMenuPage(j)} :
    LET shown == ShownSizes(db.menu[i])
    IN  IF shown = <<>> THEN PriceOf(i, NoLabel) # Refused
        ELSE \A k \in DOMAIN shown : PriceOf(i, shown[k].label) = shown[k].price

(* A menu row's own price is its first size's, as the comment on the row's    *)
(* creation has it. The menu page shows the row's price of an item with one   *)
(* size called Regular; the order is charged the size's.                      *)
ParentMirrorsDefault ==
  \A i \in DOMAIN db.menu :
    db.menu[i].sizes # <<>> => db.menu[i].price = db.menu[i].sizes[1].price
=============================================================================
