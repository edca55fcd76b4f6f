-------------------------- MODULE CatalogueProofs ---------------------------
(***************************************************************************)
(* What is offered is charged, what is shown can be ordered, and a menu    *)
(* that a script has loaded is settled: for any shops, subcategories,      *)
(* sizes and prices, any rows of the scripts, and any edits in between.    *)
(* Sizes of an item have labels of their own; the rest is about the loop   *)
(* over a script's items, which keeps what it loaded as no two have the    *)
(* same name.                                                              *)
(***************************************************************************)
EXTENDS MenuScripts, SequenceTheorems, FiniteSetTheorems, WellFoundedInduction, TLAPS

(* The least of a set of numbers.                                             *)
LEMMA LeastOf ==
  ASSUME NEW S, S \subseteq Nat, S # {}
  PROVE  \E m \in S : \A n \in S : m <= n
  <1> DEFINE Less == {ss \in Nat \X Nat : ss[1] < ss[2]}
  <1>1. IsWellFoundedOn(Less, Nat)
    BY NatLessThanWellFounded DEF OpToRel
  <1>2. PICK m \in S : \A n \in S : ~ (<<n, m>> \in Less)
    <2> HIDE DEF Less
    <2> QED BY <1>1, WFMin
  <1>3. \A n \in S : <<n, m>> \in Nat \X Nat /\ <<n, m>>[1] = n /\ <<n, m>>[2] = m
    OBVIOUS
  <1>4. \A n \in S : ~ (n < m)
    BY <1>2, <1>3
  <1>5. \A n \in S : n \in Nat
    OBVIOUS
  <1> QED
    BY <1>4, <1>5

(* What the rows of the tables hold.                                          *)
ItemNames == Dishes \cup UNION {NamesOf(MenuOf[script]) : script \in Scripts}
SizeRow   == [label : Labels, price : Nat]
GoodSizes == {z \in Seq(SizeRow) : \A j, k \in 1..Len(z) : z[j].label = z[k].label => j = k}
MenuItems ==
  [shop : ShopNames, name : ItemNames, sub : Subs \cup {NoSub}, price : Nat, veg : BOOLEAN,
   available : BOOLEAN, deleted : BOOLEAN, sizes : GoodSizes]
ShopRow ==
  [category : {"none", "uncategorised", "restaurant", "grocery"}, approved : BOOLEAN,
   active : BOOLEAN]
Tables ==
  [shops : [ShopNames -> ShopRow], subs : [Subs -> {"none", "on", "off"}], menu : Seq(MenuItems)]

(* The inductive invariant: no two sizes of an item have the same label, and  *)
(* a shelf holds rows of the menu.                                            *)
CatInv == db \in Tables /\ shelf \subseteq DOMAIN db.menu

(* What sizes, items and tables are known to hold.                            *)
LEMMA SizesAre ==
  ASSUME NEW z \in GoodSizes
  PROVE  /\ z \in Seq(SizeRow) /\ Len(z) \in Nat /\ DOMAIN z = 1..Len(z)
         /\ \A k \in 1..Len(z) : z[k] \in SizeRow /\ z[k].label \in Labels /\ z[k].price \in Nat
         /\ \A j, k \in 1..Len(z) : z[j].label = z[k].label => j = k
         /\ z # <<>> => 1 \in 1..Len(z)
  <1>1. z \in Seq(SizeRow) /\ Len(z) \in Nat /\ DOMAIN z = 1..Len(z)
    BY DEF GoodSizes
  <1>2. \A k \in 1..Len(z) : z[k] \in SizeRow
    BY <1>1
  <1>3. z # <<>> => 1 \in 1..Len(z)
    BY <1>1
  <1> QED
    BY <1>1, <1>2, <1>3 DEF GoodSizes, SizeRow

(* The columns of an item.                                                    *)
LEMMA ItemIs ==
  ASSUME NEW item \in MenuItems
  PROVE  /\ item.shop \in ShopNames /\ item.name \in ItemNames /\ item.sub \in Subs \cup {NoSub}
         /\ item.price \in Nat /\ item.veg \in BOOLEAN /\ item.available \in BOOLEAN
         /\ item.deleted \in BOOLEAN /\ item.sizes \in GoodSizes
  BY DEF MenuItems

(* The tables hold rows of the right columns.                                 *)
LEMMA TablesAre ==
  ASSUME NEW d \in Tables
  PROVE  /\ d.shops \in [ShopNames -> ShopRow] /\ d.subs \in [Subs -> {"none", "on", "off"}]
         /\ d.menu \in Seq(MenuItems) /\ Len(d.menu) \in Nat /\ DOMAIN d.menu = 1..Len(d.menu)
         /\ \A i \in DOMAIN d.menu : d.menu[i] \in MenuItems
  BY DEF Tables

(* Sizes have labels of their own when there are as many labels as sizes.     *)
LEMMA AsManyLabels ==
  ASSUME NEW z \in Seq(SizeRow), SizesAccepted(z)
  PROVE  z \in GoodSizes /\ z # <<>>
  <1>1. SUFFICES ASSUME NEW j \in 1..Len(z), NEW k \in 1..Len(z), z[j].label = z[k].label, j # k
                 PROVE  FALSE
    BY DEF GoodSizes, SizesAccepted
  <1> DEFINE n == Len(z)
             Rest == (1..n) \ {j}
             f == [i \in Rest |-> z[i].label]
  <1>2. n \in Nat /\ DOMAIN z = 1..n
    OBVIOUS
  <1>3. IsFiniteSet(1..n) /\ Cardinality(1..n) = n
    <2>1. 1 \in Int /\ n \in Int /\ n - 1 + 1 = n /\ (1 > n => n = 0)
      BY <1>2
    <2> HIDE DEF n
    <2> QED
      BY <2>1, FS_Interval
  <1>4. IsFiniteSet(Rest) /\ Cardinality(Rest) = n - 1
    BY <1>3, FS_RemoveElement
  <1>5. LabelsOf(z) = {f[i] : i \in Rest}
    <2>1. \A i \in 1..n : z[i].label \in {f[l] : l \in Rest}
      <3> TAKE i \in 1..n
      <3>1. CASE i = j
        BY <1>1, <3>1
      <3>2. CASE i # j
        BY <3>2
      <3> QED
        BY <3>1, <3>2
    <2> QED
      BY <1>2, <2>1 DEF LabelsOf
  <1>6. Cardinality({f[i] : i \in Rest}) <= n - 1
    <2>1. f \in Surjection(Rest, {f[i] : i \in Rest})
      BY DEF Surjection
    <2> HIDE DEF f, Rest
    <2> QED
      BY <1>4, <2>1, FS_Surjection
  <1>7. Cardinality(LabelsOf(z)) = n
    BY DEF SizesAccepted
  <1>8. n <= n - 1
    BY <1>5, <1>6, <1>7
  <1> QED
    BY <1>2, <1>8

-----------------------------------------------------------------------------
(* What is offered is what is charged *)

(* The first of the cheapest sizes is one of them.                            *)
LEMMA CheapestIsOne ==
  ASSUME NEW item \in MenuItems, item.sizes # <<>>
  PROVE  \E k \in 1..Len(item.sizes) : OfferOf(item) = item.sizes[k]
  <1> DEFINE z == item.sizes
             D == 1..Len(z)
             First(k) == \A j \in D : \/ z[k].price < z[j].price
                                      \/ z[k].price = z[j].price /\ k <= j
  <1>1. z \in GoodSizes
    BY ItemIs
  <1>2. /\ DOMAIN z = D /\ D \subseteq Nat /\ D # {}
        /\ \A k \in D : z[k].price \in Nat
    BY <1>1, SizesAre
  <1>3. PICK p \in {z[k].price : k \in D} : \A q \in {z[k].price : k \in D} : p <= q
    <2>1. {z[k].price : k \in D} \subseteq Nat /\ {z[k].price : k \in D} # {}
      BY <1>2
    <2> QED
      BY <2>1, LeastOf
  <1>4. PICK k \in {i \in D : z[i].price = p} : \A j \in {i \in D : z[i].price = p} : k <= j
    <2>1. {i \in D : z[i].price = p} \subseteq Nat /\ {i \in D : z[i].price = p} # {}
      BY <1>2, <1>3
    <2> QED
      BY <2>1, LeastOf
  <1>5. k \in D /\ First(k)
    <2>1. \A j \in D : p <= z[j].price /\ z[j].price \in Nat
      BY <1>2, <1>3
    <2> QED
      BY <1>2, <1>4, <2>1
  <1>6. OfferOf(item) = z[CHOOSE i \in D : First(i)]
    BY <1>2 DEF OfferOf
  <1>7. (CHOOSE i \in D : First(i)) \in D
    <2> HIDE DEF First, D
    <2> QED
      BY <1>5
  <1> QED
    BY <1>6, <1>7

(* A size is found by its label, and no other one is.                         *)
LEMMA SizeFound ==
  ASSUME NEW item \in MenuItems, NEW k \in 1..Len(item.sizes)
  PROVE  SizeOf(item, item.sizes[k].label) = {item.sizes[k]}
  <1>1. item.sizes \in GoodSizes
    BY ItemIs
  <1>2. item.sizes[k].label # NoLabel
    BY <1>1, SizesAre, CatalogueAssumption
  <1>3. DOMAIN item.sizes = 1..Len(item.sizes)
        /\ \A j \in 1..Len(item.sizes) : item.sizes[j].label = item.sizes[k].label => j = k
    BY <1>1, SizesAre
  <1>4. Range(item.sizes) = {item.sizes[j] : j \in 1..Len(item.sizes)}
    BY <1>3 DEF Range
  <1> QED
    BY <1>2, <1>3, <1>4 DEF SizeOf

(* An order is charged for the one size there is.                             *)
LEMMA ChargedSize ==
  ASSUME NEW i, NEW label, NEW size, SizeOf(db.menu[i], label) = {size},
         db.shops[db.menu[i].shop].active, db.shops[db.menu[i].shop].approved,
         ~ db.menu[i].deleted, db.menu[i].available, SubEnabled(db.menu[i])
  PROVE  PriceOf(i, label) = size.price
  <1>1. (CHOOSE s \in {size} : TRUE) = size
    OBVIOUS
  <1> QED
    BY <1>1 DEF PriceOf

(* The first of an item's cheapest sizes, which lists show, is the size that  *)
(* the cart names, and it is found again by its label.                        *)
LEMMA Offered ==
  ASSUME CatInv
  PROVE  OfferIsCharged
  <1>1. SUFFICES ASSUME NEW i \in DOMAIN db.menu, Sold(db.menu[i])
                 PROVE  PriceOf(i, OfferOf(db.menu[i]).label) = OfferOf(db.menu[i]).price
    <2>1. ASSUME NEW offer \in OffersOf(DOMAIN db.menu) \cup OffersOf(shelf)
          PROVE  \E i \in DOMAIN db.menu : Sold(db.menu[i]) /\ offer = <<i, OfferOf(db.menu[i])>>
      BY <2>1 DEF OffersOf, CatInv
    <2>2. ASSUME NEW offer \in OffersOf(DOMAIN db.menu) \cup OffersOf(shelf)
          PROVE  PriceOf(offer[1], offer[2].label) = offer[2].price
      <3>1. PICK i \in DOMAIN db.menu : Sold(db.menu[i]) /\ offer = <<i, OfferOf(db.menu[i])>>
        BY <2>1
      <3>2. offer[1] = i /\ offer[2] = OfferOf(db.menu[i])
        BY <3>1
      <3> QED
        BY <1>1, <3>1, <3>2
    <2> QED
      BY <2>2 DEF OfferIsCharged
  <1> DEFINE item == db.menu[i]
  <1>2. item \in MenuItems
    BY TablesAre DEF CatInv
  <1>3. CASE item.sizes = <<>>
    <2>1. OfferOf(item) = Size(NoLabel, item.price) /\ SizeOf(item, NoLabel) = {Size(NoLabel, item.price)}
      BY <1>3 DEF OfferOf, SizeOf
    <2>2. OfferOf(item).label = NoLabel
      BY <2>1 DEF Size
    <2> QED
      BY <1>1, <2>1, <2>2, ChargedSize DEF Sold
  <1>4. CASE item.sizes # <<>>
    <2>1. PICK k \in 1..Len(item.sizes) : OfferOf(item) = item.sizes[k]
      BY <1>2, <1>4, CheapestIsOne
    <2>2. SizeOf(item, OfferOf(item).label) = {OfferOf(item)}
      BY <1>2, <2>1, SizeFound
    <2> QED
      BY <1>1, <2>2, ChargedSize DEF Sold
  <1> QED
    BY <1>3, <1>4

(* Every size the menu page shows is found by its label; where it shows none, *)
(* the item has no sizes or one.                                              *)
LEMMA Orderable ==
  ASSUME CatInv
  PROVE  MenuIsOrderable
  <1>1. SUFFICES ASSUME NEW i \in DOMAIN db.menu, OnMenuPage(i)
                 PROVE  IF ShownSizes(db.menu[i]) = <<>> THEN PriceOf(i, NoLabel) # Refused
                        ELSE \A k \in DOMAIN ShownSizes(db.menu[i]) :
                               PriceOf(i, ShownSizes(db.menu[i])[k].label) = ShownSizes(db.menu[i])[k].price
    BY DEF MenuIsOrderable
  <1> DEFINE item == db.menu[i]
             z == item.sizes
  <1>2. item \in MenuItems /\ z \in GoodSizes
    BY TablesAre, ItemIs DEF CatInv
  <1>3. /\ db.shops[item.shop].active /\ db.shops[item.shop].approved
        /\ ~ item.deleted /\ item.available /\ SubEnabled(item)
    BY <1>1 DEF OnMenuPage
  <1>4. CASE ShownSizes(item) = <<>>
    <2>1. PICK size : SizeOf(item, NoLabel) = {size} /\ size.price \in Nat
      <3>1. CASE z = <<>>
        <4>1. SizeOf(item, NoLabel) = {Size(NoLabel, item.price)}
          BY <3>1 DEF SizeOf
        <4>2. Size(NoLabel, item.price).price \in Nat
          BY <1>2, ItemIs DEF Size
        <4> QED
          BY <4>1, <4>2
      <3>2. CASE z # <<>>
        <4>1. Len(z) = 1
          BY <1>4, <3>2 DEF ShownSizes
        <4>2. DOMAIN z = {1} /\ z[1].price \in Nat
          BY <1>2, <4>1, SizesAre
        <4>3. Range(z) = {z[1]}
          BY <4>2 DEF Range
        <4> QED
          BY <3>2, <4>1, <4>2, <4>3 DEF SizeOf
      <3> QED
        BY <3>1, <3>2
    <2>2. PriceOf(i, NoLabel) = size.price
      BY <1>3, <2>1, ChargedSize
    <2> QED
      BY <1>4, <2>1, <2>2 DEF Refused
  <1>5. CASE ShownSizes(item) # <<>>
    <2>1. ShownSizes(item) = z
      BY <1>5 DEF ShownSizes
    <2>2. ASSUME NEW k \in DOMAIN z PROVE PriceOf(i, z[k].label) = z[k].price
      <3>1. SizeOf(item, z[k].label) = {z[k]}
        BY <1>2, SizesAre, SizeFound
      <3> QED
        BY <1>3, <3>1, ChargedSize
    <2> QED
      BY <1>5, <2>1, <2>2
  <1> QED
    BY <1>4, <1>5
-----------------------------------------------------------------------------
(* The admin's and the shops' changes *)

(* A change of one of the tables.                                             *)
LEMMA ChangedTables ==
  ASSUME NEW d \in Tables
  PROVE  /\ \A x \in [ShopNames -> ShopRow] : LET e == [d EXCEPT !.shops = x] IN
              e \in Tables /\ e.shops = x /\ e.subs = d.subs /\ e.menu = d.menu
         /\ \A x \in [Subs -> {"none", "on", "off"}] : LET e == [d EXCEPT !.subs = x] IN
              e \in Tables /\ e.shops = d.shops /\ e.subs = x /\ e.menu = d.menu
         /\ \A x \in Seq(MenuItems) : LET e == [d EXCEPT !.menu = x] IN
              e \in Tables /\ e.shops = d.shops /\ e.subs = d.subs /\ e.menu = x
  BY DEF Tables

(* The menu with another row in a row's place, and with one row more.         *)
LEMMA ChangedMenu ==
  ASSUME NEW menu \in Seq(MenuItems), NEW item \in MenuItems
  PROVE  /\ \A i \in DOMAIN menu : LET m == [menu EXCEPT ![i] = item] IN
              m \in Seq(MenuItems) /\ DOMAIN m = DOMAIN menu
         /\ LET m == Append(menu, item) IN m \in Seq(MenuItems) /\ DOMAIN menu \subseteq DOMAIN m
  <1>1. ASSUME NEW i \in DOMAIN menu
        PROVE  /\ [menu EXCEPT ![i] = item] \in Seq(MenuItems)
               /\ DOMAIN [menu EXCEPT ![i] = item] = DOMAIN menu
    OBVIOUS
  <1>2. Append(menu, item) \in Seq(MenuItems) /\ DOMAIN menu \subseteq DOMAIN Append(menu, item)
    OBVIOUS
  <1> QED
    BY <1>1, <1>2

(* An edit of the shops, the subcategories or the menu keeps the invariant.   *)
LEMMA EditKept ==
  ASSUME CatInv, NEW new \in Tables, DOMAIN db.menu \subseteq DOMAIN new.menu, Edited(new)
  PROVE  CatInv'
  BY DEF CatInv, Edited

(* An edit of the menu that removes no row keeps the invariant.               *)
LEMMA MenuEditKept ==
  ASSUME CatInv, NEW menu \in Seq(MenuItems), DOMAIN db.menu \subseteq DOMAIN menu,
         Edited([db EXCEPT !.menu = menu])
  PROVE  CatInv'
  <1> DEFINE new == [db EXCEPT !.menu = menu]
  <1>1. new \in Tables /\ new.menu = menu
    BY ChangedTables DEF CatInv
  <1> HIDE DEF new
  <1>2. Edited(new)
    BY DEF new
  <1> QED
    BY <1>1, <1>2, EditKept

(* So does one that overwrites a row,                                         *)
LEMMA RowEditKept ==
  ASSUME CatInv, NEW i \in DOMAIN db.menu, NEW item \in MenuItems,
         Edited([db EXCEPT !.menu = [db.menu EXCEPT ![i] = item]])
  PROVE  CatInv'
  <1> DEFINE menu == [db.menu EXCEPT ![i] = item]
  <1>1. menu \in Seq(MenuItems) /\ DOMAIN menu = DOMAIN db.menu
    BY ChangedMenu, TablesAre DEF CatInv
  <1> HIDE DEF menu
  <1>2. Edited([db EXCEPT !.menu = menu])
    BY DEF menu
  <1> QED
    BY <1>1, <1>2, MenuEditKept

(* and one that appends a row.                                                *)
LEMMA NewRowKept ==
  ASSUME CatInv, NEW item \in MenuItems, Edited([db EXCEPT !.menu = Append(db.menu, item)])
  PROVE  CatInv'
  <1> DEFINE menu == Append(db.menu, item)
  <1>1. menu \in Seq(MenuItems) /\ DOMAIN db.menu \subseteq DOMAIN menu
    BY ChangedMenu, TablesAre DEF CatInv
  <1> HIDE DEF menu
  <1>2. Edited([db EXCEPT !.menu = menu])
    BY DEF menu
  <1> QED
    BY <1>1, <1>2, MenuEditKept

(* So do edits of the shops,                                                  *)
LEMMA ShopsKept ==
  ASSUME CatInv, NEW shops \in [ShopNames -> ShopRow], Edited([db EXCEPT !.shops = shops])
  PROVE  CatInv'
  <1> DEFINE new == [db EXCEPT !.shops = shops]
  <1>1. new \in Tables /\ new.menu = db.menu
    BY ChangedTables DEF CatInv
  <1> HIDE DEF new
  <1>2. Edited(new)
    BY DEF new
  <1> QED
    BY <1>1, <1>2, EditKept

(* and of the subcategories.                                                  *)
LEMMA SubsKept ==
  ASSUME CatInv, NEW subs \in [Subs -> {"none", "on", "off"}], Edited([db EXCEPT !.subs = subs])
  PROVE  CatInv'
  <1> DEFINE new == [db EXCEPT !.subs = subs]
  <1>1. new \in Tables /\ new.menu = db.menu
    BY ChangedTables DEF CatInv
  <1> HIDE DEF new
  <1>2. Edited(new)
    BY DEF new
  <1> QED
    BY <1>1, <1>2, EditKept

(* Subcategories and shops.                                                   *)
LEMMA SubActionsKept ==
  ASSUME CatInv, NEW s \in Subs, AddSub(s) \/ ToggleSub(s)
  PROVE  CatInv'
  <1>1. db.subs \in [Subs -> {"none", "on", "off"}]
    BY TablesAre DEF CatInv
  <1>2. CASE AddSub(s)
    <2>1. Edited([db EXCEPT !.subs = [db.subs EXCEPT ![s] = "on"]])
      BY <1>2 DEF AddSub
    <2>2. [db.subs EXCEPT ![s] = "on"] \in [Subs -> {"none", "on", "off"}]
      BY <1>1
    <2> QED
      BY <2>1, <2>2, SubsKept
  <1>3. CASE ToggleSub(s)
    <2> DEFINE new == IF db.subs[s] = "on" THEN "off" ELSE "on"
    <2>1. Edited([db EXCEPT !.subs = [db.subs EXCEPT ![s] = new]])
      BY <1>3 DEF ToggleSub
    <2>2. [db.subs EXCEPT ![s] = new] \in [Subs -> {"none", "on", "off"}]
      BY <1>1
    <2> QED
      BY <2>1, <2>2, SubsKept
  <1> QED
    BY <1>2, <1>3

(* The admin's changes of shops.                                              *)
LEMMA ShopActionsKept ==
  ASSUME CatInv, NEW s \in ShopNames, NEW flag \in BOOLEAN,
         NEW c \in {"uncategorised", "restaurant", "grocery"},
         CreateShop(s, c, flag) \/ UpdateShop(s, c, flag) \/ ApproveShop(s)
  PROVE  CatInv'
  <1>1. db.shops \in [ShopNames -> ShopRow] /\ db.shops[s] \in ShopRow
    BY TablesAre DEF CatInv
  <1>2. SUFFICES ASSUME NEW row \in ShopRow, Edited([db EXCEPT !.shops = [db.shops EXCEPT ![s] = row]])
                 PROVE  CatInv'
    <2>1. CASE CreateShop(s, c, flag)
      <3>1. NewShop(c, flag) \in ShopRow
        BY DEF NewShop, ShopRow
      <3>2. Edited([db EXCEPT !.shops = [db.shops EXCEPT ![s] = NewShop(c, flag)]])
        BY <2>1 DEF CreateShop
      <3> QED
        BY <1>2, <3>1, <3>2
    <2>2. CASE UpdateShop(s, c, flag)
      <3> DEFINE row == [db.shops[s] EXCEPT !.category = c, !.active = flag]
      <3>1. row \in ShopRow
        BY <1>1 DEF ShopRow
      <3>2. Edited([db EXCEPT !.shops = [db.shops EXCEPT ![s] = row]])
        <4>1. [[db.shops EXCEPT ![s].category = c] EXCEPT ![s].active = flag]
                = [db.shops EXCEPT ![s] = row]
          BY <1>1
        <4>2. [db EXCEPT !.shops[s].category = c, !.shops[s].active = flag]
                = [db EXCEPT !.shops = [[db.shops EXCEPT ![s].category = c] EXCEPT ![s].active = flag]]
          BY DEF CatInv, Tables
        <4> QED
          BY <2>2, <4>1, <4>2 DEF UpdateShop
      <3> QED
        BY <1>2, <3>1, <3>2
    <2>3. CASE ApproveShop(s)
      <3> DEFINE row == [db.shops[s] EXCEPT !.approved = TRUE]
      <3>1. row \in ShopRow
        BY <1>1 DEF ShopRow
      <3>2. Edited([db EXCEPT !.shops = [db.shops EXCEPT ![s] = row]])
        BY <2>3 DEF ApproveShop
      <3> QED
        BY <1>2, <3>1, <3>2
    <2> QED
      BY <2>1, <2>2, <2>3
  <1>3. [db.shops EXCEPT ![s] = row] \in [ShopNames -> ShopRow]
    BY <1>1
  <1> QED
    BY <1>2, <1>3, ShopsKept

(* Menu items.                                                                *)
LEMMA AdminItem ==
  ASSUME NEW shop \in ShopNames, NEW name \in ItemNames, NEW sub \in Subs \cup {NoSub},
         NEW sizes \in SizeLists, NEW veg \in VegMarks, SizesAccepted(sizes)
  PROVE  /\ sizes \in GoodSizes /\ sizes[1].price \in Nat /\ veg \in BOOLEAN
         /\ AdminRow(shop, name, sub, sizes, veg) \in MenuItems
  <1>1. sizes \in Seq(SizeRow)
    BY CatalogueAssumption DEF SizeRow
  <1>2. sizes \in GoodSizes /\ sizes # <<>>
    BY <1>1, AsManyLabels
  <1>3. sizes[1].price \in Nat
    BY <1>2, SizesAre
  <1>4. veg \in BOOLEAN
    BY CatalogueAssumption
  <1> QED
    BY <1>2, <1>3, <1>4 DEF AdminRow, MenuItems

(* The admin and the portal add rows whose sizes have labels of their own.    *)
LEMMA AddsKept ==
  ASSUME CatInv, NEW shop \in ShopNames, NEW name \in Dishes, NEW veg \in VegMarks,
         \/ \E sub \in Subs \cup {NoSub}, sizes \in SizeLists : AdminAdd(shop, name, sub, sizes, veg)
         \/ \E price \in PortalPrices, available \in BOOLEAN :
              PortalAdd(shop, name, price, available, veg)
  PROVE  CatInv'
  <1>1. name \in ItemNames
    BY DEF ItemNames
  <1>2. ASSUME NEW sub \in Subs \cup {NoSub}, NEW sizes \in SizeLists,
               AdminAdd(shop, name, sub, sizes, veg)
        PROVE  CatInv'
    <2>1. AdminRow(shop, name, sub, sizes, veg) \in MenuItems
      BY <1>1, <1>2, AdminItem DEF AdminAdd
    <2>2. Edited([db EXCEPT !.menu = Append(db.menu, AdminRow(shop, name, sub, sizes, veg))])
      BY <1>2 DEF AdminAdd
    <2> QED
      BY <2>1, <2>2, NewRowKept
  <1>3. ASSUME NEW price \in PortalPrices, NEW available \in BOOLEAN,
               PortalAdd(shop, name, price, available, veg)
        PROVE  CatInv'
    <2> DEFINE item == [shop |-> shop, name |-> name, sub |-> NoSub, price |-> price, veg |-> veg,
                        available |-> available, deleted |-> FALSE, sizes |-> <<>>]
    <2>1. <<>> \in GoodSizes
      BY DEF GoodSizes
    <2>2. price \in Nat /\ veg \in BOOLEAN
      BY CatalogueAssumption
    <2>3. item \in MenuItems
      BY <1>1, <2>1, <2>2 DEF MenuItems
    <2>4. Edited([db EXCEPT !.menu = Append(db.menu, item)])
      BY <1>3 DEF PortalAdd
    <2> HIDE DEF item
    <2> QED
      BY <2>3, <2>4, NewRowKept
  <1> QED
    BY <1>2, <1>3

(* The admin's and the portal's changes of an item.                           *)
LEMMA ItemActionsKept ==
  ASSUME CatInv, NEW i \in DOMAIN db.menu,
         \/ \E name \in Dishes \cup {db.menu[i].name}, veg \in VegMarks :
              \/ \E sub \in Subs \cup {NoSub}, sizes \in SizeLists :
                   AdminUpdate(i, name, sub, sizes, veg)
              \/ \E price \in PortalPrices \cup {db.menu[i].price}, available \in BOOLEAN :
                   PortalUpdate(i, name, price, available, veg)
         \/ AdminToggle(i) \/ AdminDelete(i) \/ PortalDelete(i) \/ PortalToggle(i)
  PROVE  CatInv'
  <1> DEFINE old == db.menu[i]
  <1>1. /\ old \in MenuItems /\ (~ old.available) \in BOOLEAN
        /\ old.shop \in ShopNames /\ old.price \in Nat
        /\ \A name \in Dishes \cup {old.name} : name \in ItemNames
    BY TablesAre, ItemIs DEF CatInv, ItemNames
  <1>2. ASSUME NEW name \in Dishes \cup {old.name}, NEW sub \in Subs \cup {NoSub},
               NEW sizes \in SizeLists, NEW veg \in VegMarks, AdminUpdate(i, name, sub, sizes, veg)
        PROVE  CatInv'
    <2> DEFINE item == [old EXCEPT !.name = name, !.sub = sub, !.price = sizes[1].price, !.veg = veg,
                                   !.sizes = sizes]
    <2>1. name \in ItemNames /\ SizesAccepted(sizes)
      BY <1>1, <1>2 DEF AdminUpdate
    <2>2. sizes \in GoodSizes /\ sizes[1].price \in Nat /\ veg \in BOOLEAN
      BY <1>1, <2>1, AdminItem
    <2>3. item \in MenuItems
      BY <1>1, <2>1, <2>2 DEF MenuItems
    <2>4. Edited([db EXCEPT !.menu = [db.menu EXCEPT ![i] = item]])
      BY <1>2 DEF AdminUpdate
    <2> HIDE DEF item
    <2> QED
      BY <2>3, <2>4, RowEditKept
  <1>3. ASSUME AdminToggle(i) \/ PortalToggle(i) PROVE CatInv'
    <2> DEFINE item == [old EXCEPT !.available = ~ old.available]
    <2>1. item \in MenuItems
      BY <1>1 DEF MenuItems
    <2>2. Edited([db EXCEPT !.menu = [db.menu EXCEPT ![i] = item]])
      BY <1>3 DEF AdminToggle, PortalToggle
    <2> HIDE DEF item
    <2> QED
      BY <2>1, <2>2, RowEditKept
  <1>4. ASSUME AdminDelete(i) \/ PortalDelete(i) PROVE CatInv'
    <2> DEFINE item == [old EXCEPT !.deleted = TRUE]
    <2>1. item \in MenuItems
      BY <1>1 DEF MenuItems
    <2>2. Edited([db EXCEPT !.menu = [db.menu EXCEPT ![i] = item]])
      BY <1>4 DEF AdminDelete, PortalDelete
    <2> HIDE DEF item
    <2> QED
      BY <2>1, <2>2, RowEditKept
  <1>5. ASSUME NEW name \in Dishes \cup {old.name}, NEW price \in PortalPrices \cup {old.price},
               NEW available \in BOOLEAN, NEW veg \in VegMarks,
               PortalUpdate(i, name, price, available, veg)
        PROVE  CatInv'
    <2> DEFINE item == [old EXCEPT !.name = name, !.price = price, !.available = available, !.veg = veg]
    <2>1. price \in Nat /\ veg \in BOOLEAN /\ name \in ItemNames
      BY <1>1, CatalogueAssumption
    <2>2. item \in MenuItems
      BY <1>1, <2>1 DEF MenuItems
    <2>3. Edited([db EXCEPT !.menu = [db.menu EXCEPT ![i] = item]])
      BY <1>5 DEF PortalUpdate
    <2> HIDE DEF item
    <2> QED
      BY <2>2, <2>3, RowEditKept
  <1> QED
    BY <1>2, <1>3, <1>4, <1>5

(* Every action of the admin, the portal and the shelf keeps the invariant.   *)
LEMMA CatalogueKept ==
  ASSUME CatInv, CatalogueNext(ShopNames)
  PROVE  CatInv'
  <1>1. ASSUME NEW items \in SUBSET DOMAIN db.menu, SaveShelf(items) PROVE CatInv'
    BY <1>1 DEF SaveShelf, CatInv
  <1>2. ASSUME NEW s \in ShopNames, ApproveShop(s) PROVE CatInv'
    BY <1>2, ShopActionsKept
  <1>3. ASSUME NEW s \in ShopNames, NEW flag \in BOOLEAN,
               NEW c \in {"uncategorised", "restaurant", "grocery"},
               CreateShop(s, c, flag) \/ UpdateShop(s, c, flag)
        PROVE  CatInv'
    BY <1>3, ShopActionsKept
  <1> QED
    BY <1>1, <1>2, <1>3, SubActionsKept, AddsKept, ItemActionsKept, Zenon DEF CatalogueNext
-----------------------------------------------------------------------------
(* Raising the prices *)

(* A raised price is a price,                                                 *)
LEMMA RaisedIsNat ==
  ASSUME NEW n \in Nat
  PROVE  Raised(n) \in Nat
  <1>1. n * 105 + 50 \in Nat
    OBVIOUS
  <1>2. \A x \in Nat : x \div 100 \in Nat
    OBVIOUS
  <1> QED
    BY <1>1, <1>2 DEF Raised

(* and an item with raised prices an item: its sizes keep their labels.       *)
LEMMA RaisedIsItem ==
  ASSUME NEW item \in MenuItems
  PROVE  RaisedItem(item) \in MenuItems
  <1>1. item.sizes \in GoodSizes /\ item.price \in Nat
    BY ItemIs
  <1>2. CASE item.sizes = <<>>
    <2>1. RaisedItem(item) = [item EXCEPT !.price = Raised(item.price)]
      BY <1>2 DEF RaisedItem
    <2>2. Raised(item.price) \in Nat
      BY <1>1, RaisedIsNat
    <2> QED
      BY <2>1, <2>2 DEF MenuItems
  <1>3. CASE item.sizes # <<>>
    <2> DEFINE z == item.sizes
               up(k) == [z[k] EXCEPT !.price = Raised(z[k].price)]
               sizes == [k \in DOMAIN z |-> up(k)]
    <2>1. DOMAIN z = 1..Len(z) /\ Len(z) \in Nat /\ 1 \in 1..Len(z)
      BY <1>1, <1>3, SizesAre
    <2>2. ASSUME NEW k \in 1..Len(z) PROVE up(k) \in SizeRow /\ up(k).label = z[k].label
      <3>1. z[k] \in SizeRow /\ Raised(z[k].price) \in Nat
        BY <1>1, SizesAre, RaisedIsNat
      <3> QED
        BY <3>1 DEF SizeRow
    <2>3. sizes \in Seq(SizeRow) /\ Len(sizes) = Len(z)
      <3> HIDE DEF up
      <3> QED
        BY <2>1, <2>2
    <2>4. \A k \in 1..Len(z) : sizes[k] = up(k)
      BY <2>1
    <2> HIDE DEF up, sizes
    <2>5. sizes \in GoodSizes
      <3>1. \A j, k \in 1..Len(z) : z[j].label = z[k].label => j = k
        BY <1>1, SizesAre
      <3>2. \A j, k \in 1..Len(z) : sizes[j].label = sizes[k].label => j = k
        BY <2>2, <2>4, <3>1
      <3> QED
        BY <2>3, <3>2 DEF GoodSizes
    <2>6. sizes[1].price \in Nat
      BY <2>1, <2>2, <2>4 DEF SizeRow
    <2>7. RaisedItem(item) = [item EXCEPT !.price = sizes[1].price, !.sizes = sizes]
      BY <1>3 DEF RaisedItem, sizes, up
    <2> QED
      BY <2>5, <2>6, <2>7 DEF MenuItems
  <1> QED
    BY <1>2, <1>3

(* The script that raises prices keeps the invariant.                         *)
LEMMA RaiseKept ==
  ASSUME CatInv, RaisePrices
  PROVE  CatInv'
  <1> DEFINE its == {i \in DOMAIN db.menu : db.menu[i].shop = RpGrand /\ ~ db.menu[i].deleted}
             menu == [i \in DOMAIN db.menu |-> IF i \in its THEN RaisedItem(db.menu[i]) ELSE db.menu[i]]
  <1>1. Edited([db EXCEPT !.menu = menu])
    BY DEF RaisePrices, RpGrandPrices
  <1>2. DOMAIN db.menu = 1..Len(db.menu) /\ Len(db.menu) \in Nat
        /\ \A i \in DOMAIN db.menu : db.menu[i] \in MenuItems
    BY TablesAre DEF CatInv
  <1> HIDE DEF its
  <1>3. \A i \in DOMAIN db.menu : menu[i] \in MenuItems
    BY <1>2, RaisedIsItem
  <1>4. menu = [i \in 1..Len(db.menu) |-> menu[i]] /\ DOMAIN menu = DOMAIN db.menu
    BY <1>2
  <1> HIDE DEF menu
  <1>5. menu \in Seq(MenuItems)
    BY <1>2, <1>3, <1>4
  <1> QED
    BY <1>1, <1>4, <1>5, MenuEditKept

-----------------------------------------------------------------------------
(* Loading a script's items *)

(* One item on the menu for an item of the script.                            *)
Once(menu, item) ==
  \E i \in DOMAIN menu : menu[i] = item /\ Named(menu, item) = {i}

(* What became of a menu when the first k items were loaded.                  *)
LoadedTo(menu, items, k, m) ==
  /\ m \in Seq(MenuItems) /\ DOMAIN menu \subseteq DOMAIN m
  /\ \A i \in DOMAIN menu :
       /\ m[i].shop = menu[i].shop
       /\ \/ m[i] = menu[i] \/ \E j \in 1..k : m[i] = items[j] /\ menu[i].shop = items[j].shop
  /\ \A i \in DOMAIN m \ DOMAIN menu : \E j \in 1..k : m[i] = items[j]
  /\ \A j \in 1..k : Once(m, items[j])

(* Items of which no two have the same name, in whatever case, in one shop.   *)
Distinct(items) ==
  \A j, k \in 1..Len(items) :
    items[j].shop = items[k].shop /\ LowerOf[items[j].name] = LowerOf[items[k].name] => j = k

(* A set of at most one element.                                              *)
LEMMA AtMostOne ==
  ASSUME NEW S, IsFiniteSet(S), ~ (Cardinality(S) > 1), S # {}
  PROVE  \E x : S = {x}
  <1>1. PICK x : x \in S
    OBVIOUS
  <1>2. IsFiniteSet(S \ {x}) /\ Cardinality(S \ {x}) = Cardinality(S) - 1 /\ Cardinality(S) \in Nat
    BY <1>1, FS_RemoveElement, FS_CardinalityType
  <1>3. Cardinality(S \ {x}) \in Nat
    BY <1>2, FS_CardinalityType
  <1>4. Cardinality(S \ {x}) = 0
    BY <1>2, <1>3
  <1>5. S \ {x} = {}
    BY <1>2, <1>4, FS_EmptySet
  <1> QED
    BY <1>1, <1>5

(* Loading an item adds it, or puts it into the place of the one of its name. *)
LEMMA UpsertedIs ==
  ASSUME NEW menu \in Seq(MenuItems), NEW item \in MenuItems, NEW m \in Upserted(menu, item)
  PROVE  \/ Named(menu, item) = {} /\ m = Append(menu, item)
         \/ \E i \in DOMAIN menu : Named(menu, item) = {i} /\ m = [menu EXCEPT ![i] = item]
  <1>1. CASE Named(menu, item) = {}
    <2>1. Cardinality(Named(menu, item)) = 0
      BY <1>1, FS_EmptySet
    <2> QED
      BY <1>1, <2>1 DEF Upserted
  <1>2. CASE Named(menu, item) # {}
    <2>1. ~ (Cardinality(Named(menu, item)) > 1)
          /\ m = [i \in DOMAIN menu |-> IF i \in Named(menu, item) THEN item ELSE menu[i]]
      BY <1>2 DEF Upserted
    <2>2. IsFiniteSet(Named(menu, item))
      <3>1. DOMAIN menu = 1..Len(menu) /\ Len(menu) \in Nat
        OBVIOUS
      <3>2. IsFiniteSet(DOMAIN menu)
        BY <3>1, FS_Interval
      <3> QED
        BY <3>2, FS_Subset DEF Named
    <2>3. PICK i : Named(menu, item) = {i}
      BY <1>2, <2>1, <2>2, AtMostOne
    <2>4. i \in DOMAIN menu
      BY <2>3 DEF Named
    <2>5. m = [menu EXCEPT ![i] = item]
      BY <2>1, <2>3
    <2> QED
      BY <2>3, <2>4, <2>5
  <1> QED
    BY <1>1, <1>2

(* Loading one more item keeps what was loaded before, as it has another      *)
(* name.                                                                      *)
LEMMA LoadStep ==
  ASSUME NEW menu \in Seq(MenuItems), NEW items \in Seq(MenuItems), Distinct(items),
         NEW k \in Nat, k + 1 <= Len(items),
         NEW old, LoadedTo(menu, items, k, old), NEW m \in Upserted(old, items[k + 1])
  PROVE  LoadedTo(menu, items, k + 1, m)
  <1> DEFINE item == items[k + 1]
  <1>1. /\ k + 1 \in 1..Len(items) /\ item \in MenuItems /\ old \in Seq(MenuItems)
        /\ DOMAIN menu \subseteq DOMAIN old /\ 1..(k + 1) = (1..k) \cup {k + 1}
        /\ DOMAIN old = 1..Len(old) /\ Len(old) \in Nat
        /\ k + 1 \in 1..(k + 1)
    BY DEF LoadedTo
  <1>2. ASSUME NEW j \in 1..k
        PROVE  items[j].shop # item.shop \/ LowerOf[items[j].name] # LowerOf[item.name]
    <2>1. j \in 1..Len(items) /\ j # k + 1
      BY <1>1
    <2> QED
      BY <1>1, <2>1 DEF Distinct
  <1> HIDE DEF item
  <1>3. CASE Named(old, item) = {} /\ m = Append(old, item)
    <2> DEFINE n == Len(old) + 1
    <2>1. /\ m \in Seq(MenuItems) /\ DOMAIN m = DOMAIN old \cup {n} /\ n \notin DOMAIN old /\ m[n] = item
          /\ \A i \in DOMAIN old : m[i] = old[i]
      BY <1>1, <1>3
    <2> HIDE DEF n
    <2>2. Once(m, item)
      <3>1. Named(m, item) = {n}
        BY <1>3, <2>1 DEF Named
      <3> QED
        BY <2>1, <3>1 DEF Once
    <2>3. ASSUME NEW j \in 1..k PROVE Once(m, items[j])
      <3>1. PICK i \in DOMAIN old : old[i] = items[j] /\ Named(old, items[j]) = {i}
        BY DEF LoadedTo, Once
      <3>2. Named(m, items[j]) = Named(old, items[j])
        BY <1>2, <2>1 DEF Named
      <3> QED
        BY <2>1, <3>1, <3>2 DEF Once
    <2>4. \A j \in 1..(k + 1) : Once(m, items[j])
      BY <1>1, <2>2, <2>3 DEF item
    <2>5. \A i \in DOMAIN menu :
            /\ m[i].shop = menu[i].shop
            /\ m[i] = menu[i] \/ \E j \in 1..(k + 1) : m[i] = items[j] /\ menu[i].shop = items[j].shop
      BY <1>1, <2>1 DEF LoadedTo
    <2>6. \A i \in DOMAIN m \ DOMAIN menu : \E j \in 1..(k + 1) : m[i] = items[j]
      BY <1>1, <2>1 DEF LoadedTo, item
    <2> QED
      BY <1>1, <2>1, <2>4, <2>5, <2>6 DEF LoadedTo
  <1>4. CASE \E i \in DOMAIN old : Named(old, item) = {i} /\ m = [old EXCEPT ![i] = item]
    <2>1. PICK n \in DOMAIN old : Named(old, item) = {n} /\ m = [old EXCEPT ![n] = item]
      BY <1>4
    <2>2. /\ m \in Seq(MenuItems) /\ DOMAIN m = DOMAIN old /\ m[n] = item
          /\ \A i \in DOMAIN old : i # n => m[i] = old[i]
          /\ old[n].shop = item.shop /\ LowerOf[old[n].name] = LowerOf[item.name]
      <3>1. n \in Named(old, item)
        BY <2>1
      <3> QED
        BY <1>1, <2>1, <3>1, ChangedMenu DEF Named
    <2>3. Once(m, item)
      <3>1. Named(m, item) = {n}
        BY <2>1, <2>2 DEF Named
      <3> QED
        BY <2>2, <3>1 DEF Once
    <2>4. ASSUME NEW j \in 1..k PROVE Once(m, items[j])
      <3>1. PICK i \in DOMAIN old : old[i] = items[j] /\ Named(old, items[j]) = {i}
        BY DEF LoadedTo, Once
      <3>2. i # n
        BY <1>2, <2>2, <3>1
      <3>3. Named(m, items[j]) = Named(old, items[j])
        <4>1. n \notin Named(m, items[j]) /\ n \notin Named(old, items[j])
          BY <1>2, <2>2 DEF Named
        <4>2. \A l \in DOMAIN old \ {n} : l \in Named(m, items[j]) <=> l \in Named(old, items[j])
          BY <2>2 DEF Named
        <4>3. Named(m, items[j]) \subseteq DOMAIN old /\ Named(old, items[j]) \subseteq DOMAIN old
          BY <2>2 DEF Named
        <4>4. Named(m, items[j]) \subseteq Named(old, items[j])
          BY <4>1, <4>2, <4>3
        <4>5. Named(old, items[j]) \subseteq Named(m, items[j])
          BY <4>1, <4>2, <4>3
        <4> QED
          BY <4>4, <4>5
      <3> QED
        BY <2>2, <3>1, <3>2, <3>3 DEF Once
    <2>5. \A j \in 1..(k + 1) : Once(m, items[j])
      BY <1>1, <2>3, <2>4 DEF item
    <2>6. ASSUME NEW i \in DOMAIN menu
          PROVE  /\ m[i].shop = menu[i].shop
                 /\ m[i] = menu[i] \/ \E j \in 1..(k + 1) : m[i] = items[j] /\ menu[i].shop = items[j].shop
      <3>1. i \in DOMAIN old /\ old[i].shop = menu[i].shop
        BY <1>1 DEF LoadedTo
      <3>2. CASE i = n
        BY <1>1, <2>2, <3>1, <3>2 DEF item
      <3>3. CASE i # n
        BY <1>1, <2>2, <3>1, <3>3 DEF LoadedTo
      <3> QED
        BY <3>2, <3>3
    <2>7. ASSUME NEW i \in DOMAIN m \ DOMAIN menu PROVE \E j \in 1..(k + 1) : m[i] = items[j]
      <3>1. CASE i = n
        BY <1>1, <2>2, <3>1 DEF item
      <3>2. CASE i # n
        BY <1>1, <2>2, <3>2 DEF LoadedTo
      <3> QED
        BY <3>1, <3>2
    <2> QED
      BY <1>1, <2>2, <2>5, <2>6, <2>7 DEF LoadedTo
  <1>5. m \in Upserted(old, item)
    BY DEF item
  <1> QED
    BY <1>1, <1>3, <1>4, <1>5, UpsertedIs
(* The loop after each item, as far as the k-th.                              *)
Loads(f, menu, items, k) ==
  f = [j \in 0..k |-> IF j = 0 THEN {menu} ELSE UNION {Upserted(m, items[j]) : m \in f[j - 1]}]

(* The loop over the items is defined for every number of them.               *)
LEMMA LoadsExist ==
  ASSUME NEW menu, NEW items
  PROVE  \A k \in Nat : \E f : Loads(f, menu, items, k)
  <1> DEFINE Bad == {k \in Nat : ~ \E f : Loads(f, menu, items, k)}
  <1>1. SUFFICES ASSUME Bad # {} PROVE FALSE
    OBVIOUS
  <1>2. PICK k \in Bad : \A j \in Bad : k <= j
    <2>1. Bad \subseteq Nat
      OBVIOUS
    <2> HIDE DEF Bad
    <2> QED
      BY <1>1, <2>1, LeastOf
  <1>3. k \in Nat /\ ~ \E f : Loads(f, menu, items, k)
    OBVIOUS
  <1>4. CASE k = 0
    <2> DEFINE f == [j \in 0..0 |-> {menu}]
    <2>1. \A j \in 0..0 : j = 0 /\ f[j] = {menu}
      OBVIOUS
    <2>2. Loads(f, menu, items, 0)
      BY <2>1 DEF Loads
    <2> QED
      BY <1>3, <1>4, <2>2
  <1>5. CASE k # 0
    <2>1. k - 1 \in Nat /\ k - 1 \notin Bad
      BY <1>2, <1>3, <1>5
    <2>2. PICK g : Loads(g, menu, items, k - 1)
      BY <2>1
    <2> DEFINE f == [j \in 0..k |-> IF j < k THEN g[j] ELSE UNION {Upserted(m, items[k]) : m \in g[k - 1]}]
    <2>3. ASSUME NEW j \in 0..k
          PROVE  f[j] = IF j = 0 THEN {menu} ELSE UNION {Upserted(m, items[j]) : m \in f[j - 1]}
      <3>1. CASE j = k
        <4>1. f[j] = UNION {Upserted(m, items[k]) : m \in g[k - 1]} /\ f[j - 1] = g[k - 1]
          BY <1>3, <1>5, <3>1
        <4> HIDE DEF f
        <4> QED
          BY <1>5, <3>1, <4>1
      <3>2. CASE j # k
        <4>1. j \in 0..(k - 1) /\ f[j] = g[j]
          BY <1>3, <3>2
        <4>2. g[j] = IF j = 0 THEN {menu} ELSE UNION {Upserted(m, items[j]) : m \in g[j - 1]}
          BY <2>2, <4>1, Zenon DEF Loads
        <4>3. j # 0 => f[j - 1] = g[j - 1]
          BY <1>3, <3>2
        <4> HIDE DEF f
        <4> QED
          BY <4>1, <4>2, <4>3
      <3> QED
        BY <3>1, <3>2
    <2>4. f = [j \in 0..k |-> f[j]]
      OBVIOUS
    <2> HIDE DEF f
    <2>5. Loads(f, menu, items, k)
      BY <2>3, <2>4 DEF Loads
    <2> QED
      BY <1>3, <2>5
  <1> QED
    BY <1>4, <1>5

(* The loop is one that goes through all items.                               *)
LEMMA LoadedIs ==
  ASSUME NEW menu, NEW items, Len(items) \in Nat
  PROVE  \E f : Loads(f, menu, items, Len(items)) /\ Loaded(menu, items) = f[Len(items)]
  <1> DEFINE f == CHOOSE g : Loads(g, menu, items, Len(items))
  <1>1. Loads(f, menu, items, Len(items))
    <2>1. \E g : Loads(g, menu, items, Len(items))
      BY LoadsExist
    <2> QED
      BY <2>1
  <1>2. Loaded(menu, items) = f[Len(items)]
    BY DEF Loaded, Loads
  <1> QED
    BY <1>1, <1>2

(* What is true of a menu when all items were loaded.                         *)
LEMMA LoadKeeps ==
  ASSUME NEW menu \in Seq(MenuItems), NEW items \in Seq(MenuItems), Distinct(items),
         NEW m \in Loaded(menu, items)
  PROVE  LoadedTo(menu, items, Len(items), m)
  <1> DEFINE n == Len(items)
  <1>1. n \in Nat
    OBVIOUS
  <1>2. PICK f : Loads(f, menu, items, n) /\ Loaded(menu, items) = f[n]
    BY <1>1, LoadedIs
  <1>3. \A k \in 0..n : f[k] = IF k = 0 THEN {menu} ELSE UNION {Upserted(x, items[k]) : x \in f[k - 1]}
    BY <1>2, Zenon DEF Loads
  <1> DEFINE Bad == {k \in 0..n : ~ \A x \in f[k] : LoadedTo(menu, items, k, x)}
  <1>4. SUFFICES Bad = {}
    BY <1>1, <1>2
  <1>5. SUFFICES ASSUME Bad # {} PROVE FALSE
    OBVIOUS
  <1>6. PICK k \in Bad : \A j \in Bad : k <= j
    <2>1. Bad \subseteq Nat
      BY <1>1
    <2> HIDE DEF Bad
    <2> QED
      BY <1>5, <2>1, LeastOf
  <1>7. k \in 0..n /\ k \in Nat
    BY <1>1
  <1>8. PICK x \in f[k] : ~ LoadedTo(menu, items, k, x)
    OBVIOUS
  <1>9. CASE k = 0
    <2>1. x = menu
      BY <1>3, <1>7, <1>8, <1>9
    <2>2. LoadedTo(menu, items, 0, menu)
      <3>1. 1..0 = {}
        OBVIOUS
      <3> QED
        BY <3>1 DEF LoadedTo
    <2> QED
      BY <1>8, <1>9, <2>1, <2>2
  <1>10. CASE k # 0
    <2>1. k - 1 \in 0..n /\ k - 1 \notin Bad /\ k - 1 \in Nat /\ (k - 1) + 1 = k
      BY <1>1, <1>6, <1>7, <1>10
    <2>2. f[k] = UNION {Upserted(y, items[k]) : y \in f[k - 1]}
      BY <1>3, <1>7, <1>10
    <2>3. PICK y \in f[k - 1] : x \in Upserted(y, items[k])
      BY <1>8, <2>2
    <2>4. LoadedTo(menu, items, k - 1, y)
      BY <2>1, <2>3
    <2> HIDE DEF Bad
    <2>5. LoadedTo(menu, items, (k - 1) + 1, x)
      BY <1>1, <1>7, <2>1, <2>3, <2>4, LoadStep
    <2> QED
      BY <1>8, <2>1, <2>5
  <1> QED
    BY <1>9, <1>10

(* Loading items again changes nothing.                                       *)
LEMMA LoadedTwice ==
  ASSUME NEW m \in Seq(MenuItems), NEW items \in Seq(MenuItems),
         \A j \in 1..Len(items) : Once(m, items[j])
  PROVE  Loaded(m, items) = {m}
  <1> DEFINE n == Len(items)
  <1>1. n \in Nat
    OBVIOUS
  <1>2. PICK f : Loads(f, m, items, n) /\ Loaded(m, items) = f[n]
    BY <1>1, LoadedIs
  <1>3. \A k \in 0..n : f[k] = IF k = 0 THEN {m} ELSE UNION {Upserted(x, items[k]) : x \in f[k - 1]}
    BY <1>2, Zenon DEF Loads
  <1>4. ASSUME NEW j \in 1..n PROVE Upserted(m, items[j]) = {m}
    <2>1. PICK i \in DOMAIN m : m[i] = items[j] /\ Named(m, items[j]) = {i}
      BY <1>4 DEF Once
    <2>2. Cardinality(Named(m, items[j])) = 1
      BY <2>1, FS_Singleton
    <2>3. [l \in DOMAIN m |-> IF l \in {i} THEN items[j] ELSE m[l]] = m
      <3>1. \A l \in DOMAIN m : (IF l \in {i} THEN items[j] ELSE m[l]) = m[l]
        BY <2>1
      <3>2. m = [l \in DOMAIN m |-> m[l]]
        OBVIOUS
      <3> QED
        BY <3>1, <3>2
    <2> QED
      BY <2>1, <2>2, <2>3 DEF Upserted
  <1> DEFINE Bad == {k \in 0..n : f[k] # {m}}
  <1>5. SUFFICES Bad = {}
    BY <1>1, <1>2
  <1>6. SUFFICES ASSUME Bad # {} PROVE FALSE
    OBVIOUS
  <1>7. PICK k \in Bad : \A j \in Bad : k <= j
    <2>1. Bad \subseteq Nat
      BY <1>1
    <2> HIDE DEF Bad
    <2> QED
      BY <1>6, <2>1, LeastOf
  <1>8. k \in 0..n /\ k \in Nat /\ f[k] # {m}
    BY <1>1
  <1>9. k # 0
    BY <1>3, <1>8
  <1>10. k - 1 \in 0..n /\ k - 1 \notin Bad /\ k \in 1..n
    BY <1>1, <1>7, <1>8, <1>9
  <1>11. f[k - 1] = {m}
    BY <1>10
  <1>12. f[k] = UNION {Upserted(x, items[k]) : x \in {m}}
    BY <1>3, <1>8, <1>9, <1>11
  <1> QED
    BY <1>4, <1>8, <1>10, <1>12

-----------------------------------------------------------------------------
(* What the scripts' runs lead to *)

(* The items of a script's rows.                                              *)
Added(script)    == IF script = "V3" THEN AddedFive ELSE AddedThird
VegOf(script, row) == IF script \in {"ApnaAdda", "HotelsTown", "Vinayak"} THEN row.veg ELSE TRUE
SizesOf(script, row) ==
  IF script = "V3" /\ LoneRegular(row) THEN <<>> ELSE Priced(row, Added(script))
ScriptItem(script, shop, row) ==
  ItemOf(shop, row, VegOf(script, row), SizesOf(script, row), Added(script))
ItemsOf(script, shop) ==
  [k \in 1..Len(MenuOf[script]) |-> ScriptItem(script, shop, MenuOf[script][k])]

(* The tables when a script begins to load its items.                         *)
Ready(script, d) ==
  IF script = "V3"
  THEN {[e EXCEPT !.menu = V3Retired(@)] : e \in Prepared(d, ShopOf(script, d), MenuOf[script])}
  ELSE Prepared(d, ShopOf(script, d), MenuOf[script])

LoadedFrom(ready, items) == UNION {{[e EXCEPT !.menu = m] : m \in Loaded(e.menu, items)} : e \in ready}

(* The rows of a script.                                                      *)
LEMMA RowIs ==
  ASSUME NEW script \in Scripts, NEW k \in 1..Len(MenuOf[script])
  PROVE  LET row == MenuOf[script][k] IN
         /\ row.sub \in Subs /\ row.veg \in BOOLEAN
         /\ row.sizes \in Seq([label : Labels, transfer : Nat]) /\ row.sizes # <<>>
         /\ \A a, b \in DOMAIN row.sizes : row.sizes[a].label = row.sizes[b].label => a = b
         /\ script = "Breakfast" => Len(row.sizes) = 1
         /\ row.name \in NamesOf(MenuOf[script]) /\ row.sub \in SubsOf(MenuOf[script])
  <1>1. MenuOf[script] \in Seq(Range(MenuOf[script]))
    BY MenuAssumption
  <1>2. k \in DOMAIN MenuOf[script]
    BY <1>1
  <1> QED
    BY <1>2, MenuAssumption DEF NamesOf, SubsOf

(* The rows are a sequence, and no two have the same name.                    *)
LEMMA RowsAre ==
  ASSUME NEW script \in Scripts
  PROVE  LET rows == MenuOf[script] IN
         /\ Len(rows) \in Nat /\ DOMAIN rows = 1..Len(rows)
         /\ \A j, k \in 1..Len(rows) : LowerOf[rows[j].name] = LowerOf[rows[k].name] => j = k
  <1>1. MenuOf[script] \in Seq(Range(MenuOf[script]))
    BY MenuAssumption
  <1>2. Len(MenuOf[script]) \in Nat /\ DOMAIN MenuOf[script] = 1..Len(MenuOf[script])
    BY <1>1
  <1> QED
    BY <1>2, MenuAssumption

(* A script's prices.                                                         *)
LEMMA AddedIsNat ==
  ASSUME NEW script \in Scripts, NEW n \in Nat
  PROVE  Added(script)[n] \in Nat
  <1>1. CASE script = "V3"
    BY <1>1 DEF Added, AddedFive
  <1>2. CASE script # "V3"
    <2>1. n * 130 + 50 \in Nat
      OBVIOUS
    <2>2. \A x \in Nat : x \div 100 \in Nat
      OBVIOUS
    <2> QED
      BY <1>2, <2>1, <2>2 DEF Added, AddedThird
  <1> QED
    BY <1>1, <1>2

(* The sizes made of a row's have its labels, and prices.                     *)
LEMMA PricedAre ==
  ASSUME NEW script \in Scripts, NEW k \in 1..Len(MenuOf[script])
  PROVE  LET row == MenuOf[script][k]
             z == Priced(row, Added(script)) IN
         /\ z \in GoodSizes /\ Len(z) = Len(row.sizes) /\ 1 \in 1..Len(row.sizes)
         /\ Len(row.sizes) \in Nat /\ DOMAIN row.sizes = 1..Len(row.sizes)
         /\ Added(script)[row.sizes[1].transfer] \in Nat
         /\ z[1].price = Added(script)[row.sizes[1].transfer]
  <1> DEFINE row == MenuOf[script][k]
             rz == row.sizes
             one(j) == Size(rz[j].label, Added(script)[rz[j].transfer])
             z == [j \in 1..Len(rz) |-> one(j)]
  <1>1. /\ rz \in Seq([label : Labels, transfer : Nat]) /\ rz # <<>>
        /\ \A a, b \in DOMAIN rz : rz[a].label = rz[b].label => a = b
    BY RowIs
  <1> HIDE DEF rz
  <1>2. Len(rz) \in Nat /\ DOMAIN rz = 1..Len(rz) /\ 1 \in 1..Len(rz)
    BY <1>1
  <1>3. ASSUME NEW j \in 1..Len(rz)
        PROVE  /\ rz[j].label \in Labels /\ Added(script)[rz[j].transfer] \in Nat
               /\ one(j) \in SizeRow /\ one(j).label = rz[j].label
               /\ one(j).price = Added(script)[rz[j].transfer]
    <2>1. rz[j].label \in Labels /\ rz[j].transfer \in Nat
      <3>1. rz[j] \in [label : Labels, transfer : Nat]
        BY <1>1, ElementOfSeq
      <3> QED
        BY <3>1
    <2>2. Added(script)[rz[j].transfer] \in Nat
      BY <2>1, AddedIsNat
    <2> QED
      BY <2>1, <2>2 DEF Size, SizeRow
  <1>4. Priced(row, Added(script)) = z
    BY <1>2 DEF Priced, rz
  <1>5. \A j \in 1..Len(rz) : z[j] = one(j)
    OBVIOUS
  <1> HIDE DEF one
  <1>6. z \in Seq(SizeRow) /\ Len(z) = Len(rz)
    BY <1>2, <1>3
  <1> HIDE DEF z
  <1>7. \A a, b \in 1..Len(rz) : z[a].label = z[b].label => a = b
    BY <1>1, <1>2, <1>3, <1>5
  <1>8. z \in GoodSizes
    BY <1>6, <1>7 DEF GoodSizes
  <1>9. z[1].price = Added(script)[rz[1].transfer] /\ Added(script)[rz[1].transfer] \in Nat
    BY <1>2, <1>3, <1>5
  <1> QED
    BY <1>2, <1>4, <1>6, <1>8, <1>9 DEF rz

(* The items of a script are of its shop, and no two have the same name.      *)
LEMMA ItemsAre ==
  ASSUME NEW script \in Scripts, NEW shop \in ShopNames
  PROVE  LET items == ItemsOf(script, shop) IN
         /\ items \in Seq(MenuItems) /\ Len(items) = Len(MenuOf[script]) /\ Distinct(items)
         /\ \A k \in 1..Len(items) :
              /\ items[k] = ScriptItem(script, shop, MenuOf[script][k])
              /\ items[k].shop = shop /\ items[k].name = MenuOf[script][k].name
  <1> DEFINE rows == MenuOf[script]
             items == ItemsOf(script, shop)
  <1>1. Len(rows) \in Nat /\ \A j, k \in 1..Len(rows) : LowerOf[rows[j].name] = LowerOf[rows[k].name] => j = k
    BY RowsAre
  <1>2. ASSUME NEW k \in 1..Len(rows)
        PROVE  /\ ScriptItem(script, shop, rows[k]) \in MenuItems
               /\ ScriptItem(script, shop, rows[k]).shop = shop
               /\ ScriptItem(script, shop, rows[k]).name = rows[k].name
    <2>1. VegOf(script, rows[k]) \in BOOLEAN
      <3>1. rows[k].veg \in BOOLEAN
        BY RowIs
      <3> QED
        BY <3>1 DEF VegOf
    <2>2. SizesOf(script, rows[k]) \in GoodSizes
      <3>1. <<>> \in GoodSizes
        BY DEF GoodSizes
      <3> QED
        BY <3>1, PricedAre DEF SizesOf
    <2>3. Added(script)[rows[k].sizes[1].transfer] \in Nat
      BY PricedAre
    <2>4. rows[k].name \in ItemNames /\ rows[k].sub \in Subs
      BY RowIs DEF ItemNames
    <2> QED
      BY <2>1, <2>2, <2>3, <2>4 DEF ScriptItem, ItemOf, MenuItems
  <1>3. \A k \in 1..Len(rows) : items[k] = ScriptItem(script, shop, rows[k])
    BY DEF ItemsOf
  <1>4. items = [k \in 1..Len(rows) |-> items[k]]
    BY DEF ItemsOf
  <1> HIDE DEF items
  <1>5. items \in Seq(MenuItems) /\ Len(items) = Len(rows)
    <2>1. Len(rows) \in Nat
      BY <1>1
    <2>2. \A k \in 1..Len(rows) : items[k] \in MenuItems
      BY <1>2, <1>3
    <2> HIDE DEF rows
    <2> QED
      BY <1>4, <2>1, <2>2
  <1>6. Distinct(items)
    <2>1. \A k \in 1..Len(rows) : items[k].name = rows[k].name
      BY <1>2, <1>3
    <2> HIDE DEF rows
    <2> QED
      BY <1>1, <1>5, <2>1 DEF Distinct
  <1> QED
    BY <1>2, <1>3, <1>5, <1>6 DEF items

(* The shop of a script has a name that shops can have.                       *)
LEMMA ShopIs ==
  ASSUME NEW script \in Scripts, NEW d
  PROVE  ShopOf(script, d) \in ShopNames
  <1>1. ShopOf(script, d) \in ScriptShops
    BY DEF ShopOf, ScriptShops, Scripts, VinayakName, RpGrand
  <1> QED
    BY <1>1, MenuAssumption

(* The items that a script makes, and what it prepares, are these.            *)
LEMMA ThirdItem ==
  ASSUME NEW script \in Scripts, script # "V3", NEW shop, NEW row
  PROVE  ScriptItem(script, shop, row)
           = ItemOf(shop, row, VegOf(script, row), Priced(row, AddedThird), AddedThird)
  BY DEF ScriptItem, SizesOf, Added

(* The whole price list of a row with one price.                              *)
LEMMA OnePrice ==
  ASSUME NEW k \in 1..Len(MenuOf["Breakfast"])
  PROVE  LET row == MenuOf["Breakfast"][k] IN
         <<Priced(row, AddedThird)[1]>> = Priced(row, AddedThird)
  <1> DEFINE row == MenuOf["Breakfast"][k]
             z == Priced(row, AddedThird)
  <1>1. "Breakfast" \in Scripts /\ Added("Breakfast") = AddedThird
    BY DEF Scripts, Added
  <1>2. Len(row.sizes) = 1
    BY <1>1, RowIs
  <1>3. z \in GoodSizes /\ Len(z) = Len(row.sizes)
    BY <1>1, PricedAre
  <1>4. z \in Seq(SizeRow) /\ Len(z) = 1
    BY <1>2, <1>3, SizesAre
  <1> HIDE DEF z
  <1>5. z = <<z[1]>>
    BY <1>4
  <1> QED
    BY <1>5 DEF z

(* What every script leads to: it prepares its shop and loads its items.      *)
LEMMA ResultIs ==
  ASSUME NEW script \in Scripts, NEW d
  PROVE  ResultOf(script, d) = LoadedFrom(Ready(script, d), ItemsOf(script, ShopOf(script, d)))
  <1>1. CASE script = "ApnaAdda"
    <2> DEFINE shop == "Apna Adda"
               rows == MenuOf["ApnaAdda"]
               items == [k \in 1..Len(rows) |-> ApnaAddaItem(shop, rows[k])]
    <2>1. ShopOf(script, d) = shop
      BY <1>1 DEF ShopOf
    <2>2. Ready(script, d) = ApnaAddaShop(d)
      BY <1>1, <2>1 DEF Ready, ApnaAddaShop
    <2>3. ResultOf(script, d) = LoadedFrom(Ready(script, d), items)
      <3>1. ResultOf(script, d) = ApnaAdda(d)
        BY <1>1 DEF ResultOf
      <3> QED
        BY <2>2, <3>1 DEF ApnaAdda, Filled, LoadedFrom
    <2>4. items = ItemsOf(script, shop)
      <3>1. ASSUME NEW k \in 1..Len(rows)
            PROVE  ApnaAddaItem(shop, rows[k]) = ScriptItem(script, shop, rows[k])
        BY <1>1, ThirdItem DEF ApnaAddaItem, VegOf
      <3> QED
        BY <1>1, <3>1 DEF ItemsOf
    <2> HIDE DEF items, shop
    <2> QED
      BY <2>1, <2>3, <2>4
  <1>2. CASE script = "ChaiShaiBar"
    <2> DEFINE shop == "Chai Shai Bar"
               rows == MenuOf["ChaiShaiBar"]
               items == [k \in 1..Len(rows) |-> ChaiShaiBarItem(shop, rows[k])]
    <2>1. ShopOf(script, d) = shop
      BY <1>2 DEF ShopOf
    <2>2. Ready(script, d) = ChaiShaiBarShop(d)
      BY <1>2, <2>1 DEF Ready, ChaiShaiBarShop
    <2>3. ResultOf(script, d) = LoadedFrom(Ready(script, d), items)
      <3>1. ResultOf(script, d) = ChaiShaiBar(d)
        BY <1>2 DEF ResultOf
      <3> QED
        BY <2>2, <3>1 DEF ChaiShaiBar, Filled, LoadedFrom
    <2>4. items = ItemsOf(script, shop)
      <3>1. ASSUME NEW k \in 1..Len(rows)
            PROVE  ChaiShaiBarItem(shop, rows[k]) = ScriptItem(script, shop, rows[k])
        BY <1>2, ThirdItem DEF ChaiShaiBarItem, VegOf
      <3> QED
        BY <1>2, <3>1 DEF ItemsOf
    <2> HIDE DEF items, shop
    <2> QED
      BY <2>1, <2>3, <2>4
  <1>3. CASE script = "FreshnessPoint"
    <2> DEFINE shop == "Freshness Point"
               rows == MenuOf["FreshnessPoint"]
               items == [k \in 1..Len(rows) |-> FreshnessPointItem(shop, rows[k])]
    <2>1. ShopOf(script, d) = shop
      BY <1>3 DEF ShopOf
    <2>2. Ready(script, d) = FreshnessPointShop(d)
      BY <1>3, <2>1 DEF Ready, FreshnessPointShop
    <2>3. ResultOf(script, d) = LoadedFrom(Ready(script, d), items)
      <3>1. ResultOf(script, d) = FreshnessPoint(d)
        BY <1>3 DEF ResultOf
      <3> QED
        BY <2>2, <3>1 DEF FreshnessPoint, Filled, LoadedFrom
    <2>4. items = ItemsOf(script, shop)
      <3>1. ASSUME NEW k \in 1..Len(rows)
            PROVE  FreshnessPointItem(shop, rows[k]) = ScriptItem(script, shop, rows[k])
        BY <1>3, ThirdItem DEF FreshnessPointItem, VegOf
      <3> QED
        BY <1>3, <3>1 DEF ItemsOf
    <2> HIDE DEF items, shop
    <2> QED
      BY <2>1, <2>3, <2>4
  <1>4. CASE script = "HotCool"
    <2> DEFINE shop == "Hot N Cool Cups"
               rows == MenuOf["HotCool"]
               items == [k \in 1..Len(rows) |-> HotCoolItem(shop, rows[k])]
    <2>1. ShopOf(script, d) = shop
      BY <1>4 DEF ShopOf
    <2>2. Ready(script, d) = HotCoolShop(d)
      BY <1>4, <2>1 DEF Ready, HotCoolShop
    <2>3. ResultOf(script, d) = LoadedFrom(Ready(script, d), items)
      <3>1. ResultOf(script, d) = HotCool(d)
        BY <1>4 DEF ResultOf
      <3> QED
        BY <2>2, <3>1 DEF HotCool, Filled, LoadedFrom
    <2>4. items = ItemsOf(script, shop)
      <3>1. ASSUME NEW k \in 1..Len(rows)
            PROVE  HotCoolItem(shop, rows[k]) = ScriptItem(script, shop, rows[k])
        BY <1>4, ThirdItem DEF HotCoolItem, VegOf
      <3> QED
        BY <1>4, <3>1 DEF ItemsOf
    <2> HIDE DEF items, shop
    <2> QED
      BY <2>1, <2>3, <2>4
  <1>5. CASE script = "HotelsTown"
    <2> DEFINE shop == "Hotels Town Restaurant"
               rows == MenuOf["HotelsTown"]
               items == [k \in 1..Len(rows) |-> HotelsTownItem(shop, rows[k])]
    <2>1. ShopOf(script, d) = shop
      BY <1>5 DEF ShopOf
    <2>2. Ready(script, d) = HotelsTownShop(d)
      BY <1>5, <2>1 DEF Ready, HotelsTownShop
    <2>3. ResultOf(script, d) = LoadedFrom(Ready(script, d), items)
      <3>1. ResultOf(script, d) = HotelsTown(d)
        BY <1>5 DEF ResultOf
      <3> QED
        BY <2>2, <3>1 DEF HotelsTown, Filled, LoadedFrom
    <2>4. items = ItemsOf(script, shop)
      <3>1. ASSUME NEW k \in 1..Len(rows)
            PROVE  HotelsTownItem(shop, rows[k]) = ScriptItem(script, shop, rows[k])
        BY <1>5, ThirdItem DEF HotelsTownItem, VegOf
      <3> QED
        BY <1>5, <3>1 DEF ItemsOf
    <2> HIDE DEF items, shop
    <2> QED
      BY <2>1, <2>3, <2>4
  <1>6. CASE script = "LalganjTown"
    <2> DEFINE shop == "Lalganj Cafe Town"
               rows == MenuOf["LalganjTown"]
               items == [k \in 1..Len(rows) |-> LalganjTownItem(shop, rows[k])]
    <2>1. ShopOf(script, d) = shop
      BY <1>6 DEF ShopOf
    <2>2. Ready(script, d) = LalganjTownShop(d)
      BY <1>6, <2>1 DEF Ready, LalganjTownShop
    <2>3. ResultOf(script, d) = LoadedFrom(Ready(script, d), items)
      <3>1. ResultOf(script, d) = LalganjTown(d)
        BY <1>6 DEF ResultOf
      <3> QED
        BY <2>2, <3>1 DEF LalganjTown, Filled, LoadedFrom
    <2>4. items = ItemsOf(script, shop)
      <3>1. ASSUME NEW k \in 1..Len(rows)
            PROVE  LalganjTownItem(shop, rows[k]) = ScriptItem(script, shop, rows[k])
        BY <1>6, ThirdItem DEF LalganjTownItem, VegOf
      <3> QED
        BY <1>6, <3>1 DEF ItemsOf
    <2> HIDE DEF items, shop
    <2> QED
      BY <2>1, <2>3, <2>4
  <1>7. CASE script = "Rajasthan"
    <2> DEFINE shop == "Bikaner Rajasthan Sweets"
               rows == MenuOf["Rajasthan"]
               items == [k \in 1..Len(rows) |-> RajasthanItem(shop, rows[k])]
    <2>1. ShopOf(script, d) = shop
      BY <1>7 DEF ShopOf
    <2>2. Ready(script, d) = RajasthanShop(d)
      BY <1>7, <2>1 DEF Ready, RajasthanShop
    <2>3. ResultOf(script, d) = LoadedFrom(Ready(script, d), items)
      <3>1. ResultOf(script, d) = Rajasthan(d)
        BY <1>7 DEF ResultOf
      <3> QED
        BY <2>2, <3>1 DEF Rajasthan, Filled, LoadedFrom
    <2>4. items = ItemsOf(script, shop)
      <3>1. ASSUME NEW k \in 1..Len(rows)
            PROVE  RajasthanItem(shop, rows[k]) = ScriptItem(script, shop, rows[k])
        BY <1>7, ThirdItem DEF RajasthanItem, VegOf
      <3> QED
        BY <1>7, <3>1 DEF ItemsOf
    <2> HIDE DEF items, shop
    <2> QED
      BY <2>1, <2>3, <2>4
  <1>8. CASE script = "Sawariya"
    <2> DEFINE shop == "Shyam Sawariya Sweets"
               rows == MenuOf["Sawariya"]
               items == [k \in 1..Len(rows) |-> SawariyaItem(shop, rows[k])]
    <2>1. ShopOf(script, d) = shop
      BY <1>8 DEF ShopOf
    <2>2. Ready(script, d) = SawariyaShop(d)
      BY <1>8, <2>1 DEF Ready, SawariyaShop
    <2>3. ResultOf(script, d) = LoadedFrom(Ready(script, d), items)
      <3>1. ResultOf(script, d) = Sawariya(d)
        BY <1>8 DEF ResultOf
      <3> QED
        BY <2>2, <3>1 DEF Sawariya, Filled, LoadedFrom
    <2>4. items = ItemsOf(script, shop)
      <3>1. ASSUME NEW k \in 1..Len(rows)
            PROVE  SawariyaItem(shop, rows[k]) = ScriptItem(script, shop, rows[k])
        BY <1>8, ThirdItem DEF SawariyaItem, VegOf
      <3> QED
        BY <1>8, <3>1 DEF ItemsOf
    <2> HIDE DEF items, shop
    <2> QED
      BY <2>1, <2>3, <2>4
  <1>9. CASE script = "DelhiChaap"
    <2> DEFINE shop == "The Delhi Chaap"
               rows == MenuOf["DelhiChaap"]
               items == [k \in 1..Len(rows) |-> DelhiChaapItem(shop, rows[k])]
    <2>1. ShopOf(script, d) = shop
      BY <1>9 DEF ShopOf
    <2>2. Ready(script, d) = DelhiChaapShop(d)
      BY <1>9, <2>1 DEF Ready, DelhiChaapShop
    <2>3. ResultOf(script, d) = LoadedFrom(Ready(script, d), items)
      <3>1. ResultOf(script, d) = DelhiChaap(d)
        BY <1>9 DEF ResultOf
      <3> QED
        BY <2>2, <3>1 DEF DelhiChaap, Filled, LoadedFrom
    <2>4. items = ItemsOf(script, shop)
      <3>1. ASSUME NEW k \in 1..Len(rows)
            PROVE  DelhiChaapItem(shop, rows[k]) = ScriptItem(script, shop, rows[k])
        BY <1>9, ThirdItem DEF DelhiChaapItem, VegOf
      <3> QED
        BY <1>9, <3>1 DEF ItemsOf
    <2> HIDE DEF items, shop
    <2> QED
      BY <2>1, <2>3, <2>4
  <1>10. CASE script = "VinayakBhog"
    <2> DEFINE shop == "Vinayak Bhog Family Restaurants"
               rows == MenuOf["VinayakBhog"]
               items == [k \in 1..Len(rows) |-> VinayakBhogItem(shop, rows[k])]
    <2>1. ShopOf(script, d) = shop
      BY <1>10 DEF ShopOf
    <2>2. Ready(script, d) = VinayakBhogShop(d)
      BY <1>10, <2>1 DEF Ready, VinayakBhogShop
    <2>3. ResultOf(script, d) = LoadedFrom(Ready(script, d), items)
      <3>1. ResultOf(script, d) = VinayakBhog(d)
        BY <1>10 DEF ResultOf
      <3> QED
        BY <2>2, <3>1 DEF VinayakBhog, Filled, LoadedFrom
    <2>4. items = ItemsOf(script, shop)
      <3>1. ASSUME NEW k \in 1..Len(rows)
            PROVE  VinayakBhogItem(shop, rows[k]) = ScriptItem(script, shop, rows[k])
        BY <1>10, ThirdItem DEF VinayakBhogItem, VegOf
      <3> QED
        BY <1>10, <3>1 DEF ItemsOf
    <2> HIDE DEF items, shop
    <2> QED
      BY <2>1, <2>3, <2>4
  <1>11. CASE script = "Vinayak"
    <2> DEFINE shop == VinayakName(d)
               rows == MenuOf["Vinayak"]
               items == [k \in 1..Len(rows) |-> VinayakItem(shop, rows[k])]
    <2>1. ShopOf(script, d) = shop
      BY <1>11 DEF ShopOf
    <2>2. Ready(script, d) = VinayakShop(d)
      BY <1>11, <2>1 DEF Ready, VinayakShop
    <2>3. ResultOf(script, d) = LoadedFrom(Ready(script, d), items)
      <3>1. ResultOf(script, d) = Vinayak(d)
        BY <1>11 DEF ResultOf
      <3> QED
        BY <2>2, <3>1 DEF Vinayak, Filled, LoadedFrom
    <2>4. items = ItemsOf(script, shop)
      <3>1. ASSUME NEW k \in 1..Len(rows)
            PROVE  VinayakItem(shop, rows[k]) = ScriptItem(script, shop, rows[k])
        BY <1>11, ThirdItem DEF VinayakItem, VegOf
      <3> QED
        BY <1>11, <3>1 DEF ItemsOf
    <2> HIDE DEF items, shop
    <2> QED
      BY <2>1, <2>3, <2>4
  <1>12. CASE script = "AnotherBatch"
    <2> DEFINE shop == "Hotel RP Grand & Restaurants"
               rows == MenuOf["AnotherBatch"]
               items == [k \in 1..Len(rows) |-> AnotherBatchItem(shop, rows[k])]
    <2>1. ShopOf(script, d) = shop
      BY <1>12 DEF ShopOf
    <2>2. Ready(script, d) = AnotherBatchShop(d)
      BY <1>12, <2>1 DEF Ready, AnotherBatchShop
    <2>3. ResultOf(script, d) = LoadedFrom(Ready(script, d), items)
      <3>1. ResultOf(script, d) = AnotherBatch(d)
        BY <1>12 DEF ResultOf
      <3> QED
        BY <2>2, <3>1 DEF AnotherBatch, Filled, LoadedFrom
    <2>4. items = ItemsOf(script, shop)
      <3>1. ASSUME NEW k \in 1..Len(rows)
            PROVE  AnotherBatchItem(shop, rows[k]) = ScriptItem(script, shop, rows[k])
        BY <1>12, ThirdItem DEF AnotherBatchItem, VegOf
      <3> QED
        BY <1>12, <3>1 DEF ItemsOf
    <2> HIDE DEF items, shop
    <2> QED
      BY <2>1, <2>3, <2>4
  <1>13. CASE script = "Breakfast"
    <2> DEFINE shop == "Hotel RP Grand & Restaurants"
               rows == MenuOf["Breakfast"]
               items == [k \in 1..Len(rows) |-> BreakfastItem(shop, rows[k])]
    <2>1. ShopOf(script, d) = shop
      BY <1>13 DEF ShopOf
    <2>2. Ready(script, d) = BreakfastShop(d)
      BY <1>13, <2>1 DEF Ready, BreakfastShop
    <2>3. ResultOf(script, d) = LoadedFrom(Ready(script, d), items)
      <3>1. ResultOf(script, d) = Breakfast(d)
        BY <1>13 DEF ResultOf
      <3> QED
        BY <2>2, <3>1 DEF Breakfast, Filled, LoadedFrom
    <2>4. items = ItemsOf(script, shop)
      <3>1. ASSUME NEW k \in 1..Len(rows)
            PROVE  BreakfastItem(shop, rows[k]) = ScriptItem(script, shop, rows[k])
        <4>1. <<Priced(rows[k], AddedThird)[1]>> = Priced(rows[k], AddedThird)
          BY OnePrice
        <4>2. BreakfastItem(shop, rows[k])
                = ItemOf(shop, rows[k], TRUE, Priced(rows[k], AddedThird), AddedThird)
          BY <4>1 DEF BreakfastItem
        <4>3. VegOf(script, rows[k]) = TRUE
          BY <1>13 DEF VegOf
        <4> QED
          BY <1>13, <4>2, <4>3, ThirdItem
      <3> QED
        BY <1>13, <3>1 DEF ItemsOf
    <2> HIDE DEF items, shop
    <2> QED
      BY <2>1, <2>3, <2>4
  <1>14. CASE script = "V3"
    <2> DEFINE shop == "V3 South Indian Family Restaurants"
               rows == MenuOf["V3"]
               items == [k \in 1..Len(rows) |-> V3Item(shop, rows[k])]
    <2>1. ShopOf(script, d) = shop
      BY <1>14 DEF ShopOf
    <2>2. Ready(script, d) = {[e EXCEPT !.menu = V3Retired(@)] : e \in V3Shop(d)}
      BY <1>14, <2>1 DEF Ready, V3Shop
    <2>3. ResultOf(script, d) = LoadedFrom(Ready(script, d), items)
      <3>1. ResultOf(script, d) = V3(d)
        BY <1>14 DEF ResultOf
      <3> QED
        BY <2>2, <3>1 DEF V3, Filled, LoadedFrom
    <2>4. items = ItemsOf(script, shop)
      <3>1. ASSUME NEW k \in 1..Len(rows)
            PROVE  V3Item(shop, rows[k]) = ScriptItem(script, shop, rows[k])
        BY <1>14 DEF V3Item, ScriptItem, VegOf, SizesOf, Added
      <3> QED
        BY <1>14, <3>1 DEF ItemsOf
    <2> HIDE DEF items, shop
    <2> QED
      BY <2>1, <2>3, <2>4
  <1> QED
    BY <1>1, <1>2, <1>3, <1>4, <1>5, <1>6, <1>7,
       <1>8, <1>9, <1>10, <1>11, <1>12, <1>13, <1>14 DEF Scripts

(* What a script prepares.                                                    *)
ShopOn(shops, shop) == [shops EXCEPT ![shop] = [shops[shop] EXCEPT !.category = "restaurant"]]
SubsOn(subs, rows)  == [s \in Subs |-> IF s \in SubsOf(rows) THEN "on" ELSE subs[s]]

(* Preparing a shop touches its category and the subcategories of the rows.   *)
LEMMA PreparedIs ==
  ASSUME NEW d \in Tables, NEW shop \in ShopNames, NEW rows, NEW e \in Prepared(d, shop, rows)
  PROVE  /\ e \in Tables /\ e.menu = d.menu
         /\ e.shops = ShopOn(d.shops, shop)
         /\ e.subs = SubsOn(d.subs, rows)
  <1> DEFINE row   == [d.shops[shop] EXCEPT !.category = "restaurant"]
             shops == [d.shops EXCEPT ![shop] = row]
             subs  == SubsOn(d.subs, rows)
  <1>1. /\ d.shops \in [ShopNames -> ShopRow] /\ d.shops[shop] \in ShopRow
        /\ d.subs \in [Subs -> {"none", "on", "off"}]
    BY TablesAre
  <1>2. row \in ShopRow
    BY <1>1 DEF ShopRow
  <1>3. shops \in [ShopNames -> ShopRow] /\ subs \in [Subs -> {"none", "on", "off"}]
    BY <1>1, <1>2 DEF SubsOn
  <1>4. e = [d EXCEPT !.shops = shops, !.subs = subs]
    BY DEF Prepared, SubsOn
  <1> HIDE DEF shops, subs
  <1>5. e \in Tables /\ e.shops = shops /\ e.subs = subs /\ e.menu = d.menu
    BY <1>3, <1>4 DEF Tables
  <1> QED
    BY <1>4, <1>5 DEF shops, subs, ShopOn

(* V3's script retires the items that are not its own.                        *)
LEMMA RetiredAre ==
  ASSUME NEW menu \in Seq(MenuItems)
  PROVE  /\ V3Retired(menu) \in Seq(MenuItems) /\ DOMAIN V3Retired(menu) = DOMAIN menu
         /\ \A i \in DOMAIN menu :
              /\ V3Retired(menu)[i].shop = menu[i].shop
              /\ menu[i].shop # "V3 South Indian Family Restaurants" => V3Retired(menu)[i] = menu[i]
              /\ menu[i].shop = "V3 South Indian Family Restaurants" =>
                   V3Retired(menu)[i].deleted \/ V3Listed(V3Retired(menu)[i].name)
  <1> DEFINE m == V3Retired(menu)
             out(i) == [menu[i] EXCEPT !.deleted = TRUE, !.available = FALSE, !.sizes = <<>>]
             keep(i) == \/ menu[i].shop # "V3 South Indian Family Restaurants" \/ menu[i].deleted
                        \/ V3Listed(menu[i].name)
  <1>1. DOMAIN menu = 1..Len(menu) /\ Len(menu) \in Nat
    OBVIOUS
  <1>2. \A i \in DOMAIN menu : menu[i] \in MenuItems
    OBVIOUS
  <1>3. ASSUME NEW i \in DOMAIN menu
        PROVE  /\ out(i) \in MenuItems /\ out(i).shop = menu[i].shop
               /\ out(i).deleted = TRUE
    <2>1. <<>> \in GoodSizes
      BY DEF GoodSizes
    <2>2. menu[i] \in MenuItems
      BY <1>2
    <2> QED
      BY <2>1, <2>2 DEF MenuItems
  <1>4. ASSUME NEW i \in DOMAIN menu
        PROVE  (keep(i) => m[i] = menu[i]) /\ (~ keep(i) => m[i] = out(i))
    BY DEF V3Retired
  <1>5. m = [i \in 1..Len(menu) |-> m[i]]
    BY <1>1 DEF V3Retired
  <1> HIDE DEF out, m
  <1>6. \A i \in 1..Len(menu) : m[i] \in MenuItems
    BY <1>1, <1>2, <1>3, <1>4
  <1>7. m \in Seq(MenuItems) /\ DOMAIN m = 1..Len(menu)
    BY <1>1, <1>5, <1>6
  <1> QED
    BY <1>1, <1>3, <1>4, <1>7 DEF m

(* The tables when the items begin to be loaded: no other shop's item         *)
(* differs.                                                                   *)
LEMMA ReadyIs ==
  ASSUME NEW script \in Scripts, NEW d \in Tables, NEW e \in Ready(script, d)
  PROVE  LET shop == ShopOf(script, d) IN
         /\ e \in Tables /\ DOMAIN e.menu = DOMAIN d.menu
         /\ e.shops = ShopOn(d.shops, shop)
         /\ e.subs = SubsOn(d.subs, MenuOf[script])
         /\ \A i \in DOMAIN d.menu :
              /\ e.menu[i].shop = d.menu[i].shop
              /\ d.menu[i].shop # shop => e.menu[i] = d.menu[i]
              /\ script = "V3" /\ d.menu[i].shop = shop =>
                   e.menu[i].deleted \/ V3Listed(e.menu[i].name)
  <1> DEFINE shop == ShopOf(script, d)
             rows == MenuOf[script]
  <1>1. shop \in ShopNames
    BY ShopIs
  <1>2. CASE script # "V3"
    <2>1. e \in Prepared(d, shop, rows)
      BY <1>2 DEF Ready
    <2> HIDE DEF shop, rows
    <2>2. /\ e \in Tables /\ e.menu = d.menu
          /\ e.shops = ShopOn(d.shops, shop)
          /\ e.subs = SubsOn(d.subs, rows)
      BY <1>1, <2>1, PreparedIs
    <2> QED
      BY <1>2, <2>2 DEF shop, rows
  <1>3. CASE script = "V3"
    <2>1. PICK p \in Prepared(d, shop, rows) : e = [p EXCEPT !.menu = V3Retired(p.menu)]
      BY <1>3 DEF Ready
    <2>6. shop = "V3 South Indian Family Restaurants"
      BY <1>3 DEF ShopOf
    <2> HIDE DEF shop, rows
    <2>2. /\ p \in Tables /\ p.menu = d.menu
          /\ p.shops = ShopOn(d.shops, shop)
          /\ p.subs = SubsOn(d.subs, rows)
      BY <1>1, <2>1, PreparedIs
    <2>3. p.menu \in Seq(MenuItems)
      BY <2>2, TablesAre
    <2>4. V3Retired(p.menu) \in Seq(MenuItems)
      BY <2>3, RetiredAre
    <2>5. e \in Tables /\ e.shops = p.shops /\ e.subs = p.subs /\ e.menu = V3Retired(d.menu)
      BY <2>1, <2>2, <2>4, ChangedTables
    <2>7. /\ DOMAIN e.menu = DOMAIN d.menu
          /\ \A i \in DOMAIN d.menu :
               /\ e.menu[i].shop = d.menu[i].shop
               /\ d.menu[i].shop # shop => e.menu[i] = d.menu[i]
               /\ d.menu[i].shop = shop => e.menu[i].deleted \/ V3Listed(e.menu[i].name)
      <3> DEFINE r == V3Retired(d.menu)
      <3>1. d.menu \in Seq(MenuItems)
        BY <2>2, <2>3
      <3>2. /\ DOMAIN r = DOMAIN d.menu
            /\ \A i \in DOMAIN d.menu :
                 /\ r[i].shop = d.menu[i].shop
                 /\ d.menu[i].shop # shop => r[i] = d.menu[i]
                 /\ d.menu[i].shop = shop => r[i].deleted \/ V3Listed(r[i].name)
        BY <2>6, <3>1, RetiredAre
      <3> QED
        BY <2>5, <3>2
    <2> QED
      BY <2>2, <2>5, <2>7 DEF shop, rows
  <1> QED
    BY <1>2, <1>3

(* A script's result: its shop is prepared and its items are loaded.          *)
LEMMA ResultAre ==
  ASSUME NEW script \in Scripts, NEW d \in Tables, NEW x \in ResultOf(script, d)
  PROVE  \E e \in Ready(script, d) :
           /\ x \in Tables /\ x.shops = e.shops /\ x.subs = e.subs
           /\ LoadedTo(e.menu, ItemsOf(script, ShopOf(script, d)),
                       Len(ItemsOf(script, ShopOf(script, d))), x.menu)
  <1> DEFINE items == ItemsOf(script, ShopOf(script, d))
  <1>1. items \in Seq(MenuItems) /\ Distinct(items)
    BY ShopIs, ItemsAre
  <1>2. x \in LoadedFrom(Ready(script, d), items)
    BY ResultIs
  <1> HIDE DEF items
  <1>3. PICK e \in Ready(script, d) : \E m \in Loaded(e.menu, items) : x = [e EXCEPT !.menu = m]
    BY <1>2 DEF LoadedFrom
  <1>4. PICK m \in Loaded(e.menu, items) : x = [e EXCEPT !.menu = m]
    BY <1>3
  <1>5. e \in Tables /\ e.menu \in Seq(MenuItems)
    BY ReadyIs, TablesAre
  <1>6. LoadedTo(e.menu, items, Len(items), m)
    BY <1>1, <1>4, <1>5, LoadKeeps
  <1>7. m \in Seq(MenuItems)
    BY <1>6 DEF LoadedTo
  <1>8. x \in Tables /\ x.shops = e.shops /\ x.subs = e.subs /\ x.menu = m
    BY <1>4, <1>5, <1>7, ChangedTables
  <1> QED
    BY <1>3, <1>6, <1>8 DEF items

(* Every script keeps the invariant.                                          *)
LEMMA ScriptKept ==
  ASSUME CatInv, NEW script \in Scripts, RunScript(script)
  PROVE  CatInv'
  <1>1. PICK e \in Ready(script, db) :
          /\ db' \in Tables
          /\ LoadedTo(e.menu, ItemsOf(script, ShopOf(script, db)),
                      Len(ItemsOf(script, ShopOf(script, db))), db'.menu)
    <2>1. db \in Tables /\ db' \in ResultOf(script, db)
      BY DEF CatInv, RunScript
    <2> QED
      BY <2>1, ResultAre
  <1>2. DOMAIN e.menu = DOMAIN db.menu
    <2>1. db \in Tables
      BY DEF CatInv
    <2> QED
      BY <2>1, ReadyIs
  <1>3. DOMAIN e.menu \subseteq DOMAIN db'.menu
    BY <1>1 DEF LoadedTo
  <1> QED
    BY <1>1, <1>2, <1>3 DEF CatInv, RunScript

(* The invariant holds at the start.                                          *)
LEMMA CatStart ==
  ASSUME MenuInit
  PROVE  CatInv
  <1>1. PICK first \in SUBSET ShopNames, known \in SUBSET Subs : CatalogueInit(first, known, <<>>)
    BY DEF MenuInit
  <1> DEFINE shops == [s \in ShopNames |-> IF s \in first THEN NewShop("uncategorised", TRUE) ELSE NoShop]
             subs == [s \in Subs |-> IF s \in known THEN "on" ELSE "none"]
  <1>2. shops \in [ShopNames -> ShopRow]
    BY DEF ShopRow, NewShop, NoShop
  <1>3. subs \in [Subs -> {"none", "on", "off"}]
    OBVIOUS
  <1>4. db = [shops |-> shops, subs |-> subs, menu |-> <<>>] /\ shelf = {}
    BY <1>1 DEF CatalogueInit
  <1> HIDE DEF shops, subs
  <1>5. <<>> \in Seq(MenuItems)
    OBVIOUS
  <1> QED
    BY <1>2, <1>3, <1>4, <1>5 DEF CatInv, Tables

(* The tables keep their invariant, whoever edits or loads a menu.            *)
THEOREM MenuInvariant == MenuSpec => []CatInv
  <1>1. MenuInit => CatInv
    BY CatStart
  <1>2. CatInv /\ [MenuNext(ShopNames)]_catalogueVars => CatInv'
    <2>1. CASE UNCHANGED catalogueVars
      BY <2>1 DEF CatInv, catalogueVars
    <2>2. CASE MenuNext(ShopNames)
      BY <2>2, CatalogueKept, RaiseKept, ScriptKept DEF MenuNext
    <2> QED
      BY <2>1, <2>2
  <1> QED
    BY <1>1, <1>2, PTL DEF MenuSpec

(* What a list, a search or a shelf offers for one tap (_list_offer) is what  *)
(* place_order charges for it (build_line_rows), whatever the admin, the      *)
(* shops and the scripts do to the menu, for any shops, sizes, prices and     *)
(* scripts' rows.                                                             *)
THEOREM OffersHold == MenuSpec => []OfferIsCharged
  BY MenuInvariant, Offered, PTL

(* Whatever get_restaurant_menu shows can be ordered, each size at its price: *)
(* _resolve_order_variant finds the size that the page named.                 *)
THEOREM MenusHold == MenuSpec => []MenuIsOrderable
  BY MenuInvariant, Orderable, PTL

-----------------------------------------------------------------------------
(* A script's run settles its menu *)

(* The item made of a row is what the row asks for.                           *)
LEMMA MadeToMatch ==
  ASSUME NEW script \in Scripts, NEW shop, NEW k \in 1..Len(MenuOf[script]), NEW subs,
         subs[MenuOf[script][k].sub] = "on"
  PROVE  Matches(ScriptItem(script, shop, MenuOf[script][k]), MenuOf[script][k], script, subs)
  <1> DEFINE row == MenuOf[script][k]
             item == ScriptItem(script, shop, row)
             Price(t) == IF script = "V3" THEN t + 500 ELSE (t * 130 + 50) \div 100
             z == [j \in DOMAIN row.sizes |-> Size(row.sizes[j].label, Price(row.sizes[j].transfer))]
  <1>1. /\ row.sizes \in Seq([label : Labels, transfer : Nat]) /\ row.veg \in BOOLEAN
    BY RowIs
  <1>2. DOMAIN row.sizes = 1..Len(row.sizes) /\ Len(row.sizes) \in Nat /\ 1 \in 1..Len(row.sizes)
    BY PricedAre
  <1>3. \A j \in DOMAIN row.sizes : row.sizes[j].transfer \in Nat
    <2>1. \A j \in 1..Len(row.sizes) : row.sizes[j] \in [label : Labels, transfer : Nat]
      BY <1>1, ElementOfSeq
    <2> QED
      BY <1>2, <2>1
  <1>4. \A t \in Nat : Added(script)[t] = Price(t)
    BY DEF Added, AddedFive, AddedThird
  <1>5. z = Priced(row, Added(script))
    BY <1>3, <1>4 DEF Priced
  <1>6. z[1].price = Added(script)[row.sizes[1].transfer] /\ Len(z) = Len(row.sizes)
        /\ z[1].label = row.sizes[1].label
    <2>1. z[1].label = row.sizes[1].label
      BY <1>2 DEF Size
    <2>2. LET y == Priced(row, Added(script)) IN
          Len(y) = Len(row.sizes) /\ y[1].price = Added(script)[row.sizes[1].transfer]
      BY PricedAre
    <2> HIDE DEF z
    <2> QED
      BY <1>5, <2>1, <2>2
  <1>7. item.price = z[1].price
    BY <1>6 DEF ScriptItem, ItemOf
  <1>8. item.sizes = z \/ (Len(z) = 1 /\ z[1].label = "Regular" /\ item.sizes = <<>>)
    <2>1. item.sizes = SizesOf(script, row)
      BY DEF ScriptItem, ItemOf
    <2> HIDE DEF z, item
    <2> QED
      BY <1>5, <1>6, <2>1 DEF SizesOf, LoneRegular
  <1>9. item.veg = (row.veg \/ script \notin {"ApnaAdda", "HotelsTown", "Vinayak"})
    <2>1. item.veg = VegOf(script, row)
      BY DEF ScriptItem, ItemOf
    <2>2. CASE script \in {"ApnaAdda", "HotelsTown", "Vinayak"}
      <3>1. item.veg = row.veg
        BY <2>1, <2>2 DEF VegOf
      <3> QED
        BY <1>1, <2>2, <3>1, Zenon
    <2>3. CASE script \notin {"ApnaAdda", "HotelsTown", "Vinayak"}
      <3>1. item.veg = TRUE
        BY <2>1, <2>3 DEF VegOf
      <3> QED
        BY <1>1, <2>3, <3>1, Zenon
    <2> QED
      BY <2>2, <2>3
  <1>10. item.name = row.name /\ item.sub = row.sub /\ subs[item.sub] = "on"
         /\ item.deleted = FALSE /\ item.available = TRUE
    BY DEF ScriptItem, ItemOf
  <1> HIDE DEF item
  <1>11. Matches(item, row, script, subs)
    BY <1>7, <1>8, <1>9, <1>10, Zenon DEF Matches
  <1> QED
    BY <1>11 DEF item

(* The shop keeps its name: it is the same one that the next run finds.       *)
LEMMA SameShop ==
  ASSUME NEW script \in Scripts, NEW d \in Tables, NEW x,
         x.shops = ShopOn(d.shops, ShopOf(script, d))
  PROVE  ShopOf(script, x) = ShopOf(script, d)
  <1>1. CASE script # "Vinayak"
    BY <1>1 DEF ShopOf, Scripts
  <1>2. CASE script = "Vinayak"
    <2> DEFINE name == "Vinayak Restaurant & Hotel"
    <2>1. ShopOf(script, x) = VinayakName(x) /\ ShopOf(script, d) = VinayakName(d)
      BY <1>2 DEF ShopOf
    <2>2. name \in ShopNames /\ d.shops \in [ShopNames -> ShopRow]
      BY MenuAssumption, TablesAre DEF ScriptShops
    <2>3. CASE d.shops[name] # NoShop
      <3>1. VinayakName(d) = name
        BY <2>3 DEF VinayakName
      <3>2. x.shops[name] = [d.shops[name] EXCEPT !.category = "restaurant"] /\ d.shops[name] \in ShopRow
        BY <2>1, <2>2, <3>1 DEF ShopOn
      <3>3. x.shops[name].category = "restaurant"
        BY <3>2 DEF ShopRow
      <3>4. NoShop.category = "none"
        BY DEF NoShop
      <3>5. x.shops[name] # NoShop
        BY <3>3, <3>4
      <3> QED
        BY <2>1, <3>1, <3>5 DEF VinayakName
    <2>4. CASE d.shops[name] = NoShop
      <3>1. VinayakName(d) = Respelt
        BY <2>4 DEF VinayakName
      <3>2. CASE Respelt = name
        BY <2>1, <3>1, <3>2 DEF VinayakName
      <3>3. CASE Respelt # name
        <4>1. x.shops[name] = NoShop
          BY <2>1, <2>2, <2>4, <3>1, <3>3 DEF ShopOn
        <4> QED
          BY <2>1, <3>1, <4>1 DEF VinayakName
      <3> QED
        BY <3>2, <3>3
    <2> QED
      BY <2>3, <2>4
  <1> QED
    BY <1>1, <1>2

(* What is prepared needs no preparation.                                     *)
LEMMA PreparedAgain ==
  ASSUME NEW x \in Tables, NEW shop \in ShopNames, NEW rows,
         x.shops[shop].category = "restaurant", \A s \in SubsOf(rows) \cap Subs : x.subs[s] = "on"
  PROVE  Prepared(x, shop, rows) = {x}
  <1>1. x.shops \in [ShopNames -> ShopRow] /\ x.subs \in [Subs -> {"none", "on", "off"}]
        /\ x.shops[shop] \in ShopRow
    BY TablesAre
  <1>2. SubsOn(x.subs, rows) = x.subs
    BY <1>1 DEF SubsOn
  <1>3. [x.shops EXCEPT ![shop].category = "restaurant"] = x.shops
    <2>1. [x.shops[shop] EXCEPT !.category = "restaurant"] = x.shops[shop]
      BY <1>1 DEF ShopRow
    <2> QED
      BY <1>1, <2>1
  <1>4. [x EXCEPT !.shops[shop].category = "restaurant",
                  !.subs = SubsOn(x.subs, rows)] = x
    <2>1. [[x EXCEPT !.shops = x.shops] EXCEPT !.subs = x.subs] = x
      BY DEF Tables
    <2> QED
      BY <1>2, <1>3, <2>1
  <1> QED
    BY <1>4 DEF Prepared, SubsOn

(* A menu is the function of its rows.                                        *)
LEMMA MenuIsFunction ==
  ASSUME NEW menu \in Seq(MenuItems)
  PROVE  menu = [i \in DOMAIN menu |-> menu[i]]
  OBVIOUS

(* When V3's script has run, there is nothing left to retire.                 *)
LEMMA RetiredAgain ==
  ASSUME NEW menu \in Seq(MenuItems),
         \A i \in DOMAIN menu :
           menu[i].shop = "V3 South Indian Family Restaurants" =>
             menu[i].deleted \/ V3Listed(menu[i].name)
  PROVE  V3Retired(menu) = menu
  <1>1. \A i \in DOMAIN menu : V3Retired(menu)[i] = menu[i]
    BY DEF V3Retired
  <1>2. V3Retired(menu) = [i \in DOMAIN menu |-> V3Retired(menu)[i]]
    BY DEF V3Retired
  <1>3. menu = [i \in DOMAIN menu |-> menu[i]]
    BY MenuIsFunction
  <1> QED
    BY <1>1, <1>2, <1>3

(* Running a script again changes nothing.                                    *)
LEMMA RunAgain ==
  ASSUME NEW script \in Scripts, NEW d \in Tables, NEW x \in Tables,
         x.shops = ShopOn(d.shops, ShopOf(script, d)), x.subs = SubsOn(d.subs, MenuOf[script]),
         \A j \in 1..Len(ItemsOf(script, ShopOf(script, d))) :
           Once(x.menu, ItemsOf(script, ShopOf(script, d))[j]),
         script = "V3" =>
           \A i \in DOMAIN x.menu :
             x.menu[i].shop = ShopOf(script, d) =>
               x.menu[i].deleted \/ V3Listed(x.menu[i].name)
  PROVE  ResultOf(script, x) = {x}
  <1> DEFINE shop == ShopOf(script, d)
             rows == MenuOf[script]
             items == ItemsOf(script, shop)
  <1>1. ShopOf(script, x) = shop /\ shop \in ShopNames
    BY SameShop, ShopIs
  <1>2. items \in Seq(MenuItems) /\ x.menu \in Seq(MenuItems)
    BY <1>1, ItemsAre, TablesAre
  <1>3. Prepared(x, shop, rows) = {x}
    <2>1. d.shops \in [ShopNames -> ShopRow] /\ d.subs \in [Subs -> {"none", "on", "off"}]
      BY TablesAre
    <2>2. x.shops[shop].category = "restaurant"
      <3>1. d.shops[shop] \in ShopRow
        BY <1>1, <2>1
      <3> HIDE DEF shop
      <3> QED
        BY <1>1, <2>1, <3>1 DEF ShopOn, ShopRow, shop
    <2>3. \A s \in SubsOf(rows) \cap Subs : x.subs[s] = "on"
      BY <2>1 DEF SubsOn
    <2> HIDE DEF shop, rows
    <2> QED
      BY <1>1, <2>2, <2>3, PreparedAgain
  <1>4. Ready(script, x) = {x}
    <2>1. CASE script # "V3"
      BY <1>1, <1>3, <2>1 DEF Ready
    <2>2. CASE script = "V3"
      <3>1. Ready(script, x) = {[e EXCEPT !.menu = V3Retired(e.menu)] : e \in {x}}
        BY <1>1, <1>3, <2>2 DEF Ready
      <3>2. shop = "V3 South Indian Family Restaurants"
        BY <2>2 DEF ShopOf
      <3>3. V3Retired(x.menu) = x.menu
        BY <1>2, <2>2, <3>2, RetiredAgain
      <3>4. [x EXCEPT !.menu = x.menu] = x
        BY DEF Tables
      <3> HIDE DEF shop
      <3> QED
        BY <3>1, <3>3, <3>4
    <2> QED
      BY <2>1, <2>2
  <1>5. Loaded(x.menu, items) = {x.menu}
    BY <1>2, LoadedTwice
  <1>6. ResultOf(script, x) = LoadedFrom({x}, items)
    BY <1>1, <1>4, ResultIs
  <1> HIDE DEF items, shop
  <1>7. LoadedFrom({x}, items) = {[x EXCEPT !.menu = m] : m \in {x.menu}}
    BY <1>5 DEF LoadedFrom
  <1>8. [x EXCEPT !.menu = x.menu] = x
    BY DEF Tables
  <1> QED
    BY <1>6, <1>7, <1>8

(* What a script's run x on the tables d must settle.                         *)
SettledIn(script, d, x) ==
  LET shop == ShopOf(script, d)
      rows == MenuOf[script]
      own  == {i \in DOMAIN x.menu : x.menu[i].shop = shop}
  IN  /\ \A k \in DOMAIN rows :
           \E i \in own : /\ Matches(x.menu[i], rows[k], script, x.subs)
                         /\ \A j \in own \ {i} : LowerOf[x.menu[j].name] # LowerOf[rows[k].name]
      /\ \A i \in DOMAIN d.menu : i \notin own => x.menu[i] = d.menu[i]
      /\ \A s \in ShopNames \ {shop} : x.shops[s] = d.shops[s]
      /\ ResultOf(script, x) = {x}
      /\ script = "V3" => \A i \in own : x.menu[i].deleted \/ V3Listed(x.menu[i].name)

(* What a script's run makes of any tables is settled.                        *)
LEMMA RunSettles ==
  ASSUME NEW script \in Scripts, NEW d \in Tables, NEW x \in ResultOf(script, d)
  PROVE  SettledIn(script, d, x)
  <1> DEFINE shop == ShopOf(script, d)
             rows == MenuOf[script]
             items == ItemsOf(script, shop)
             own  == {i \in DOMAIN x.menu : x.menu[i].shop = shop}
  <1>1. PICK e \in Ready(script, d) :
          /\ x \in Tables /\ x.shops = e.shops /\ x.subs = e.subs
          /\ LoadedTo(e.menu, items, Len(items), x.menu)
    BY ResultAre
  <1>2. shop \in ShopNames
    BY ShopIs
  <1>3. /\ DOMAIN e.menu = DOMAIN d.menu
        /\ e.shops = ShopOn(d.shops, shop) /\ e.subs = SubsOn(d.subs, rows)
        /\ \A i \in DOMAIN d.menu :
             /\ e.menu[i].shop = d.menu[i].shop
             /\ d.menu[i].shop # shop => e.menu[i] = d.menu[i]
             /\ script = "V3" /\ d.menu[i].shop = shop =>
                  e.menu[i].deleted \/ V3Listed(e.menu[i].name)
    BY ReadyIs
  <1>4. /\ items \in Seq(MenuItems) /\ Len(items) = Len(rows)
        /\ \A k \in 1..Len(items) :
             /\ items[k] = ScriptItem(script, shop, rows[k])
             /\ items[k].shop = shop /\ items[k].name = rows[k].name
    BY <1>2, ItemsAre
  <1>5. /\ Len(rows) \in Nat /\ DOMAIN rows = 1..Len(rows)
    BY RowsAre
  <1>6. d.subs \in [Subs -> {"none", "on", "off"}] /\ d.shops \in [ShopNames -> ShopRow]
    BY TablesAre
  <1>7. /\ \A i \in DOMAIN d.menu :
             /\ i \in DOMAIN x.menu /\ x.menu[i].shop = d.menu[i].shop
             /\ x.menu[i] = e.menu[i] \/ \E j \in 1..Len(rows) : x.menu[i] = items[j]
        /\ \A i \in DOMAIN x.menu \ DOMAIN d.menu : \E j \in 1..Len(rows) : x.menu[i] = items[j]
        /\ \A j \in 1..Len(rows) : Once(x.menu, items[j])
    <2> HIDE DEF items, shop, rows
    <2> QED
      BY <1>1, <1>3, <1>4 DEF LoadedTo
  <1>8. ASSUME NEW k \in DOMAIN rows
        PROVE  \E i \in own : /\ Matches(x.menu[i], rows[k], script, x.subs)
                             /\ \A j \in own \ {i} : LowerOf[x.menu[j].name] # LowerOf[rows[k].name]
    <2>1. k \in 1..Len(rows)
      BY <1>5
    <2>2. PICK i \in DOMAIN x.menu : x.menu[i] = items[k] /\ Named(x.menu, items[k]) = {i}
      BY <1>7, <2>1 DEF Once
    <2>3. x.subs[rows[k].sub] = "on"
      <3>1. rows[k].sub \in Subs /\ rows[k].sub \in SubsOf(rows)
        BY <2>1, RowIs
      <3> QED
        BY <1>1, <1>3, <3>1 DEF SubsOn
    <2>4. Matches(ScriptItem(script, shop, rows[k]), rows[k], script, x.subs)
      BY <2>1, <2>3, MadeToMatch
    <2>5. items[k] = ScriptItem(script, shop, rows[k]) /\ items[k].shop = shop /\ items[k].name = rows[k].name
      BY <1>4, <2>1
    <2> HIDE DEF items, shop, rows
    <2>6. i \in own
      BY <2>2, <2>5
    <2>7. ASSUME NEW j \in own \ {i} PROVE LowerOf[x.menu[j].name] # LowerOf[rows[k].name]
      <3>1. j \notin Named(x.menu, items[k])
        BY <2>2
      <3> QED
        BY <2>5, <3>1 DEF Named
    <2>8. Matches(x.menu[i], rows[k], script, x.subs)
      BY <2>2, <2>4, <2>5
    <2> QED
      BY <2>6, <2>7, <2>8
  <1>9. ASSUME NEW i \in DOMAIN d.menu, i \notin own PROVE x.menu[i] = d.menu[i]
    <2> HIDE DEF items, shop, rows
    <2>1. x.menu[i].shop # shop /\ d.menu[i].shop # shop
      BY <1>7, <1>9
    <2>2. e.menu[i] = d.menu[i]
      BY <1>3, <2>1
    <2> QED
      BY <1>4, <1>7, <2>1, <2>2
  <1>10. ASSUME NEW s \in ShopNames \ {shop} PROVE x.shops[s] = d.shops[s]
    <2> HIDE DEF shop
    <2> QED
      BY <1>1, <1>3, <1>6, <1>10 DEF ShopOn
  <1>11. ASSUME script = "V3", NEW i \in own
         PROVE  x.menu[i].deleted \/ V3Listed(x.menu[i].name)
    <2>1. CASE \E j \in 1..Len(rows) : x.menu[i] = items[j]
      <3>1. PICK j \in 1..Len(rows) : x.menu[i] = items[j]
        BY <2>1
      <3>2. x.menu[i].name = rows[j].name
        BY <1>4, <3>1
      <3>3. rows[j].name \in NamesOf(rows)
        BY RowIs
      <3> QED
        BY <1>11, <3>2, <3>3 DEF V3Listed
    <2>2. CASE ~ \E j \in 1..Len(rows) : x.menu[i] = items[j]
      <3> HIDE DEF items, shop
      <3>1. i \in DOMAIN d.menu /\ x.menu[i] = e.menu[i] /\ d.menu[i].shop = shop
        BY <1>7, <2>2
      <3> QED
        BY <1>3, <1>11, <3>1
    <2> QED
      BY <2>1, <2>2
  <1>12. ResultOf(script, x) = {x}
    <2>1. x \in Tables /\ x.shops = ShopOn(d.shops, shop) /\ x.subs = SubsOn(d.subs, rows)
      BY <1>1, <1>3
    <2>2. \A j \in 1..Len(items) : Once(x.menu, items[j])
      BY <1>4, <1>7
    <2>3. script = "V3" => \A i \in DOMAIN x.menu :
            x.menu[i].shop = shop => x.menu[i].deleted \/ V3Listed(x.menu[i].name)
      BY <1>11
    <2> QED
      BY <2>1, <2>2, <2>3, RunAgain
  <1> QED
    BY <1>8, <1>9, <1>10, <1>11, <1>12 DEF SettledIn

(* Once a menu script has committed, each of its rows is one item of its shop *)
(* on sale at the row's prices, nothing of another shop has changed, and      *)
(* running it again would change nothing: for any rows and whatever the menu  *)
(* was before.                                                                *)
THEOREM ScriptsSettle == MenuSpec => SyncSettles
  <1>1. CatInv /\ [MenuNext(ShopNames)]_catalogueVars
          => [ran' \in Scripts => SettledIn(ran', db, db')]_catalogueVars
    <2>1. SUFFICES ASSUME CatInv, MenuNext(ShopNames), ran' \in Scripts
                   PROVE  SettledIn(ran', db, db')
      OBVIOUS
    <2>2. ran' # NoScript
      BY <2>1 DEF Scripts, NoScript
    <2>3. ~ CatalogueNext(ShopNames)
      BY <2>2 DEF CatalogueNext, AddSub, ToggleSub, CreateShop, ApproveShop, UpdateShop, AdminAdd,
         AdminUpdate, AdminToggle, AdminDelete, SaveShelf, PortalAdd, PortalUpdate, PortalDelete,
         PortalToggle, Edited
    <2>4. ~ RaisePrices
      BY <2>2 DEF RaisePrices, Edited
    <2>5. PICK script \in Scripts : RunScript(script)
      BY <2>1, <2>3, <2>4, Zenon DEF MenuNext
    <2>6. ran' = script /\ db' \in ResultOf(script, db) /\ db \in Tables
      BY <2>1, <2>5 DEF RunScript, CatInv
    <2>7. SettledIn(script, db, db')
      BY <2>6, RunSettles
    <2> QED
      BY <2>6, <2>7
  <1>2. [ran' \in Scripts => SettledIn(ran', db, db')]_catalogueVars
          => [ran' \in Scripts =>
               LET shop == ShopOf(ran', db)
                   rows == MenuOf[ran']
                   own  == {i \in DOMAIN db'.menu : db'.menu[i].shop = shop}
               IN  /\ \A k \in DOMAIN rows :
                        \E i \in own : /\ Matches(db'.menu[i], rows[k], ran', db'.subs)
                                      /\ \A j \in own \ {i} : LowerOf[db'.menu[j].name] # LowerOf[rows[k].name]
                   /\ \A i \in DOMAIN db.menu : i \notin own => db'.menu[i] = db.menu[i]
                   /\ \A s \in ShopNames \ {shop} : db'.shops[s] = db.shops[s]
                   /\ ResultOf(ran', db') = {db'}
                   /\ ran' = "V3" => \A i \in own : db'.menu[i].deleted \/ V3Listed(db'.menu[i].name)
             ]_catalogueVars
    BY Zenon DEF SettledIn
  <1> QED
    BY <1>1, <1>2, MenuInvariant, PTL DEF MenuSpec, SyncSettles
=============================================================================
