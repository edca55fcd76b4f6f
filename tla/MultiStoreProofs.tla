-------------------------- MODULE MultiStoreProofs --------------------------
(***************************************************************************)
(* The money and the goods of an order of several stores, for any number   *)
(* of stores, any prices, fees and flat discount.  What is kept, given     *)
(* back, promised and asked for is always what was paid; the total of some *)
(* stores is a fold, and what is proved of it is that it never grows when  *)
(* a store leaves.                                                         *)
(***************************************************************************)
EXTENDS MultiStore, FiniteSetTheorems, WellFoundedInduction, TLAPS

-----------------------------------------------------------------------------
(* What the goods of some stores cost *)

(* The store a sum takes next, and what goods cost.                           *)
Next1(S) == CHOOSE s \in S : TRUE
Cost(S) == SumFunctionOnSet(Goods, S)

(* A function that sums the goods of every set of stores of S.                *)
Sums(g, S) ==
  g = [T \in SUBSET S |-> IF T = {} THEN 0 ELSE Goods[Next1(T)] + g[T \ {Next1(T)}]]

(* A set of sets of stores has one that no other is a proper part of.         *)
LEMMA SmallestSet ==
  ASSUME NEW B, B \subseteq SUBSET Stores, B # {}
  PROVE  \E S \in B : \A T \in B : T \subseteq S => T = S
  <1>1. IsWellFoundedOn(StrictSubsetOrdering(Stores), SUBSET Stores)
    BY MultiStoreAssumption, FS_StrictSubsetOrderingWellFounded, FS_FiniteSubsetsOfFinite
  <1>2. PICK S \in B : \A T \in B : ~ (<<T, S>> \in StrictSubsetOrdering(Stores))
    BY <1>1, WFMin
  <1>3. \A T \in B : <<T, S>> \in (SUBSET Stores) \X (SUBSET Stores) /\ <<T, S>>[1] = T /\ <<T, S>>[2] = S
    OBVIOUS
  <1>4. \A T \in B : ~ (T \subseteq S /\ T # S)
    BY <1>2, <1>3 DEF StrictSubsetOrdering
  <1> QED
    BY <1>4

(* The next store is one of the set.                                          *)
LEMMA NextIsOne ==
  ASSUME NEW S, S # {}
  PROVE  Next1(S) \in S
  BY DEF Next1

(* What goods cost is what the library's sum chooses.                         *)
LEMMA CostChosen ==
  ASSUME NEW S
  PROVE  Cost(S) = (CHOOSE g : Sums(g, S))[S]
  BY DEF Cost, SumFunctionOnSet, FoldFunctionOnSet, MapThenFoldSet, Sums, Next1

(* What such a function is at the empty set and at any other.                 *)
LEMMA SumsAt ==
  ASSUME NEW g, NEW S, Sums(g, S), NEW T, T \subseteq S
  PROVE  g[T] = IF T = {} THEN 0 ELSE Goods[Next1(T)] + g[T \ {Next1(T)}]
  BY Zenon DEF Sums

(* Functions that sum agree where both are defined.                           *)
LEMMA SumsAgree ==
  ASSUME NEW R, NEW S, R \subseteq Stores, S \subseteq Stores,
         NEW g, NEW h, Sums(g, R), Sums(h, S)
  PROVE  \A T : T \subseteq R /\ T \subseteq S => g[T] = h[T]
  <1> DEFINE B == {T \in SUBSET Stores : T \subseteq R /\ T \subseteq S /\ g[T] # h[T]}
  <1>1. SUFFICES B = {}
    OBVIOUS
  <1>2. SUFFICES ASSUME B # {} PROVE FALSE
    OBVIOUS
  <1>3. PICK T \in B : \A U \in B : U \subseteq T => U = T
    <2> HIDE DEF B
    <2>1. B \subseteq SUBSET Stores
      BY DEF B
    <2> QED
      BY <1>2, <2>1, SmallestSet
  <1>4. T \subseteq R /\ T \subseteq S /\ g[T] # h[T] /\ T \subseteq Stores
    OBVIOUS
  <1>5. T # {}
    BY <1>4, SumsAt
  <1> DEFINE x == Next1(T)
  <1>6. x \in T
    BY <1>5, NextIsOne
  <1>7. g[T] = Goods[x] + g[T \ {x}] /\ h[T] = Goods[x] + h[T \ {x}]
    BY <1>4, <1>5, SumsAt
  <1> HIDE DEF x
  <1>8. g[T \ {x}] = h[T \ {x}]
    <2>1. T \ {x} \notin B
      BY <1>3, <1>6
    <2> QED
      BY <1>4, <2>1
  <1> QED
    BY <1>4, <1>7, <1>8

(* There is such a function for every set of stores.                          *)
LEMMA SumsExist ==
  \A S \in SUBSET Stores : \E g : Sums(g, S)
  <1> DEFINE B == {S \in SUBSET Stores : ~ \E g : Sums(g, S)}
  <1>1. SUFFICES ASSUME B # {} PROVE FALSE
    OBVIOUS
  <1>2. PICK S \in B : \A T \in B : T \subseteq S => T = S
    <2> HIDE DEF B
    <2>1. B \subseteq SUBSET Stores
      BY DEF B
    <2> QED
      BY <1>1, <2>1, SmallestSet
  <1>3. S \subseteq Stores /\ ~ \E g : Sums(g, S)
    OBVIOUS
  <1> DEFINE G(T) == CHOOSE g : Sums(g, T)
             h    == [T \in SUBSET S |-> IF T = {} THEN 0
                                         ELSE Goods[Next1(T)] + G(T \ {Next1(T)})[T \ {Next1(T)}]]
  <1>4. \A T \in SUBSET S : T # S => Sums(G(T), T)
    <2> TAKE T \in SUBSET S
    <2> HAVE T # S
    <2>1. T \notin B /\ T \in SUBSET Stores
      BY <1>2, <1>3
    <2>2. \E g : Sums(g, T)
      BY <2>1
    <2> QED
      BY <2>2
  <1>5. ASSUME NEW T \in SUBSET S, T # S PROVE h[T] = G(T)[T]
    <2>1. Sums(G(T), T)
      BY <1>4, <1>5
    <2>2. CASE T = {}
      BY <2>1, <2>2, SumsAt
    <2>3. CASE T # {}
      <3> DEFINE x == Next1(T)
      <3>1. x \in T
        BY <2>3, NextIsOne
      <3>2. T \ {x} \in SUBSET S /\ T \ {x} # S /\ T \ {x} \subseteq T
        BY <3>1
      <3>3. Sums(G(T \ {x}), T \ {x})
        BY <1>4, <3>2
      <3>4. G(T)[T] = Goods[x] + G(T)[T \ {x}]
        BY <2>1, <2>3, SumsAt
      <3>5. h[T] = Goods[x] + G(T \ {x})[T \ {x}]
        BY <2>3
      <3> HIDE DEF G, h, x
      <3>6. G(T)[T \ {x}] = G(T \ {x})[T \ {x}]
        BY <1>3, <2>1, <3>2, <3>3, SumsAgree
      <3> QED
        BY <3>4, <3>5, <3>6
    <2> QED
      BY <2>2, <2>3
  <1>6. Sums(h, S)
    <2>1. \A T \in SUBSET S : h[T] = IF T = {} THEN 0 ELSE Goods[Next1(T)] + h[T \ {Next1(T)}]
      <3> TAKE T \in SUBSET S
      <3>1. CASE T = {}
        BY <3>1
      <3>2. CASE T # {}
        <4> DEFINE x == Next1(T)
        <4>1. x \in T
          BY <3>2, NextIsOne
        <4>2. T \ {x} \in SUBSET S /\ T \ {x} # S
          BY <4>1
        <4>3. h[T \ {x}] = G(T \ {x})[T \ {x}]
          BY <1>5, <4>2
        <4>4. h[T] = Goods[x] + G(T \ {x})[T \ {x}]
          BY <3>2
        <4> HIDE DEF G, h
        <4> QED
          BY <3>2, <4>3, <4>4
      <3> QED
        BY <3>1, <3>2
    <2>2. h = [T \in SUBSET S |-> h[T]]
      OBVIOUS
    <2> HIDE DEF h
    <2> QED
      BY <2>1, <2>2 DEF Sums
  <1> QED
    BY <1>3, <1>6

(* Goods cost nothing for no store, and one store's more for one store more.  *)
LEMMA CostStep ==
  ASSUME NEW S, S \subseteq Stores
  PROVE  Cost(S) = IF S = {} THEN 0 ELSE Goods[Next1(S)] + Cost(S \ {Next1(S)})
  <1> DEFINE G(T) == CHOOSE g : Sums(g, T)
  <1>1. \A T \in SUBSET Stores : Sums(G(T), T) /\ Cost(T) = G(T)[T]
    <2> TAKE T \in SUBSET Stores
    <2>1. \E g : Sums(g, T)
      BY SumsExist
    <2> QED
      BY <2>1, CostChosen
  <1>2. CASE S = {}
    <2> HIDE DEF G
    <2> QED BY <1>1, <1>2, SumsAt
  <1>3. CASE S # {}
    <2> DEFINE x == Next1(S)
    <2>1. x \in S /\ S \ {x} \in SUBSET Stores /\ S \in SUBSET Stores
      BY <1>3, NextIsOne
    <2> HIDE DEF G
    <2>2. G(S)[S] = Goods[x] + G(S)[S \ {x}]
      BY <1>1, <1>3, <2>1, SumsAt
    <2> HIDE DEF x
    <2>3. G(S)[S \ {x}] = G(S \ {x})[S \ {x}]
      <3>1. Sums(G(S), S) /\ Sums(G(S \ {x}), S \ {x})
        BY <1>1, <2>1
      <3>2. S \ {x} \subseteq S /\ S \ {x} \subseteq Stores
        BY <2>1
      <3> QED
        BY <3>1, <3>2, SumsAgree
    <2>4. Cost(S) = Goods[x] + Cost(S \ {x})
      BY <1>1, <2>1, <2>2, <2>3
    <2> QED
      BY <1>3, <2>4 DEF x
  <1> QED
    BY <1>2, <1>3

(* Goods cost a natural number.                                               *)
LEMMA CostType ==
  \A S \in SUBSET Stores : Cost(S) \in Nat
  <1> DEFINE B == {S \in SUBSET Stores : Cost(S) \notin Nat}
  <1>1. SUFFICES ASSUME B # {} PROVE FALSE
    OBVIOUS
  <1>2. PICK S \in B : \A T \in B : T \subseteq S => T = S
    <2> HIDE DEF B
    <2>1. B \subseteq SUBSET Stores
      BY DEF B
    <2> QED
      BY <1>1, <2>1, SmallestSet
  <1>3. S \subseteq Stores /\ Cost(S) \notin Nat
    OBVIOUS
  <1>4. S # {}
    BY <1>3, CostStep
  <1> DEFINE x == Next1(S)
  <1>5. x \in S /\ Cost(S) = Goods[x] + Cost(S \ {x})
    BY <1>3, <1>4, CostStep, NextIsOne
  <1> HIDE DEF x
  <1>6. Cost(S \ {x}) \in Nat
    <2>1. S \ {x} \notin B /\ S \ {x} \in SUBSET Stores
      BY <1>2, <1>3, <1>5
    <2> QED
      BY <2>1
  <1>7. Goods[x] \in Nat
    BY <1>3, <1>5, MultiStoreAssumption
  <1> QED
    BY <1>3, <1>5, <1>6, <1>7

(* Whichever store leaves takes the price of its goods with it.               *)
LEMMA CostLess ==
  \A S \in SUBSET Stores : \A s \in S : Cost(S) = Goods[s] + Cost(S \ {s})
  <1> DEFINE B == {S \in SUBSET Stores : \E s \in S : Cost(S) # Goods[s] + Cost(S \ {s})}
  <1>1. SUFFICES ASSUME B # {} PROVE FALSE
    OBVIOUS
  <1>2. PICK S \in B : \A T \in B : T \subseteq S => T = S
    <2> HIDE DEF B
    <2>1. B \subseteq SUBSET Stores
      BY DEF B
    <2> QED
      BY <1>1, <2>1, SmallestSet
  <1>3. PICK s \in S : Cost(S) # Goods[s] + Cost(S \ {s})
    OBVIOUS
  <1>4. S \subseteq Stores
    OBVIOUS
  <1> DEFINE x == Next1(S)
  <1>5. x \in S /\ Cost(S) = Goods[x] + Cost(S \ {x})
    BY <1>3, <1>4, CostStep, NextIsOne
  <1> HIDE DEF x
  <1>6. s # x
    BY <1>3, <1>5
  <1>7. S \ {x} \notin B /\ S \ {s} \notin B
    BY <1>2, <1>3, <1>5
  <1>8. S \ {x} \in SUBSET Stores /\ S \ {s} \in SUBSET Stores
    BY <1>4
  <1>9. Cost(S \ {x}) = Goods[s] + Cost((S \ {x}) \ {s})
    BY <1>3, <1>6, <1>7, <1>8
  <1>10. Cost(S \ {s}) = Goods[x] + Cost((S \ {s}) \ {x})
    BY <1>5, <1>6, <1>7, <1>8
  <1> HIDE DEF B
  <1>11. (S \ {x}) \ {s} = (S \ {s}) \ {x}
    OBVIOUS
  <1>12. Goods[x] \in Nat /\ Goods[s] \in Nat /\ Cost((S \ {s}) \ {x}) \in Nat
    <2>1. (S \ {s}) \ {x} \in SUBSET Stores
      BY <1>8
    <2> QED
      BY <1>4, <1>3, <1>5, <2>1, CostType, MultiStoreAssumption
  <1> DEFINE c == Cost((S \ {s}) \ {x})
  <1>13. /\ Cost(S) = Goods[x] + Cost(S \ {x}) /\ Cost(S \ {x}) = Goods[s] + c
         /\ Cost(S \ {s}) = Goods[x] + c /\ c \in Nat
    BY <1>5, <1>9, <1>10, <1>11, <1>12
  <1> HIDE DEF c
  <1>14. Cost(S) = Goods[s] + Cost(S \ {s})
    BY <1>12, <1>13
  <1> QED
    BY <1>3, <1>14

(* Fewer stores never cost more.                                              *)
LEMMA CostMonotone ==
  ASSUME NEW R, R \subseteq Stores
  PROVE  \A S \in SUBSET Stores : R \subseteq S => Cost(R) <= Cost(S)
  <1> DEFINE B == {S \in SUBSET Stores : R \subseteq S /\ ~ (Cost(R) <= Cost(S))}
  <1>1. SUFFICES ASSUME B # {} PROVE FALSE
    OBVIOUS
  <1>2. PICK S \in B : \A T \in B : T \subseteq S => T = S
    <2> HIDE DEF B
    <2>1. B \subseteq SUBSET Stores
      BY DEF B
    <2> QED
      BY <1>1, <2>1, SmallestSet
  <1>3. S \subseteq Stores /\ R \subseteq S /\ ~ (Cost(R) <= Cost(S)) /\ Cost(R) \in Nat /\ Cost(S) \in Nat
    BY CostType
  <1>4. PICK s \in S : s \notin R
    BY <1>3
  <1>5. R \subseteq S \ {s} /\ S \ {s} \in SUBSET Stores /\ S \ {s} \notin B
    BY <1>2, <1>3, <1>4
  <1>6. Cost(R) <= Cost(S \ {s})
    BY <1>5
  <1> HIDE DEF B
  <1>7. Cost(S) = Goods[s] + Cost(S \ {s}) /\ Cost(S \ {s}) \in Nat /\ Goods[s] \in Nat
    BY <1>3, <1>4, <1>5, CostLess, CostType, MultiStoreAssumption
  <1> QED
    BY <1>3, <1>6, <1>7

-----------------------------------------------------------------------------
(* The total *)

(* The smaller of two numbers.                                                *)
LEMMA Lesser ==
  ASSUME NEW a \in Int, NEW b \in Int
  PROVE  Min({a, b}) = IF a <= b THEN a ELSE b
  <1> DEFINE m == IF a <= b THEN a ELSE b
  <1>1. m \in {a, b} /\ \A y \in {a, b} : m <= y
    OBVIOUS
  <1>2. \A x \in {a, b} : (\A y \in {a, b} : x <= y) => x = m
    OBVIOUS
  <1> QED
    BY <1>1, <1>2 DEF Min

(* A total is the charges and what the goods cost beyond the promo.           *)
LEMMA TotalIs ==
  ASSUME NEW S \in SUBSET Stores
  PROVE  Total(S) = Fees + (IF FlatOff <= Cost(S) THEN Cost(S) - FlatOff ELSE 0)
  <1>1. Cost(S) \in Nat
    BY CostType
  <1>2. Total(S) = Cost(S) + Fees - Min({FlatOff, Cost(S)})
    BY DEF Total, Cost
  <1>3. Min({FlatOff, Cost(S)}) = IF FlatOff <= Cost(S) THEN FlatOff ELSE Cost(S)
    BY <1>1, Lesser, MultiStoreAssumption
  <1> QED
    BY <1>1, <1>2, <1>3, MultiStoreAssumption

(* Fewer stores never make a larger total, however the promo applies.         *)
LEMMA TotalMonotone ==
  ASSUME NEW R \in SUBSET Stores, NEW S \in SUBSET Stores, R \subseteq S
  PROVE  Total(R) \in Nat /\ Total(S) \in Nat /\ Total(R) <= Total(S)
  <1>1. Cost(R) \in Nat /\ Cost(S) \in Nat /\ Cost(R) <= Cost(S)
    BY CostType, CostMonotone
  <1> QED
    BY <1>1, TotalIs, MultiStoreAssumption

-----------------------------------------------------------------------------
(* The inductive invariant *)

(* The columns and what they may hold.                                        *)
Statuses == {"pending", "accepted", "ready", "picked_up", "delivered", "cancelled"}
Pays == {"pending", "paid", "failed"}
ParentRow == [status : Statuses, method : {"cash", "online"}, pay : Pays,
              total : Nat, owed : Nat, rz : Nat \cup {Foreign}]
Attempt   == [no : Nat, amount : Nat \ {0}]
Gate      == [in : Nat, again : Nat, out : Nat, left : Nat]
Handlers == [op : {"idle", "derive", "call", "split"}] \cup [op : {"refund"}, amount : Nat]
MsTypes ==
  /\ parent \in ParentRow
  /\ store \in [Stores -> Statuses]
  /\ storePay \in [Stores -> Pays]
  /\ earning \in [Stores -> {"none", "unsettled", "settled"}]
  /\ offered \in BOOLEAN /\ job \in BOOLEAN /\ lost \in BOOLEAN /\ waived \in BOOLEAN
  /\ attempt \subseteq Attempt
  /\ gate \in Gate
  /\ req \in Handlers

(* The parent's status is one its live stores can have.                       *)
ParentFollows ==
  /\ Live(store) = {} => parent.status = "cancelled"
  /\ parent.status = "ready" => \A s \in Live(store) : store[s] = "ready"

(* Earnings are of live stores and paid orders; a delivered order without one *)
(* is being split, or its split was lost.                                     *)
EarningsFollow ==
  /\ job \/ req.op = "split" => parent.pay = "paid"
  /\ \A s \in Stores :
       /\ earning[s] = "unsettled" => store[s] # "cancelled" /\ parent.pay = "paid"
       /\ parent.status = "delivered" /\ ~ lost /\ s \in Live(store) /\ earning[s] = "none" =>
            req.op = "split"

(* What the live stores cost the customer, what came back or was promised,    *)
(* and what is being asked for.                                               *)
KeptBack == IF Live(store) = {} THEN 0 ELSE parent.total
Returned == gate.out + parent.owed
Asking   == IF req.op = "refund" THEN req.amount ELSE 0

(* The total is the live stores' or that of more stores than are left.        *)
TotalCovers == \E S \in SUBSET Stores : Live(store) \subseteq S /\ parent.total = Total(S)

(* Before the gateway took money nothing goes back, and every open attempt    *)
(* asks for the total, or for more when a share was dropped.                  *)
BeforeMoney ==
  /\ Returned = 0 /\ req.op # "refund"
  /\ parent.pay = "paid" => parent.status = "delivered" \/ Live(store) = {}
  /\ \A a \in attempt :
       /\ parent.total <= a.amount
       /\ ~ waived => Live(store) # {} /\ a.amount = parent.total

(* Afterwards, what came back and what is asked for is what was paid less     *)
(* what is kept, or less than that when something was waived.                 *)
AfterMoney ==
  /\ parent.pay = "paid" /\ parent.method = "online"
  /\ Returned + Asking <= gate.in - KeptBack
  /\ ~ waived => Returned + Asking = gate.in - KeptBack

(* The money of the order: none if a payment of something else paid it, else  *)
(* before and after the gateway took it.  An order whose row names no attempt *)
(* has none.                                                                  *)
MoneyFollows ==
  /\ TotalCovers
  /\ attempt # {} => parent.method = "online"
  /\ parent.rz \in {Unnamed, Foreign} => gate.in = 0 /\ attempt = {}
  /\ IF parent.rz = Foreign THEN parent.pay = "paid"
     ELSE IF gate.in = 0 THEN BeforeMoney ELSE AfterMoney

(* The inductive invariant.                                                   *)
MsInv == MsTypes /\ ParentFollows /\ EarningsFollow /\ MoneyFollows

(* A total is never negative.                                                 *)
LEMMA TotalNat == \A S \in SUBSET Stores : Total(S) \in Nat
  BY TotalMonotone

(* A store is live when its order is not cancelled.                           *)
LEMMA LiveIs == \A s \in Stores : s \in Live(store) <=> store[s] # "cancelled"
  BY DEF Live

(* What the rest of a running handler is,                                     *)
LEMMA HandlerIs ==
  ASSUME NEW h \in Handlers
  PROVE  /\ h.op \in {"idle", "derive", "call", "split", "refund"}
         /\ h.op = "refund" => h.amount \in Nat
         /\ h.op = "idle" => h = NoReq
  BY DEF Handlers, NoReq

(* and that each is one.                                                      *)
LEMMA HandlersAre ==
  /\ NoReq \in Handlers /\ [op |-> "derive"] \in Handlers
  /\ [op |-> "call"] \in Handlers /\ [op |-> "split"] \in Handlers
  /\ \A n \in Nat : [op |-> "refund", amount |-> n] \in Handlers
  BY DEF Handlers, NoReq

(* The parent's columns.                                                      *)
LEMMA ParentIs ==
  ASSUME NEW p \in ParentRow
  PROVE  /\ p.status \in Statuses /\ p.method \in {"cash", "online"}
         /\ p.pay \in Pays /\ p.total \in Nat /\ p.owed \in Nat
         /\ p.rz \in Nat \cup {Foreign}
  BY DEF ParentRow

(* What a step may write into the parent's row.                               *)
LEMMA ParentTurns ==
  ASSUME NEW p \in ParentRow
  PROVE  /\ \A x \in Statuses : LET q == [p EXCEPT !.status = x] IN
              /\ q \in ParentRow /\ q.status = x /\ q.method = p.method /\ q.pay = p.pay
              /\ q.total = p.total /\ q.owed = p.owed /\ q.rz = p.rz
         /\ \A x \in Pays : LET q == [p EXCEPT !.pay = x] IN
              /\ q \in ParentRow /\ q.status = p.status /\ q.method = p.method /\ q.pay = x
              /\ q.total = p.total /\ q.owed = p.owed /\ q.rz = p.rz
         /\ \A x \in Nat : LET q == [p EXCEPT !.total = x] IN
              /\ q \in ParentRow /\ q.status = p.status /\ q.method = p.method /\ q.pay = p.pay
              /\ q.total = x /\ q.owed = p.owed /\ q.rz = p.rz
         /\ \A x \in Nat : LET q == [p EXCEPT !.owed = x] IN
              /\ q \in ParentRow /\ q.status = p.status /\ q.method = p.method /\ q.pay = p.pay
              /\ q.total = p.total /\ q.owed = x /\ q.rz = p.rz
  BY DEF ParentRow

(* The invariant holds at the start.                                          *)
LEMMA MsStarts == MsInit => MsInv
  <1> SUFFICES ASSUME MsInit PROVE MsInv
    OBVIOUS
  <1> USE DEF MsInit, NoReq
  <1>1. Total(Stores) \in Nat
    BY TotalNat
  <1>2. /\ parent.status = "pending" /\ parent.pay = "pending" /\ parent.owed = 0
        /\ parent.total = Total(Stores) /\ parent.method \in {"cash", "online"}
        /\ parent.rz = 0
    BY DEF Unnamed
  <1>3. MsTypes
    <2>1. parent \in ParentRow
      BY <1>1 DEF ParentRow, Statuses, Pays, Unnamed
    <2>2. req \in Handlers
      BY DEF Handlers
    <2>3. /\ store \in [Stores -> Statuses] /\ storePay \in [Stores -> Pays]
          /\ earning \in [Stores -> {"none", "unsettled", "settled"}]
      BY DEF Statuses, Pays
    <2>4. gate \in Gate /\ attempt \subseteq Attempt
      BY DEF Gate
    <2>5. offered \in BOOLEAN /\ job \in BOOLEAN /\ lost \in BOOLEAN /\ waived \in BOOLEAN
      OBVIOUS
    <2> QED
      BY <2>1, <2>2, <2>3, <2>4, <2>5 DEF MsTypes
  <1>4. Live(store) = Stores
    BY DEF Live
  <1>5. Returned = 0 /\ req.op # "refund" /\ gate.in = 0
    BY <1>2 DEF Returned
  <1>6. TotalCovers
    BY <1>2, <1>4 DEF TotalCovers
  <1>7. BeforeMoney
    BY <1>2, <1>5 DEF BeforeMoney
  <1>8. MoneyFollows
    BY <1>2, <1>5, <1>6, <1>7 DEF MoneyFollows, Foreign
  <1>9. ParentFollows /\ EarningsFollow
    <2>1. Live(store) # {}
      BY <1>4, MultiStoreAssumption
    <2> QED
      BY <1>2, <2>1 DEF ParentFollows, EarningsFollow
  <1> QED
    BY <1>3, <1>8, <1>9 DEF MsInv

(* An attempt asks for the total as it is now.                                *)
LEMMA OpenAttemptSafe == MsInv /\ OpenAttempt => MsInv'
  <1> SUFFICES ASSUME MsInv, OpenAttempt PROVE MsInv'
    OBVIOUS
  <1> USE DEF MsInv
  <1> DEFINE n   == parent.rz + 1
             new == [no |-> n, amount |-> parent.total]
  <1>1. /\ parent \in ParentRow /\ parent.total \in Nat \ {0} /\ parent.method = "online"
        /\ parent.rz \in Nat \cup {Foreign} /\ parent.pay # "paid"
        /\ attempt' = attempt \cup {new} /\ parent' = [parent EXCEPT !.rz = n]
        /\ UNCHANGED <<store, storePay, earning, offered, gate, job, req, lost>>
        /\ waived' = (waived \/ parent.status = "cancelled")
    BY ParentIs DEF MsTypes, OpenAttempt
  <1>2. n \in Nat /\ (parent.rz = Foreign <=> n = 0)
    BY <1>1 DEF Foreign
  <1>3. new \in Attempt /\ new.amount = parent.total
    BY <1>1, <1>2 DEF Attempt
  <1> HIDE DEF n, new
  <1>4. /\ parent' \in ParentRow /\ parent'.status = parent.status /\ parent'.pay = parent.pay
        /\ parent'.method = parent.method /\ parent'.total = parent.total
        /\ parent'.owed = parent.owed /\ parent'.rz = n
    BY <1>1, <1>2 DEF ParentRow
  <1>5. MsTypes'
    <2>1. waived' \in BOOLEAN
      BY <1>1 DEF MsTypes
    <2>2. attempt' \subseteq Attempt
      BY <1>1, <1>3 DEF MsTypes
    <2> QED
      BY <1>1, <1>4, <2>1, <2>2 DEF MsTypes
  <1>6. ParentFollows' /\ EarningsFollow'
    BY <1>1, <1>4 DEF ParentFollows, EarningsFollow, Live
  <1>7. Live(store') = Live(store) /\ Returned' = Returned
    BY <1>1, <1>4 DEF Returned
  <1>8. TotalCovers'
    BY <1>4, <1>7 DEF MoneyFollows, TotalCovers
  <1>9. ~ AfterMoney
    BY <1>1 DEF AfterMoney
  <1>10. parent.rz # Foreign /\ BeforeMoney /\ gate.in = 0
    BY <1>1, <1>9 DEF MoneyFollows
  <1>11. BeforeMoney'
    <2>1. parent.status # "cancelled" => Live(store) # {}
      BY DEF ParentFollows
    <2>2. Returned' = 0 /\ req'.op # "refund"
      BY <1>1, <1>7, <1>10 DEF BeforeMoney
    <2>3. ~ waived' => ~ waived /\ parent.status # "cancelled"
      BY <1>1
    <2>4. ASSUME NEW a \in attempt'
          PROVE  /\ parent'.total <= a.amount
                 /\ ~ waived' => Live(store') # {} /\ a.amount = parent'.total
      <3>1. CASE a \in attempt
        BY <1>4, <1>7, <1>10, <2>3, <3>1 DEF BeforeMoney
      <3>2. CASE a = new
        BY <1>1, <1>3, <1>4, <1>7, <2>1, <2>3, <3>2
      <3> QED
        BY <1>1, <2>4, <3>1, <3>2
    <2> QED
      BY <1>1, <1>4, <1>7, <1>10, <2>2, <2>4 DEF BeforeMoney
  <1>12. n # 0
    BY <1>2, <1>10
  <1>13. MoneyFollows'
    BY <1>1, <1>2, <1>4, <1>8, <1>10, <1>11, <1>12 DEF MoneyFollows, Unnamed, Foreign
  <1> QED
    BY <1>5, <1>6, <1>13

(* A captured attempt asked for the total, or for more when a share was       *)
(* dropped meanwhile.                                                         *)
LEMMA CaptureSafe == ASSUME MsInv, NEW a \in attempt, Capture(a) PROVE MsInv'
  <1> USE DEF MsInv
  <1>0. /\ attempt' = attempt \ {a} /\ parent.pay # "paid" /\ req.op = "idle"
        /\ gate' = [gate EXCEPT !.in = a.amount, !.left = a.amount]
        /\ parent' = [parent EXCEPT !.pay = "paid"] /\ storePay' = Synced /\ job' = TRUE
        /\ UNCHANGED <<store, earning, offered, req, lost, waived>>
    BY DEF Capture, NoReq
  <1>1. /\ a.amount \in Nat \ {0} /\ gate \in Gate /\ parent \in ParentRow
        /\ gate.out \in Nat
    BY DEF MsTypes, Attempt, Gate
  <1>2. BeforeMoney /\ parent.method = "online" /\ parent.rz \notin {Unnamed, Foreign}
    BY <1>0 DEF MoneyFollows, AfterMoney
  <1>3. /\ parent' \in ParentRow /\ parent'.status = parent.status /\ parent'.pay = "paid"
        /\ parent'.method = parent.method /\ parent'.total = parent.total
        /\ parent'.owed = parent.owed /\ parent'.rz = parent.rz
    BY <1>0, <1>1, ParentTurns DEF Pays
  <1>4. gate' \in Gate /\ gate'.in = a.amount /\ gate'.out = gate.out
    BY <1>0, <1>1 DEF Gate
  <1>5. MsTypes'
    <2>1. storePay' \in [Stores -> Pays]
      BY <1>0 DEF MsTypes, Pays, Synced
    <2> QED
      BY <1>0, <1>3, <1>4, <2>1 DEF MsTypes
  <1>6. ParentFollows' /\ EarningsFollow'
    BY <1>0, <1>3 DEF ParentFollows, EarningsFollow, Live
  <1>7. Live(store') = Live(store)
    BY <1>0
  <1>8. TotalCovers'
    BY <1>3, <1>7 DEF MoneyFollows, TotalCovers
  <1>9. /\ Returned' = 0 /\ Asking' = 0
        /\ KeptBack' = IF Live(store) = {} THEN 0 ELSE parent.total
    BY <1>0, <1>2, <1>3, <1>4, <1>7 DEF Returned, KeptBack, Asking, BeforeMoney
  <1>10. /\ parent.total <= a.amount /\ parent.total \in Nat
         /\ ~ waived => Live(store) # {} /\ a.amount = parent.total
    BY <1>1, <1>2, ParentIs DEF BeforeMoney
  <1>11. AfterMoney'
    BY <1>0, <1>1, <1>2, <1>3, <1>4, <1>9, <1>10 DEF AfterMoney
  <1>12. MoneyFollows'
    BY <1>0, <1>1, <1>2, <1>3, <1>4, <1>8, <1>11 DEF MoneyFollows
  <1> QED
    BY <1>5, <1>6, <1>12

(* What is paid again stays apart from what the order was paid by.            *)
LEMMA CaptureAgainSafe ==
  ASSUME MsInv, NEW a \in attempt, NEW verified \in BOOLEAN, CaptureAgain(a, verified)
  PROVE  MsInv'
  <1> USE DEF MsInv
  <1>1. /\ attempt' = attempt \ {a} /\ storePay' \in {storePay, Synced}
        /\ gate' = [gate EXCEPT !.again = @ + a.amount,
                                !.left = IF verified THEN a.amount ELSE @]
        /\ UNCHANGED <<parent, store, earning, offered, job, req, lost, waived>>
    BY DEF CaptureAgain
  <1>2. a.amount \in Nat /\ gate \in Gate /\ gate.again + a.amount \in Nat
    BY DEF MsTypes, Attempt, Gate
  <1>3. gate' \in Gate /\ gate'.in = gate.in /\ gate'.out = gate.out
    BY <1>1, <1>2 DEF Gate
  <1>4. MsTypes'
    <2>1. storePay' \in [Stores -> Pays]
      BY <1>1 DEF MsTypes, Pays, Synced
    <2> QED
      BY <1>1, <1>3, <2>1 DEF MsTypes
  <1>5. ParentFollows' /\ EarningsFollow'
    BY <1>1 DEF ParentFollows, EarningsFollow, Live
  <1>6. Live(store') = Live(store) /\ KeptBack' = KeptBack /\ Returned' = Returned /\ Asking' = Asking
    BY <1>1, <1>3 DEF KeptBack, Returned, Asking
  <1>7. TotalCovers'
    BY <1>1 DEF MoneyFollows, TotalCovers
  <1>8. BeforeMoney => BeforeMoney'
    BY <1>1, <1>6 DEF BeforeMoney
  <1>9. AfterMoney => AfterMoney'
    BY <1>1, <1>3, <1>6 DEF AfterMoney
  <1>10. MoneyFollows'
    BY <1>1, <1>3, <1>7, <1>8, <1>9 DEF MoneyFollows
  <1> QED
    BY <1>4, <1>5, <1>10

(* A payment of something else: no money of this order is with the gateway.   *)
LEMMA VerifyUnnamedSafe == MsInv /\ VerifyUnnamed => MsInv'
  <1> SUFFICES ASSUME MsInv, VerifyUnnamed PROVE MsInv'
    OBVIOUS
  <1> USE DEF MsInv
  <1>1. /\ parent.rz = Unnamed /\ storePay' = Synced /\ job' \in BOOLEAN
        /\ parent' = [parent EXCEPT !.pay = "paid", !.method = "online", !.rz = Foreign]
        /\ UNCHANGED <<store, earning, offered, attempt, gate, req, lost, waived>>
    BY DEF VerifyUnnamed, MsTypes
  <1>2. /\ parent' \in ParentRow /\ parent'.status = parent.status /\ parent'.pay = "paid"
        /\ parent'.method = "online" /\ parent'.total = parent.total /\ parent'.rz = Foreign
    <2>1. parent \in ParentRow /\ "paid" \in Pays
      BY DEF MsTypes, Pays
    <2> QED
      BY <1>1, <2>1 DEF ParentRow
  <1>3. MsTypes'
    <2>1. storePay' \in [Stores -> Pays]
      BY <1>1 DEF MsTypes, Pays, Synced
    <2> QED
      BY <1>1, <1>2, <2>1 DEF MsTypes
  <1>4. ParentFollows' /\ EarningsFollow'
    BY <1>1, <1>2 DEF ParentFollows, EarningsFollow, Live
  <1>5. TotalCovers'
    BY <1>1, <1>2 DEF MoneyFollows, TotalCovers
  <1>6. gate'.in = 0 /\ attempt' = {}
    BY <1>1 DEF MoneyFollows
  <1>7. MoneyFollows'
    BY <1>2, <1>5, <1>6 DEF MoneyFollows
  <1> QED
    BY <1>3, <1>4, <1>7

(* A sweep comes before any money.                                            *)
LEMMA SweepSafe == MsInv /\ Sweep => MsInv'
  <1> SUFFICES ASSUME MsInv, Sweep PROVE MsInv'
    OBVIOUS
  <1> USE DEF MsInv, Sweep
  <1>1. /\ parent' \in ParentRow /\ parent'.status = "cancelled" /\ parent'.pay = "failed"
        /\ parent'.method = parent.method /\ parent'.total = parent.total
        /\ parent'.owed = parent.owed /\ parent'.rz = parent.rz
    <2>1. parent \in ParentRow /\ "failed" \in Pays /\ "cancelled" \in Statuses
      BY DEF Pays, Statuses, MsTypes
    <2>2. parent' = [parent EXCEPT !.pay = "failed", !.status = "cancelled"]
      OBVIOUS
    <2> QED
      BY <2>1, <2>2 DEF ParentRow
  <1>2. /\ storePay' \in [Stores -> Pays] /\ store' \in [Stores -> Statuses]
        /\ \A s \in Stores : store'[s] = "cancelled" \/ store'[s] = store[s]
    BY DEF MsTypes, Pays, Statuses
  <1>3. MsTypes'
    BY <1>1, <1>2 DEF MsTypes
  <1>4. Live(store)' \subseteq Live(store)
    BY <1>2 DEF Live
  <1>5. ParentFollows'
    BY <1>1 DEF ParentFollows
  <1>6. ~ AfterMoney /\ BeforeMoney /\ gate.in = 0 /\ parent.rz # Foreign
    BY DEF AfterMoney, MoneyFollows
  <1>7. \A s \in Stores : earning[s] # "unsettled"
    BY DEF EarningsFollow
  <1>8. EarningsFollow'
    BY <1>1, <1>7 DEF EarningsFollow
  <1>9. TotalCovers'
    BY <1>1, <1>4 DEF MoneyFollows, TotalCovers
  <1>10. BeforeMoney'
    <2>1. Returned' = Returned
      BY <1>1 DEF Returned
    <2> QED
      BY <1>1, <1>6, <2>1 DEF BeforeMoney
  <1>11. MoneyFollows'
    BY <1>1, <1>6, <1>9, <1>10 DEF MoneyFollows
  <1> QED
    BY <1>3, <1>5, <1>8, <1>11

(* A step that leaves the money and the stores alone leaves what is said      *)
(* about the money true.                                                      *)
LEMMA MoneyStays ==
  ASSUME MoneyFollows, UNCHANGED <<attempt, gate, waived>>, Live(store') = Live(store),
         parent'.method = parent.method, parent'.total = parent.total,
         parent'.owed = parent.owed, parent'.rz = parent.rz,
         \/ parent'.pay = parent.pay /\ (parent.status = "delivered" => parent'.status = "delivered")
         \/ parent'.pay = "paid" /\ parent'.status = "delivered",
         req.op # "refund", req'.op # "refund"
  PROVE  MoneyFollows'
  <1>2. Returned' = Returned /\ Asking' = Asking /\ KeptBack' = KeptBack
    BY DEF Returned, Asking, KeptBack
  <1>3. TotalCovers'
    BY DEF TotalCovers, MoneyFollows
  <1>4. BeforeMoney => BeforeMoney'
    BY <1>2 DEF BeforeMoney
  <1>5. AfterMoney => AfterMoney'
    BY <1>2 DEF AfterMoney
  <1> QED
    BY <1>3, <1>4, <1>5 DEF MoneyFollows

(* Once cancelled a share stays so, when the others' states move along.       *)
LEMMA LiveMoves ==
  ASSUME NEW st \in [Stores -> Statuses], NEW x \in Statuses, x # "cancelled"
  PROVE  LET f == [s \in Stores |-> IF s \in Live(st) THEN x ELSE st[s]] IN
           f \in [Stores -> Statuses] /\ Live(f) = Live(st) /\ \A s \in Live(st) : f[s] = x
  BY DEF Live

(* A split gives live stores of a paid order their earning.                   *)
LEMMA SplitSafe == MsInv /\ (Split \/ SplitAtDoor) => MsInv'
  <1> SUFFICES ASSUME MsInv, Split \/ SplitAtDoor PROVE MsInv'
    OBVIOUS
  <1> USE DEF MsInv
  <1>1. /\ earning' = Settle(earning) /\ parent.pay = "paid"
        /\ UNCHANGED <<parent, store, storePay, offered, attempt, gate, lost, waived>>
        /\ req'.op \in {"idle"} /\ req'.op # "refund" /\ req.op # "refund" /\ req' = NoReq
        /\ job' \in BOOLEAN /\ (job' => job)
    <2>1. job \in BOOLEAN /\ (job \/ req.op = "split" => parent.pay = "paid")
      BY DEF MsTypes, EarningsFollow
    <2>2. CASE Split
      BY <2>1, <2>2 DEF Split, NoReq
    <2>3. CASE SplitAtDoor
      BY <2>1, <2>3 DEF SplitAtDoor, NoReq
    <2> QED
      BY <2>2, <2>3
  <1>2. /\ earning' \in [Stores -> {"none", "unsettled", "settled"}]
        /\ \A s \in Stores : earning'[s] = IF earning[s] = "none" /\ store[s] # "cancelled"
                                           THEN "unsettled" ELSE earning[s]
    BY <1>1 DEF Settle, MsTypes, Live
  <1>3. MsTypes'
    BY <1>1, <1>2, HandlersAre DEF MsTypes
  <1>4. ParentFollows'
    BY <1>1 DEF ParentFollows, Live
  <1>5. EarningsFollow'
    BY <1>1, <1>2 DEF EarningsFollow, Live
  <1>6. MoneyFollows'
    BY <1>1, MoneyStays
  <1> QED
    BY <1>3, <1>4, <1>5, <1>6

(* A settlement changes no amount of the order.                               *)
LEMMA PayStoreSafe == ASSUME MsInv, NEW s \in Stores, PayStore(s) PROVE MsInv'
  <1> USE DEF MsInv, PayStore
  <1>1. /\ earning' \in [Stores -> {"none", "unsettled", "settled"}]
        /\ \A u \in Stores : earning'[u] = earning[u] \/ earning'[u] = "settled"
    BY DEF MsTypes
  <1>2. MsTypes'
    BY <1>1 DEF MsTypes
  <1>3. ParentFollows'
    BY DEF ParentFollows, Live
  <1>4. EarningsFollow'
    BY <1>1 DEF EarningsFollow, Live
  <1>5. MoneyFollows'
    BY MoneyStays DEF NoReq
  <1> QED
    BY <1>2, <1>3, <1>4, <1>5

(* A store's answer leaves the stores that are live.                          *)
LEMMA StoreMovesSafe == ASSUME MsInv, NEW s \in Stores, NEW to \in {"accepted", "ready"},
                               StoreMoves(s, to)
                        PROVE  MsInv'
  <1> USE DEF MsInv
  <1>1. /\ store' = [store EXCEPT ![s] = to] /\ req' = [op |-> "derive"]
        /\ UNCHANGED <<parent, storePay, earning, offered, attempt, gate, job, lost, waived>>
        /\ req.op = "idle"
    BY DEF StoreMoves, NoReq
  <1>2. store[s] \in {"pending", "accepted", "ready"} /\ (store[s] = "ready" => to = "ready")
    BY DEF StoreMoves
  <1>3. /\ store' \in [Stores -> Statuses] /\ store'[s] = to
        /\ \A u \in Stores : u # s => store'[u] = store[u]
    BY <1>1 DEF MsTypes, Statuses
  <1>4. Live(store') = Live(store)
    BY <1>2, <1>3 DEF Live
  <1>5. MsTypes'
    BY <1>1, <1>3, HandlersAre DEF MsTypes
  <1>6. ParentFollows'
    <2>1. s \in Live(store) /\ \A u \in Live(store) : u \in Stores
      BY <1>2 DEF Live
    <2>2. ASSUME parent.status = "ready" PROVE \A u \in Live(store) : store'[u] = "ready"
      <3>1. \A u \in Live(store) : store[u] = "ready"
        BY <2>2 DEF ParentFollows
      <3> QED
        BY <1>2, <1>3, <2>1, <3>1
    <2>3. Live(store) # {}
      BY <2>1
    <2> QED
      BY <1>1, <1>4, <2>2, <2>3 DEF ParentFollows
  <1>7. EarningsFollow'
    <2>1. \A u \in Stores : u \in Live(store') => u \in Live(store)
      BY <1>4
    <2> QED
      BY <1>1, <1>2, <1>3, <2>1 DEF EarningsFollow
  <1>8. MoneyFollows'
    BY <1>1, <1>4, MoneyStays
  <1> QED
    BY <1>5, <1>6, <1>7, <1>8

(* The parent's status follows its live stores'.                              *)
LEMMA DeriveSafe == MsInv /\ Derive => MsInv'
  <1> SUFFICES ASSUME MsInv, Derive PROVE MsInv'
    OBVIOUS
  <1> USE DEF MsInv
  <1> DEFINE x == Derived(parent.status)
  <1>1. /\ x \in Statuses
        /\ parent.status \in {"picked_up", "delivered", "cancelled"} => x = parent.status
        /\ x = "delivered" => parent.status = "delivered"
        /\ Live(store) = {} => x = "cancelled"
        /\ x = "ready" => \A s \in Live(store) : store[s] = "ready"
    BY DEF Derived, Statuses, MsTypes, ParentFollows
  <1>2. parent' = [parent EXCEPT !.status = x] /\ req' \in {[op |-> "call"], NoReq}
    BY DEF Derive
  <1>3. UNCHANGED <<store, storePay, earning, offered, attempt, gate, job, lost, waived>>
        /\ req.op = "derive"
    BY DEF Derive
  <1> HIDE DEF x
  <1>4. /\ parent' \in ParentRow /\ parent'.status = x /\ parent'.pay = parent.pay
        /\ parent'.method = parent.method /\ parent'.total = parent.total
        /\ parent'.owed = parent.owed /\ parent'.rz = parent.rz
    BY <1>1, <1>2, ParentTurns DEF MsTypes
  <1>5. req' \in Handlers /\ req'.op # "refund" /\ req'.op # "split"
    BY <1>2, HandlersAre DEF NoReq
  <1>6. MsTypes'
    BY <1>3, <1>4, <1>5 DEF MsTypes
  <1>7. ParentFollows'
    BY <1>1, <1>3, <1>4 DEF ParentFollows, Live
  <1>8. EarningsFollow'
    BY <1>1, <1>3, <1>4, <1>5 DEF EarningsFollow, Live
  <1>9. MoneyFollows'
    BY <1>1, <1>3, <1>4, <1>5, MoneyStays
  <1> QED
    BY <1>6, <1>7, <1>8, <1>9

(* Calling the riders changes neither money nor stores.                       *)
LEMMA CallRidersSafe == MsInv /\ CallRiders => MsInv'
  <1> SUFFICES ASSUME MsInv, CallRiders PROVE MsInv'
    OBVIOUS
  <1> USE DEF MsInv
  <1>1. /\ UNCHANGED <<parent, store, storePay, earning, attempt, gate, job, lost, waived>>
        /\ offered' = TRUE /\ req' = NoReq /\ req'.op = "idle" /\ req.op \in {"idle", "call"}
    BY DEF CallRiders, NoReq
  <1>2. MsTypes'
    BY <1>1, HandlersAre DEF MsTypes
  <1>3. ParentFollows' /\ EarningsFollow'
    BY <1>1 DEF ParentFollows, EarningsFollow, Live
  <1>4. MoneyFollows'
    BY <1>1, MoneyStays
  <1> QED
    BY <1>2, <1>3, <1>4

(* All live stores are picked up with the parent,                             *)
LEMMA PickUpSafe == MsInv /\ PickUp => MsInv'
  <1> SUFFICES ASSUME MsInv, PickUp PROVE MsInv'
    OBVIOUS
  <1> USE DEF MsInv
  <1>1. /\ parent' = [parent EXCEPT !.status = "picked_up"] /\ store' = Follow("picked_up")
        /\ UNCHANGED <<storePay, earning, offered, attempt, gate, job, req, lost, waived>>
        /\ parent.status = "ready" /\ req.op = "idle"
    BY DEF PickUp, NoReq
  <1>2. /\ parent' \in ParentRow /\ parent'.status = "picked_up" /\ parent'.pay = parent.pay
        /\ parent'.method = parent.method /\ parent'.total = parent.total
        /\ parent'.owed = parent.owed /\ parent'.rz = parent.rz
    BY <1>1, ParentTurns DEF MsTypes, Statuses
  <1>3. store' \in [Stores -> Statuses] /\ Live(store') = Live(store)
    BY <1>1, LiveMoves DEF Follow, MsTypes, Statuses
  <1>4. MsTypes'
    BY <1>1, <1>2, <1>3 DEF MsTypes
  <1>5. ParentFollows'
    BY <1>1, <1>2, <1>3 DEF ParentFollows
  <1>6. EarningsFollow'
    BY <1>1, <1>2, <1>3, LiveIs DEF EarningsFollow, Live
  <1>7. MoneyFollows'
    BY <1>1, <1>2, <1>3, MoneyStays
  <1> QED
    BY <1>4, <1>5, <1>6, <1>7

(* and delivered with it, paid, with the split to follow.                     *)
LEMMA DeliverSafe == MsInv /\ Deliver => MsInv'
  <1> SUFFICES ASSUME MsInv, Deliver PROVE MsInv'
    OBVIOUS
  <1> USE DEF MsInv
  <1>1. /\ parent' = [parent EXCEPT !.status = "delivered", !.pay = "paid"]
        /\ store' = Follow("delivered")
        /\ storePay' = [s \in Stores |-> IF s \in Live(store) THEN "paid" ELSE storePay[s]]
        /\ UNCHANGED <<earning, offered, attempt, gate, job, lost, waived>>
        /\ req' = [op |-> "split"] /\ parent.status = "picked_up" /\ req.op = "idle"
    BY DEF Deliver, NoReq
  <1>2. /\ parent' \in ParentRow /\ parent'.status = "delivered" /\ parent'.pay = "paid"
        /\ parent'.method = parent.method /\ parent'.total = parent.total
        /\ parent'.owed = parent.owed /\ parent'.rz = parent.rz
    <2>1. parent \in ParentRow /\ "paid" \in Pays /\ "delivered" \in Statuses
      BY DEF Pays, Statuses, MsTypes
    <2> QED
      BY <1>1, <2>1 DEF ParentRow
  <1>3. store' \in [Stores -> Statuses] /\ Live(store') = Live(store)
    BY <1>1, LiveMoves DEF Follow, MsTypes, Statuses
  <1>4. MsTypes'
    <2>1. storePay' \in [Stores -> Pays]
      BY <1>1 DEF MsTypes, Pays
    <2> QED
      BY <1>1, <1>2, <1>3, <2>1, HandlersAre DEF MsTypes
  <1>5. ParentFollows'
    BY <1>1, <1>2, <1>3 DEF ParentFollows
  <1>6. EarningsFollow'
    BY <1>1, <1>2, <1>3, LiveIs DEF EarningsFollow, Live
  <1>7. MoneyFollows'
    BY <1>1, <1>2, <1>3, MoneyStays
  <1> QED
    BY <1>4, <1>5, <1>6, <1>7

(* A refund moves what was asked for to what came back, or to the note.       *)
LEMMA RefundSafe == ASSUME MsInv, NEW granted \in BOOLEAN, Refund(granted) PROVE MsInv'
  <1> USE DEF MsInv
  <1>1. /\ req.op = "refund" /\ req.amount \in Nat /\ req' = [op |-> "derive"]
        /\ UNCHANGED <<store, storePay, earning, offered, attempt, job, lost, waived>>
    BY HandlerIs DEF Refund, MsTypes
  <1>2. /\ parent' \in ParentRow /\ parent'.status = parent.status /\ parent'.pay = parent.pay
        /\ parent'.method = parent.method /\ parent'.total = parent.total
        /\ parent'.rz = parent.rz
        /\ gate' \in Gate /\ gate'.in = gate.in
        /\ Returned' = Returned + req.amount
    <2>1. /\ parent \in ParentRow /\ gate \in Gate /\ parent.owed \in Nat
          /\ gate.out \in Nat /\ gate.in \in Nat /\ gate.left \in Nat
      BY ParentIs DEF MsTypes, Gate
    <2>2. CASE /\ parent.rz = Foreign \/ req.amount <= gate.left
               /\ gate' = [gate EXCEPT !.out = @ + req.amount,
                             !.left = IF parent.rz = Foreign THEN @ ELSE @ - req.amount]
               /\ UNCHANGED parent
      <3> DEFINE l == IF parent.rz = Foreign THEN gate.left ELSE gate.left - req.amount
      <3> DEFINE n == gate.out + req.amount
      <3>1. l \in Nat /\ n \in Nat /\ gate' = [gate EXCEPT !.out = n, !.left = l]
        BY <1>1, <2>1, <2>2
      <3> HIDE DEF l, n
      <3>2. gate' \in Gate /\ gate'.in = gate.in /\ gate'.out = n
        BY <2>1, <3>1 DEF Gate
      <3> QED
        BY <1>1, <2>1, <2>2, <3>2 DEF Returned, n
    <2>3. CASE parent' = [parent EXCEPT !.owed = @ + req.amount] /\ UNCHANGED gate
      <3> DEFINE n == parent.owed + req.amount
      <3>1. n \in Nat /\ parent' = [parent EXCEPT !.owed = n]
        BY <1>1, <2>1, <2>3
      <3> HIDE DEF n
      <3>2. /\ parent' \in ParentRow /\ parent'.status = parent.status /\ parent'.pay = parent.pay
            /\ parent'.method = parent.method /\ parent'.total = parent.total /\ parent'.owed = n
            /\ parent'.rz = parent.rz
        BY <2>1, <3>1, ParentTurns
      <3> QED
        BY <1>1, <2>1, <2>3, <3>2 DEF Returned, n
    <2> QED
      BY <2>2, <2>3 DEF Refund
  <1>3. MsTypes'
    BY <1>1, <1>2, HandlersAre DEF MsTypes
  <1>4. ParentFollows' /\ EarningsFollow'
    BY <1>1, <1>2 DEF ParentFollows, EarningsFollow, Live
  <1>5. Live(store') = Live(store) /\ KeptBack' = KeptBack /\ Asking' = 0 /\ Asking = req.amount
    BY <1>1, <1>2 DEF KeptBack, Asking
  <1>6. Returned \in Nat
    BY ParentIs DEF Returned, MsTypes, Gate
  <1>7. Returned' + Asking' = Returned + Asking
    BY <1>1, <1>2, <1>5, <1>6
  <1>8. ~ BeforeMoney /\ (AfterMoney => AfterMoney')
    BY <1>1, <1>2, <1>5, <1>7 DEF AfterMoney, BeforeMoney
  <1>9. TotalCovers'
    BY <1>2, <1>5 DEF TotalCovers, MoneyFollows
  <1>10. MoneyFollows'
    BY <1>1, <1>2, <1>8, <1>9 DEF MoneyFollows
  <1> QED
    BY <1>3, <1>4, <1>10

(* Cancelling the whole order waives what was paid.                           *)
LEMMA CancelAllSafe == MsInv /\ CancelAll => MsInv'
  <1> SUFFICES ASSUME MsInv, CancelAll PROVE MsInv'
    OBVIOUS
  <1> USE DEF MsInv
  <1>1. /\ parent' = [parent EXCEPT !.status = "cancelled"] /\ store' = Follow("cancelled")
        /\ earning' = Unsettle(earning, Live(store)) /\ offered' = FALSE /\ waived' = TRUE
        /\ UNCHANGED <<storePay, attempt, gate, job, req, lost>> /\ req.op = "idle"
    BY DEF CancelAll, NoReq
  <1>2. /\ parent' \in ParentRow /\ parent'.status = "cancelled" /\ parent'.pay = parent.pay
        /\ parent'.method = parent.method /\ parent'.total = parent.total
        /\ parent'.owed = parent.owed /\ parent'.rz = parent.rz
    BY <1>1, ParentTurns DEF MsTypes, Statuses
  <1>3. /\ store' \in [Stores -> Statuses] /\ Live(store') = {}
        /\ earning' \in [Stores -> {"none", "unsettled", "settled"}]
    BY <1>1 DEF Follow, Unsettle, MsTypes, Statuses, Live
  <1>4. \A s \in Stores : earning'[s] # "unsettled"
    BY <1>1 DEF Unsettle, EarningsFollow, Live
  <1>5. MsTypes'
    BY <1>1, <1>2, <1>3 DEF MsTypes
  <1>6. ParentFollows'
    BY <1>2 DEF ParentFollows
  <1>7. EarningsFollow'
    BY <1>1, <1>2, <1>4 DEF EarningsFollow
  <1>8. TotalCovers'
    BY <1>2, <1>3 DEF TotalCovers, MoneyFollows
  <1>9. Returned' = Returned /\ Returned \in Nat /\ Asking' = 0 /\ Asking = 0 /\ KeptBack' = 0
    BY <1>1, <1>2, <1>3, ParentIs DEF Returned, Asking, KeptBack, MsTypes, Gate
  <1>10. BeforeMoney => BeforeMoney'
    BY <1>1, <1>2, <1>3, <1>9 DEF BeforeMoney
  <1>11. KeptBack \in Nat /\ gate.in \in Nat
    BY ParentIs DEF KeptBack, MsTypes, Gate
  <1>12. AfterMoney => AfterMoney'
    BY <1>1, <1>2, <1>9, <1>11 DEF AfterMoney
  <1>13. MoneyFollows'
    BY <1>1, <1>2, <1>8, <1>10, <1>12 DEF MoneyFollows
  <1> QED
    BY <1>5, <1>6, <1>7, <1>13

(* A worker lost before the refund waives it.                                 *)
LEMMA LoseSafe == MsInv /\ Lose => MsInv'
  <1> SUFFICES ASSUME MsInv, Lose PROVE MsInv'
    OBVIOUS
  <1> USE DEF MsInv
  <1>1. /\ req' = NoReq /\ req'.op = "idle" /\ lost' = TRUE /\ (job' = job \/ job' = FALSE)
        /\ UNCHANGED <<parent, store, storePay, earning, offered, attempt, gate>>
    BY DEF Lose, NoReq
  <1>2. /\ waived' \in BOOLEAN /\ (~ waived' => ~ waived /\ req.op # "refund")
        /\ job' \in BOOLEAN /\ (job' => job)
    <2>1. waived' = (waived \/ req.op = "refund") /\ waived \in BOOLEAN /\ job \in BOOLEAN
      BY DEF Lose, MsTypes
    <2>2. waived' \in BOOLEAN /\ (~ waived' => ~ waived /\ req.op # "refund")
      BY <2>1, Zenon
    <2>3. job' \in BOOLEAN /\ (job' => job)
      <3>1. CASE job' = job
        BY <2>1, <3>1
      <3>2. CASE job' = FALSE
        BY <3>2
      <3> QED
        BY <1>1, <3>1, <3>2
    <2> QED
      BY <2>2, <2>3, Zenon
  <1>3. MsTypes'
    BY <1>1, <1>2, HandlersAre DEF MsTypes
  <1>4. ParentFollows' /\ EarningsFollow'
    BY <1>1, <1>2 DEF ParentFollows, EarningsFollow, Live
  <1>5. Live(store') = Live(store) /\ KeptBack' = KeptBack /\ Returned' = Returned /\ Asking' = 0
    BY <1>1 DEF KeptBack, Asking, Returned
  <1>6. /\ KeptBack \in Nat /\ Returned \in Nat /\ Asking \in Nat /\ gate.in \in Nat
        /\ req.op # "refund" => Asking = 0
    BY ParentIs, HandlerIs DEF KeptBack, Returned, Asking, MsTypes, Gate
  <1>7. BeforeMoney => BeforeMoney'
    BY <1>1, <1>2, <1>5 DEF BeforeMoney
  <1>8. AfterMoney => AfterMoney'
    BY <1>1, <1>2, <1>5, <1>6 DEF AfterMoney
  <1>9. TotalCovers'
    BY <1>1, <1>5 DEF TotalCovers, MoneyFollows
  <1>10. MoneyFollows'
    BY <1>1, <1>7, <1>8, <1>9 DEF MoneyFollows
  <1> QED
    BY <1>3, <1>4, <1>10

(* A step that changes nothing keeps the invariant.                           *)
LEMMA MsStutters == MsInv /\ UNCHANGED msVars => MsInv'
  <1> SUFFICES ASSUME MsInv, UNCHANGED msVars PROVE MsInv'
    OBVIOUS
  <1> USE DEF MsInv, msVars
  <1>1. MsTypes' /\ ParentFollows' /\ EarningsFollow'
    BY DEF MsTypes, ParentFollows, EarningsFollow, Live
  <1>2. Live(store') = Live(store) /\ KeptBack' = KeptBack /\ Returned' = Returned /\ Asking' = Asking
    BY DEF KeptBack, Asking, Returned
  <1>3. BeforeMoney => BeforeMoney'
    BY <1>2 DEF BeforeMoney
  <1>4. AfterMoney => AfterMoney'
    BY <1>2 DEF AfterMoney
  <1>5. TotalCovers'
    BY <1>2 DEF TotalCovers, MoneyFollows
  <1>6. MoneyFollows'
    BY <1>3, <1>4, <1>5 DEF MoneyFollows
  <1> QED
    BY <1>1, <1>6

(* A dropped share asks for the difference of the totals, or for all when it  *)
(* was the last: the total of fewer stores is no larger.                      *)
LEMMA DropShareSafe == ASSUME MsInv, NEW s \in Stores, NEW byAdmin \in BOOLEAN,
                              DropShare(s, byAdmin)
                       PROVE  MsInv'
  <1> USE DEF MsInv
  <1> DEFINE left == Live(store) \ {s}
  <1>1. /\ req.op = "idle" /\ store[s] # "cancelled"
        /\ parent.status \notin {"picked_up", "delivered"}
        /\ store' = [store EXCEPT ![s] = "cancelled"]
        /\ earning' = Unsettle(earning, {s})
        /\ parent' = IF left = {} THEN [parent EXCEPT !.status = "cancelled"]
                     ELSE [parent EXCEPT !.total = Total(left)]
        /\ UNCHANGED <<storePay, attempt, gate, job, lost>>
    BY DEF DropShare, NoReq
  <1>2. /\ parent \in ParentRow /\ parent.total \in Nat
        /\ s \in Live(store) /\ left \in SUBSET Stores /\ left \subseteq Live(store)
    BY <1>1, ParentIs DEF Live, MsTypes
  <1>3. left # {} => Total(left) \in Nat /\ Total(left) <= parent.total
    <2>1. PICK S \in SUBSET Stores : Live(store) \subseteq S /\ parent.total = Total(S)
      BY DEF MoneyFollows, TotalCovers
    <2>2. left \subseteq S
      BY <1>2, <2>1
    <2> HIDE DEF left
    <2> QED
      BY <1>2, <2>1, <2>2, TotalMonotone
  <1>4. RefundFor(left) \in Nat
    BY <1>2, <1>3 DEF RefundFor
  <1>5. /\ store' \in [Stores -> Statuses] /\ Live(store') = left
        /\ earning' \in [Stores -> {"none", "unsettled", "settled"}]
        /\ \A u \in Stores : IF u = s THEN earning'[u] # "unsettled" ELSE earning'[u] = earning[u]
    BY <1>1 DEF Unsettle, MsTypes, Statuses, Live
  <1>6. /\ parent' \in ParentRow /\ parent'.pay = parent.pay
        /\ parent'.method = parent.method /\ parent'.owed = parent.owed
        /\ parent'.rz = parent.rz
        /\ parent'.status = IF left = {} THEN "cancelled" ELSE parent.status
        /\ parent'.total = IF left = {} THEN parent.total ELSE Total(left)
    <2>1. CASE left = {}
      <3>1. parent' = [parent EXCEPT !.status = "cancelled"] /\ "cancelled" \in Statuses
        BY <1>1, <2>1 DEF Statuses
      <3> HIDE DEF left
      <3> QED
        BY <1>2, <2>1, <3>1, ParentTurns
    <2>2. CASE left # {}
      <3>1. parent' = [parent EXCEPT !.total = Total(left)]
        BY <1>1, <2>2
      <3> HIDE DEF left
      <3> QED
        BY <1>2, <1>3, <2>2, <3>1, ParentTurns
    <2> HIDE DEF left
    <2> QED
      BY <2>1, <2>2
  <1>7. /\ offered' \in BOOLEAN /\ waived' \in BOOLEAN
        /\ ~ waived' => ~ waived /\ (attempt = {} \/ parent.pay = "paid")
    BY DEF DropShare, MsTypes
  <1>8. req' = IF parent.method = "online" /\ parent.pay = "paid" /\ RefundFor(left) > 0
               THEN [op |-> "refund", amount |-> RefundFor(left)] ELSE [op |-> "derive"]
    BY DEF DropShare
  <1> HIDE DEF left
  <1>9. req' \in Handlers /\ req'.op # "split"
    BY <1>4, <1>8, HandlersAre
  <1>10. MsTypes'
    BY <1>1, <1>5, <1>6, <1>7, <1>9 DEF MsTypes
  <1>11. ParentFollows'
    <2>1. \A u \in left : store'[u] = store[u] /\ u \in Live(store)
      BY <1>1, <1>2 DEF Live, left, MsTypes
    <2> QED
      BY <1>5, <1>6, <2>1 DEF ParentFollows
  <1>12. EarningsFollow'
    <2>1. \A u \in Stores : u # s => store'[u] = store[u]
      BY <1>1 DEF MsTypes
    <2>2. parent'.status # "delivered" /\ (job' => parent'.pay = "paid")
      BY <1>1, <1>6 DEF EarningsFollow
    <2>3. \A u \in Stores : earning'[u] = "unsettled" => store'[u] # "cancelled" /\ parent'.pay = "paid"
      BY <1>5, <1>6, <2>1 DEF EarningsFollow
    <2> QED
      BY <1>9, <2>2, <2>3 DEF EarningsFollow
  <1>13. TotalCovers'
    <2>1. CASE left = {}
      BY <1>2, <1>5, <1>6, <2>1 DEF MoneyFollows, TotalCovers
    <2>2. CASE left # {}
      BY <1>2, <1>5, <1>6, <2>2 DEF TotalCovers
    <2> QED
      BY <2>1, <2>2
  <1>14. Returned' = Returned /\ Live(store) # {} /\ KeptBack = parent.total /\ Asking = 0
    BY <1>1, <1>2, <1>6 DEF Returned, KeptBack, Asking
  <1>15. ASSUME BeforeMoney PROVE BeforeMoney'
    <2>1. parent.pay # "paid"
      BY <1>1, <1>14, <1>15 DEF BeforeMoney
    <2>2. req'.op # "refund"
      BY <1>8, <2>1
    <2>3. waived' \/ attempt = {}
      BY <1>7, <2>1
    <2>4. \A a \in attempt : a.amount \in Nat /\ parent.total <= a.amount
      BY <1>15 DEF BeforeMoney, MsTypes, Attempt
    <2>5. \A a \in attempt : parent'.total <= a.amount
      <3>1. parent'.total \in Nat /\ parent'.total <= parent.total
        BY <1>2, <1>3, <1>6
      <3> QED
        BY <1>2, <2>4, <3>1
    <2>6. Returned = 0
      BY <1>15 DEF BeforeMoney
    <2> QED
      BY <1>1, <1>6, <1>14, <2>1, <2>2, <2>3, <2>5, <2>6 DEF BeforeMoney
  <1>16. ASSUME AfterMoney PROVE AfterMoney'
    <2>1. Asking' = RefundFor(left)
      BY <1>4, <1>8, <1>16 DEF Asking, AfterMoney
    <2>2. KeptBack' = IF left = {} THEN 0 ELSE Total(left)
      BY <1>5, <1>6 DEF KeptBack
    <2>3. KeptBack' \in Nat /\ RefundFor(left) = parent.total - KeptBack'
      BY <1>2, <1>3, <2>2 DEF RefundFor
    <2>4. Returned \in Nat /\ gate.in \in Nat
      BY ParentIs DEF Returned, MsTypes, Gate
    <2>5. /\ Returned <= gate.in - parent.total
          /\ ~ waived => Returned = gate.in - parent.total
      BY <1>2, <1>14, <1>16, <2>4 DEF AfterMoney
    <2>6. gate' = gate /\ parent'.pay = "paid" /\ parent'.method = "online"
      BY <1>1, <1>6, <1>16 DEF AfterMoney
    <2>7. /\ Returned' + Asking' <= gate'.in - KeptBack'
          /\ ~ waived' => Returned' + Asking' = gate'.in - KeptBack'
      BY <1>2, <1>7, <1>14, <2>1, <2>3, <2>4, <2>5, <2>6
    <2> QED
      BY <2>6, <2>7 DEF AfterMoney
  <1>17. MoneyFollows'
    BY <1>1, <1>6, <1>13, <1>15, <1>16 DEF MoneyFollows
  <1> QED
    BY <1>10, <1>11, <1>12, <1>17

(* The invariant holds always.                                                *)
LEMMA MsInvariant == MsSpec => []MsInv
  <1>1. ASSUME MsInv, MsNext PROVE MsInv'
    BY <1>1, OpenAttemptSafe, CaptureSafe, CaptureAgainSafe, VerifyUnnamedSafe, SweepSafe, SplitSafe, PayStoreSafe, StoreMovesSafe,
       DropShareSafe, RefundSafe, DeriveSafe, CallRidersSafe, PickUpSafe, DeliverSafe,
       CancelAllSafe, LoseSafe, Zenon DEF MsNext
  <1> QED
    BY <1>1, MsStarts, MsStutters, PTL DEF MsSpec

(* Whichever stores of an order drop out, in any order and any state of its   *)
(* payment (cancel_store_share, _refund), and however many attempts at it the *)
(* customer pays, what is neither given back nor promised is at least the     *)
(* price of the stores left and what was paid again, and exactly that unless  *)
(* something was waived: for any stores, prices, fees and flat discount.      *)
THEOREM StoresAreMadeWhole == MsSpec => []RefundsAddUp
  <1>1. MsInv => RefundsAddUp
    <2> SUFFICES ASSUME MsInv, gate.in > 0
                 PROVE  LET spent == gate.in + gate.again - gate.out - parent.owed IN
                        /\ spent >= KeptBack + gate.again
                        /\ req.op # "refund" /\ ~ waived => spent = KeptBack + gate.again
      BY DEF RefundsAddUp, KeptBack
    <2>1. AfterMoney
      BY DEF MsInv, MoneyFollows
    <2>2. /\ KeptBack \in Nat /\ Returned = gate.out + parent.owed /\ Asking \in Nat
          /\ gate.in \in Nat /\ gate.again \in Nat /\ gate.out \in Nat /\ parent.owed \in Nat
          /\ req.op # "refund" => Asking = 0
      BY ParentIs, HandlerIs DEF KeptBack, Returned, Asking, MsTypes, MsInv, Gate
    <2> QED
      BY <2>1, <2>2 DEF AfterMoney
  <1> QED
    BY <1>1, MsInvariant, PTL

(* No store has an open earning for a share that was cancelled or for an      *)
(* order nobody paid, and after the delivery each live store has one unless a *)
(* worker was lost (_settle_multi_store).                                     *)
THEOREM SharesAreEarned == MsSpec => []StoresEarnTheirShare
  <1>1. MsInv => StoresEarnTheirShare
    BY DEF MsInv, EarningsFollow, StoresEarnTheirShare, NoReq
  <1> QED
    BY <1>1, MsInvariant, PTL

(* A rider who picks an order up takes the goods of every store that has not  *)
(* cancelled: the parent is ready only when they all are                      *)
(* (derived_parent_status), for any number of stores.                         *)
THEOREM RiderWaitsForEveryStore == MsSpec => RiderTakesEveryStore
  <1> DEFINE A == parent.status # "picked_up" /\ parent'.status = "picked_up" =>
                    /\ Live(store) # {}
                    /\ \A s \in Live(store) : store[s] = "ready" /\ store'[s] = "picked_up"
  <1>1. ASSUME MsInv, PickUp PROVE A
    <2>1. parent.status = "ready" /\ store' = Follow("picked_up")
      BY <1>1 DEF PickUp
    <2> QED
      BY <1>1, <2>1 DEF MsInv, ParentFollows, Follow, Live
  <1>2. ASSUME MsInv, MsNext, ~ PickUp, parent.status # "picked_up"
        PROVE  parent'.status # "picked_up"
    <2>1. parent \in ParentRow
      BY <1>2 DEF MsInv, MsTypes
    <2>2. Derived(parent.status) # "picked_up"
      BY <1>2 DEF Derived
    <2>3. \A s \in Stores, byAdmin \in BOOLEAN : DropShare(s, byAdmin) => parent'.status # "picked_up"
      BY <1>2, <2>1 DEF DropShare, ParentRow
    <2>4. \A granted \in BOOLEAN : Refund(granted) => parent'.status # "picked_up"
      BY <1>2, <2>1 DEF Refund, ParentRow
    <2>5. Derive => parent'.status # "picked_up"
      BY <1>2, <2>1, <2>2 DEF Derive, ParentRow
    <2>6. CancelAll \/ Sweep \/ Deliver => parent'.status # "picked_up"
      BY <1>2, <2>1 DEF CancelAll, Sweep, Deliver, ParentRow
    <2>7. /\ OpenAttempt \/ VerifyUnnamed => parent'.status # "picked_up"
          /\ \A a \in attempt : Capture(a) => parent'.status # "picked_up"
      BY <1>2, <2>1 DEF OpenAttempt, VerifyUnnamed, Capture, ParentRow
    <2>8. /\ Split \/ CallRiders \/ SplitAtDoor \/ Lose => parent' = parent
          /\ \A s \in Stores : PayStore(s) => parent' = parent
          /\ \A a \in attempt, verified \in BOOLEAN : CaptureAgain(a, verified) => parent' = parent
          /\ \A s \in Stores, to \in {"accepted", "ready"} : StoreMoves(s, to) => parent' = parent
      BY DEF CaptureAgain, Split, CallRiders, SplitAtDoor, Lose, PayStore, StoreMoves
    <2> QED
      BY <1>2, <2>3, <2>4, <2>5, <2>6, <2>7, <2>8, Zenon DEF MsNext
  <1>3. MsInv /\ [MsNext]_msVars => [A]_msVars
    BY <1>1, <1>2
  <1> HIDE DEF A
  <1>4. MsSpec => [][A]_msVars
    BY <1>3, MsInvariant, PTL DEF MsSpec
  <1> QED
    BY <1>4 DEF RiderTakesEveryStore, A

=============================================================================
