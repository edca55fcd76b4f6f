-------------------------- MODULE FulfilmentProofs --------------------------
(***************************************************************************)
(* What holds of Fulfilment for any number of orders, riders and threads.  *)
(*                                                                         *)
(* TypeOK alone is not inductive: a commit writes to the order and rider   *)
(* its request names, so the proof also needs that a request past its read *)
(* names some (Shape).  The safety properties follow from one invariant,   *)
(* Lifecycle, which adds to them what each request in flight still has     *)
(* behind it however stale its reading is (Backed).                        *)
(***************************************************************************)
EXTENDS Fulfilment, FiniteSetTheorems, TLAPS

(* What the fields of a request are when its next step uses them. *)
WellFormed(q) ==
  /\ q.op \in Ops \ {"idle", "offers", "upsert"} => q.order \in Orders
  /\ q.op \in {"accept", "reject", "complete"} => q.rider \in Riders
  /\ q.op = "ledger" /\ "rider" \in q.due => q.rider \in Riders

Shape == \A t \in Threads : WellFormed(req[t])

(* Inductive: a commit writes to the order and rider its request names.       *)
TInv == TypeOK /\ Shape

(* An idle thread names nothing.                                              *)
LEMMA IdleRequest == Idle \in Request /\ WellFormed(Idle)
  BY DEF Idle, Request, WellFormed, Ops, OrderStatus

(* Replacing a thread's request by a well-formed one keeps every request so. *)
LEMMA GotoKeepsShape ==
  ASSUME req \in [Threads -> Request], Shape, NEW t \in Threads,
         NEW q \in Request, WellFormed(q), Goto(t, q)
  PROVE  req' \in [Threads -> Request] /\ Shape'
  BY DEF Goto, Shape

(* A request that is done leaves the others as they are.                      *)
LEMMA FinishKeepsShape ==
  ASSUME req \in [Threads -> Request], Shape, NEW t \in Threads, Finish(t)
  PROVE  req' \in [Threads -> Request] /\ Shape'
  BY IdleRequest, GotoKeepsShape DEF Finish

-----------------------------------------------------------------------------
(* The initial rows have their types.                                         *)
LEMMA TypeInit == Init => TInv
  <1> SUFFICES ASSUME Init PROVE TInv
    OBVIOUS
  <1>1. TypeOK
    BY IdleRequest, StoreAssumption
    DEF Init, TypeOK, OrderStatus, OfferStatus, EarningStatus
  <1>2. Shape
    BY IdleRequest DEF Init, Shape
  <1> QED
    BY <1>1, <1>2 DEF TInv

(* One step of one thread keeps the types. *)
LEMMA TypeArrive ==
  ASSUME TInv, NEW t \in Threads, Arrive(t)
  PROVE  TInv'
  <1> USE DEF TInv
  <1>1. ASSUME NEW o \in Orders, NEW want \in HotelSettable, HotelRead(t, o, want)
        PROVE  TInv'
    <2> DEFINE q == [Idle EXCEPT !.op = "hotel", !.order = o, !.want = want,
                                 !.was = status[o]]
    <2>1. q \in Request /\ WellFormed(q)
      BY DEF TypeOK, HotelSettable, Idle, Request, WellFormed, Ops, OrderStatus
    <2>2. Goto(t, q)
      BY <1>1 DEF HotelRead
    <2> HIDE DEF q
    <2>3. req' \in [Threads -> Request] /\ Shape'
      BY <2>1, <2>2, GotoKeepsShape DEF TypeOK
    <2> QED
      BY <1>1, <2>3 DEF HotelRead, TypeOK, orderRow, earnings, history
  <1>2. ASSUME NEW r \in Riders, PollRead(t, r)
        PROVE  TInv'
    <2> DEFINE open == {o \in Orders : IsOpen(o)}
               q == [Idle EXCEPT !.op = "offers", !.rider = r, !.pairs = open \X {r}]
    <2>1. q \in Request /\ WellFormed(q)
      BY DEF Idle, Request, WellFormed, Ops, OrderStatus
    <2>2. Goto(t, q)
      BY <1>2 DEF PollRead
    <2> HIDE DEF q
    <2>3. req' \in [Threads -> Request] /\ Shape'
      BY <2>1, <2>2, GotoKeepsShape DEF TypeOK
    <2> QED
      BY <1>2, <2>3 DEF PollRead, TypeOK, rowsOnly, orderRow, earnings, history
  <1>3. ASSUME NEW r \in Riders, NEW o \in Orders, AcceptRead(t, r, o)
        PROVE  TInv'
    <2> DEFINE q == [Idle EXCEPT !.op = "accept", !.order = o, !.rider = r]
    <2>1. q \in Request /\ WellFormed(q)
      BY DEF Idle, Request, WellFormed, Ops, OrderStatus
    <2>2. Goto(t, q)
      BY <1>3 DEF AcceptRead
    <2> HIDE DEF q
    <2>3. req' \in [Threads -> Request] /\ Shape'
      BY <2>1, <2>2, GotoKeepsShape DEF TypeOK
    <2> QED
      BY <1>3, <2>3 DEF AcceptRead, TypeOK, rowsOnly, orderRow, earnings, history
  <1>4. ASSUME NEW r \in Riders, NEW o \in Orders, RejectRead(t, r, o)
        PROVE  TInv'
    <2> DEFINE q == [Idle EXCEPT !.op = "reject", !.order = o, !.rider = r]
    <2>1. q \in Request /\ WellFormed(q)
      BY DEF Idle, Request, WellFormed, Ops, OrderStatus
    <2>2. Goto(t, q)
      BY <1>4 DEF RejectRead
    <2> HIDE DEF q
    <2>3. req' \in [Threads -> Request] /\ Shape'
      BY <2>1, <2>2, GotoKeepsShape DEF TypeOK
    <2> QED
      BY <1>4, <2>3 DEF RejectRead, TypeOK, rowsOnly, orderRow, earnings, history
  <1>5. ASSUME NEW o \in Orders, PickUpRead(t, o)
        PROVE  TInv'
    <2> DEFINE q == [Idle EXCEPT !.op = "pickup", !.order = o]
    <2>1. q \in Request /\ WellFormed(q)
      BY DEF Idle, Request, WellFormed, Ops, OrderStatus
    <2>2. Goto(t, q)
      BY <1>5 DEF PickUpRead
    <2> HIDE DEF q
    <2>3. req' \in [Threads -> Request] /\ Shape'
      BY <2>1, <2>2, GotoKeepsShape DEF TypeOK
    <2> QED
      BY <1>5, <2>3 DEF PickUpRead, TypeOK, orderRow, earnings, history
  <1>6. ASSUME NEW o \in Orders, NEW takesCash \in BOOLEAN, CompleteRead(t, o, takesCash)
        PROVE  TInv'
    <2> DEFINE q == [Idle EXCEPT !.op = "complete", !.order = o, !.rider = rider[o],
                                 !.balance = wallet[rider[o]], !.cash = cash[o],
                                 !.takes = takesCash]
    <2>1. rider[o] \in Riders /\ wallet[rider[o]] \in Nat /\ cash[o] \in BOOLEAN
      BY <1>6 DEF CompleteRead, TypeOK
    <2>2. q \in Request /\ WellFormed(q)
      BY <2>1 DEF Idle, Request, WellFormed, Ops, OrderStatus
    <2>3. Goto(t, q)
      BY <1>6 DEF CompleteRead
    <2> HIDE DEF q
    <2>4. req' \in [Threads -> Request] /\ Shape'
      BY <2>2, <2>3, GotoKeepsShape DEF TypeOK
    <2> QED
      BY <1>6, <2>4 DEF CompleteRead, TypeOK, orderRow, earnings, history
  <1>7. ASSUME NEW o \in Orders, SplitStart(t, o)
        PROVE  TInv'
    <2> DEFINE q == [Idle EXCEPT !.op = "split", !.order = o]
    <2>1. q \in Request /\ WellFormed(q)
      BY DEF Idle, Request, WellFormed, Ops, OrderStatus
    <2>2. Goto(t, q)
      BY <1>7 DEF SplitStart
    <2> HIDE DEF q
    <2>3. req' \in [Threads -> Request] /\ Shape'
      BY <2>1, <2>2, GotoKeepsShape DEF TypeOK
    <2> QED
      BY <1>7, <2>3 DEF SplitStart, TypeOK, rowsOutside, orderRow, earnings, history
  <1>8. ASSUME NEW o \in Orders, CancelRead(t, o)
        PROVE  TInv'
    <2> DEFINE open == {o} \X {r \in Riders : offer[o][r] \in {"offered", "accepted"}}
               bal == IF rider[o] = NoRider THEN 0 ELSE wallet[rider[o]]
               q == [Idle EXCEPT !.op = "cancel", !.order = o, !.rider = rider[o],
                       !.was = status[o], !.balance = bal, !.cash = cash[o],
                       !.pairs = open]
    <2>1. /\ rider[o] \in Riders \cup {NoRider} /\ bal \in Nat /\ cash[o] \in BOOLEAN
          /\ status[o] \in OrderStatus /\ open \in SUBSET (Orders \X Riders)
      BY DEF TypeOK
    <2> HIDE DEF bal, open
    <2>2. q \in Request /\ WellFormed(q)
      BY <2>1 DEF Idle, Request, WellFormed, Ops, OrderStatus
    <2>3. Goto(t, q)
      BY <1>8 DEF CancelRead, bal, open
    <2> HIDE DEF q
    <2>4. req' \in [Threads -> Request] /\ Shape'
      BY <2>2, <2>3, GotoKeepsShape DEF TypeOK
    <2> QED
      BY <1>8, <2>4 DEF CancelRead, TypeOK, orderRow, earnings, history
  <1> QED
    BY <1>1, <1>2, <1>3, <1>4, <1>5, <1>6, <1>7, <1>8 DEF Arrive

(* The next step of a request in flight keeps the types.                      *)
LEMMA TypeProceed ==
  ASSUME TInv, NEW t \in Threads, Proceed(t)
  PROVE  TInv'
  <1> USE DEF TInv
  <1> DEFINE q == req[t]
  <1>0. q \in Request /\ WellFormed(q)
    BY DEF TypeOK, Shape
  <1>1. ASSUME HotelCommit(t) PROVE TInv'
    <2> DEFINE n == [Idle EXCEPT !.op = "dispatch", !.order = q.order]
    <2>1. q.order \in Orders /\ q.want \in OrderStatus /\ q.was \in OrderStatus
      BY <1>0, <1>1 DEF HotelCommit, At, Request, WellFormed, Ops
    <2>2. n \in Request /\ WellFormed(n)
      BY <2>1 DEF Idle, Request, WellFormed, Ops, OrderStatus
    <2>3. Goto(t, n) \/ Finish(t)
      BY <1>1 DEF HotelCommit
    <2> HIDE DEF n
    <2>4. req' \in [Threads -> Request] /\ Shape'
      BY <2>2, <2>3, GotoKeepsShape, FinishKeepsShape DEF TypeOK
    <2>5. status' \in [Orders -> OrderStatus] /\ reached' \in [Orders -> SUBSET OrderStatus]
      BY <1>1, <2>1 DEF HotelCommit, WriteStatus, FlushOf, TypeOK
    <2> QED
      BY <1>1, <2>4, <2>5 DEF HotelCommit, TypeOK, earnings
  <1>2. ASSUME BroadcastRead(t) PROVE TInv'
    <2> DEFINE n == [Idle EXCEPT !.op = "offers", !.pairs = {q.order} \X Riders]
    <2>1. q.order \in Orders
      BY <1>0, <1>2 DEF BroadcastRead, At, Request, WellFormed, Ops
    <2>2. n \in Request /\ WellFormed(n)
      BY <2>1 DEF Idle, Request, WellFormed, Ops, OrderStatus
    <2>3. Goto(t, n) \/ Finish(t)
      BY <1>2 DEF BroadcastRead
    <2> HIDE DEF n
    <2>4. req' \in [Threads -> Request] /\ Shape'
      BY <2>2, <2>3, GotoKeepsShape, FinishKeepsShape DEF TypeOK
    <2> QED
      BY <1>2, <2>4 DEF BroadcastRead, TypeOK, rowsOnly, orderRow, earnings, history
  <1>3. ASSUME OffersRead(t) PROVE TInv'
    <2> DEFINE now(x) == offer[x[1]][x[2]]
               n == [q EXCEPT !.op = "upsert",
                              !.fresh = {x \in q.pairs : now(x) = "none"},
                              !.pairs = {x \in q.pairs : now(x) = "superseded"}]
    <2> HIDE DEF now
    <2>2. n \in Request /\ WellFormed(n)
      BY <1>0 DEF Request, WellFormed, Ops
    <2>3. Goto(t, n)
      BY <1>3 DEF OffersRead, now
    <2> HIDE DEF n
    <2>4. req' \in [Threads -> Request] /\ Shape'
      BY <2>2, <2>3, GotoKeepsShape DEF TypeOK
    <2> QED
      BY <1>3, <2>4 DEF OffersRead, TypeOK, rowsOnly, orderRow, earnings, history
  <1>4. ASSUME OffersCommit(t) PROVE TInv'
    <2>1. req' \in [Threads -> Request] /\ Shape'
      BY <1>4, FinishKeepsShape DEF OffersCommit, TypeOK
    <2>2. offer' \in [Orders -> [Riders -> OfferStatus]]
      BY <1>4 DEF OffersCommit, TypeOK, OfferStatus
    <2> QED
      BY <1>4, <2>1, <2>2 DEF OffersCommit, TypeOK, rowsOnly, orderRow, earnings, history
  <1>5. ASSUME AcceptCommit(t) PROVE TInv'
    <2>1. req' \in [Threads -> Request] /\ Shape'
      BY <1>5, FinishKeepsShape DEF AcceptCommit, TypeOK
    <2>2. q.order \in Orders /\ q.rider \in Riders
      BY <1>0, <1>5 DEF AcceptCommit, At, Request, WellFormed, Ops
    <2>3. offer' \in [Orders -> [Riders -> OfferStatus]]
      BY <1>5, <2>2 DEF AcceptCommit, Superseded, TypeOK, OfferStatus
    <2>4. rider' \in [Orders -> Riders \cup {NoRider}]
      BY <1>5, <2>2 DEF AcceptCommit, TypeOK
    <2> QED
      BY <1>5, <2>1, <2>3, <2>4 DEF AcceptCommit, TypeOK, earnings, history
  <1>6. ASSUME RejectCommit(t) PROVE TInv'
    <2>1. req' \in [Threads -> Request] /\ Shape'
      BY <1>6, FinishKeepsShape DEF RejectCommit, TypeOK
    <2>2. q.order \in Orders /\ q.rider \in Riders
      BY <1>0, <1>6 DEF RejectCommit, At, Request, WellFormed, Ops
    <2>3. offer' \in [Orders -> [Riders -> OfferStatus]]
      BY <1>6, <2>2 DEF RejectCommit, TypeOK, OfferStatus
    <2> QED
      BY <1>6, <2>1, <2>3 DEF RejectCommit, TypeOK, rowsOnly, orderRow, earnings, history
  <1>7. ASSUME PickUpCommit(t) PROVE TInv'
    <2>1. req' \in [Threads -> Request] /\ Shape'
      BY <1>7, FinishKeepsShape DEF PickUpCommit, TypeOK
    <2>2. status' \in [Orders -> OrderStatus] /\ reached' \in [Orders -> SUBSET OrderStatus]
      BY <1>7 DEF PickUpCommit, WriteStatus, FlushOf, TypeOK, OrderStatus
    <2> QED
      BY <1>7, <2>1, <2>2 DEF PickUpCommit, TypeOK, earnings
  <1>8. ASSUME CompleteCommit(t) PROVE TInv'
    <2> DEFINE n == [Idle EXCEPT !.op = "split", !.order = q.order]
    <2>1. /\ q.order \in Orders /\ q.rider \in Riders /\ q.balance + 1 \in Nat
          /\ q.cash \in BOOLEAN /\ q.takes \in BOOLEAN
      BY <1>0, <1>8 DEF CompleteCommit, At, Request, WellFormed, Ops
    <2>2. n \in Request /\ WellFormed(n)
      BY <2>1 DEF Idle, Request, WellFormed, Ops, OrderStatus
    <2>3. Goto(t, n)
      BY <1>8 DEF CompleteCommit
    <2> HIDE DEF n
    <2>4. req' \in [Threads -> Request] /\ Shape'
      BY <2>2, <2>3, GotoKeepsShape DEF TypeOK
    <2>5. status' \in [Orders -> OrderStatus] /\ reached' \in [Orders -> SUBSET OrderStatus]
      BY <1>8 DEF CompleteCommit, WriteStatus, FlushOf, TypeOK, OrderStatus
    <2>6. /\ paid' \in [Orders -> BOOLEAN] /\ otp' \in [Orders -> BOOLEAN]
          /\ cash' \in [Orders -> BOOLEAN]
      BY <1>8, <2>1, ZenonT(30) DEF CompleteCommit, FlushOf, TypeOK
    <2>7. /\ wallet' \in [Riders -> Nat]
          /\ credited' \in [Orders -> Riders \cup {NoRider}]
      BY <1>8, <2>1 DEF CompleteCommit, TypeOK
    <2> QED
      BY <1>8, <2>4, <2>5, <2>6, <2>7 DEF CompleteCommit, TypeOK, earnings
  <1>9. ASSUME SplitRead(t) PROVE TInv'
    <2> DEFINE o == q.order
               due == (IF hotelEarning[o] = "none" THEN {"hotel"} ELSE {}) \cup
                      (IF rider[o] # NoRider /\ riderEarning[o] = "none" THEN {"rider"} ELSE {})
               n == [Idle EXCEPT !.op = "ledger", !.order = o, !.rider = rider[o], !.due = due]
    <2>1. o \in Orders
      BY <1>0, <1>9 DEF SplitRead, At, Request, WellFormed, Ops
    <2>2. /\ rider[o] \in Riders \cup {NoRider} /\ due \in SUBSET {"hotel", "rider"}
          /\ "rider" \in due => rider[o] \in Riders
      BY <2>1 DEF TypeOK
    <2> HIDE DEF due
    <2>3. n \in Request /\ WellFormed(n)
      BY <2>1, <2>2 DEF Idle, Request, WellFormed, Ops, OrderStatus
    <2>4. Goto(t, n)
      BY <1>9 DEF SplitRead, due
    <2> HIDE DEF n
    <2>5. req' \in [Threads -> Request] /\ Shape'
      BY <2>3, <2>4, GotoKeepsShape DEF TypeOK
    <2> QED
      BY <1>9, <2>5 DEF SplitRead, TypeOK, rowsOutside, orderRow, earnings, history
  <1>10. ASSUME SplitCommit(t) PROVE TInv'
    <2>1. req' \in [Threads -> Request] /\ Shape'
      BY <1>10, FinishKeepsShape DEF SplitCommit, TypeOK
    <2>2. /\ q.order \in Orders
          /\ "rider" \in q.due => q.rider \in Riders
      BY <1>0, <1>10 DEF SplitCommit, At, Request, WellFormed, Ops
    <2>3. NewEarning \subseteq EarningStatus
      BY DEF NewEarning, EarningStatus
    <2>4. /\ hotelEarning' \in [Orders -> EarningStatus]
          /\ riderEarning' \in [Orders -> EarningStatus]
          /\ earner' \in [Orders -> Riders \cup {NoRider}]
      BY <1>10, <2>2, <2>3 DEF SplitCommit, Duplicate, TypeOK, earnings
    <2> QED
      BY <1>10, <2>1, <2>4 DEF SplitCommit, TypeOK, rowsOutside, orderRow, history
  <1>11. ASSUME CancelCommit(t) PROVE TInv'
    <2>1. req' \in [Threads -> Request] /\ Shape'
      BY <1>11, FinishKeepsShape DEF CancelCommit, TypeOK
    <2>2. /\ q.order \in Orders /\ q.rider \in Riders \cup {NoRider} /\ q.balance \in Nat
          /\ q.cash \in BOOLEAN
      BY <1>0, <1>11 DEF CancelCommit, At, Request, WellFormed, Ops
    <2>3. status' \in [Orders -> OrderStatus] /\ reached' \in [Orders -> SUBSET OrderStatus]
      BY <1>11 DEF CancelCommit, WriteStatus, FlushOf, TypeOK, OrderStatus
    <2>4. cash' \in [Orders -> BOOLEAN]
      BY <1>11, <2>2, ZenonT(30) DEF CancelCommit, FlushOf, TypeOK
    <2>5. offer' \in [Orders -> [Riders -> OfferStatus]]
      BY <1>11, <2>2 DEF CancelCommit, TypeOK, OfferStatus
    <2>6. wallet' \in [Riders -> Nat]
      BY <1>11, <2>2 DEF CancelCommit, TakesBack, TypeOK
    <2>7. credited' \in [Orders -> Riders \cup {NoRider}]
      BY <1>11, <2>2 DEF CancelCommit, TypeOK
    <2>8. /\ hotelEarning' \in [Orders -> EarningStatus]
          /\ riderEarning' \in [Orders -> EarningStatus]
          /\ earner' \in [Orders -> Riders \cup {NoRider}]
      BY <1>11, <2>2 DEF CancelCommit, Voided, TypeOK, EarningStatus
    <2>9. voided' \subseteq Orders
      BY <1>11, <2>2 DEF CancelCommit, TypeOK
    <2> QED
      BY <1>11, <2>1, <2>3, <2>4, <2>5, <2>6, <2>7, <2>8, <2>9 DEF CancelCommit, TypeOK
  <1> QED
    BY <1>1, <1>2, <1>3, <1>4, <1>5, <1>6, <1>7, <1>8, <1>9, <1>10, <1>11 DEF Proceed

(* Every step keeps the type and the shape of the requests.                   *)
LEMMA TypeStep == TInv /\ [Next]_vars => TInv'
  <1> SUFFICES ASSUME TInv, [Next]_vars PROVE TInv'
    OBVIOUS
  <1>1. ASSUME NEW t \in Threads, Arrive(t) PROVE TInv'
    BY <1>1, TypeArrive
  <1>2. ASSUME NEW t \in Threads, Proceed(t) PROVE TInv'
    BY <1>2, TypeProceed
  <1>3. ASSUME NEW t \in Threads, Fail(t) PROVE TInv'
    <2>1. req' \in [Threads -> Request] /\ Shape'
      BY <1>3, FinishKeepsShape DEF Fail, TInv, TypeOK
    <2> QED
      BY <1>3, <2>1 DEF Fail, TInv, TypeOK, orderRow, earnings, history
  <1>4. ASSUME NEW o \in Orders, IssueOtp(o) \/ ExpireOtp(o) PROVE TInv'
    <2>1. otp' \in [Orders -> BOOLEAN]
      BY <1>4 DEF IssueOtp, ExpireOtp, TInv, TypeOK
    <2> QED
      BY <1>4, <2>1 DEF IssueOtp, ExpireOtp, TInv, TypeOK, Shape, earnings, history
  <1>5. ASSUME SettleHotel PROVE TInv'
    <2>1. hotelEarning' \in [Orders -> EarningStatus]
      BY <1>5 DEF SettleHotel, TInv, TypeOK, EarningStatus
    <2> QED
      BY <1>5, <2>1 DEF SettleHotel, TInv, TypeOK, Shape, rowsOutside, orderRow, history
  <1>6. ASSUME NEW r \in Riders, SettleRider(r) PROVE TInv'
    <2>1. riderEarning' \in [Orders -> EarningStatus]
      BY <1>6 DEF SettleRider, TInv, TypeOK, EarningStatus
    <2> QED
      BY <1>6, <2>1 DEF SettleRider, TInv, TypeOK, Shape, rowsOutside, orderRow, history
  <1>7. CASE UNCHANGED vars
    BY <1>7 DEF vars, TInv, TypeOK, Shape, orderRow, earnings, history
  <1> QED
    BY <1>1, <1>2, <1>3, <1>4, <1>5, <1>6, <1>7 DEF Next

(* Every column and every request keeps its type. *)
THEOREM TypeCorrect == Spec => []TypeOK
  <1>1. TInv => TypeOK
    BY DEF TInv
  <1> QED
    BY TypeInit, TypeStep, <1>1, PTL DEF Spec

-----------------------------------------------------------------------------
(* What a request in flight still has behind it, however stale its reading.  *)
Backed(q) ==
  /\ q.op = "hotel"    => HotelMaySet(q.was, q.want) /\ q.was \in reached[q.order]
  /\ q.op = "accept"   => offer[q.order][q.rider] # "none"
  /\ q.op = "pickup"   => "ready" \in reached[q.order] /\ rider[q.order] # NoRider
  /\ q.op = "complete" => "picked_up" \in reached[q.order]
  /\ q.op \in {"split", "ledger"} => paid[q.order]

(* Every request in flight has behind it what it relies on.                   *)
AllBacked == \A t \in Threads : Backed(req[t])

(* The status an order has is one it has reached.                             *)
StatusReached == \A o \in Orders : status[o] \in reached[o]

(* A split is queued for a paid order only.                                   *)
JobsPaid == \A o \in jobs : paid[o]

(* The part of the invariant that does not mention requests.                 *)
Records ==
  /\ StatusReached
  /\ JobsPaid
  /\ StagesInOrder
  /\ CarrierWasOffered
  /\ EarningsOnlyWhenPaid
  /\ CashOnlyFromDelivery

(* The inductive invariant of the orders' stages, riders and earnings.        *)
Lifecycle == TInv /\ AllBacked /\ Records

(* Steps only add to what a request relies on: statuses once reached stay     *)
(* reached, offer rows are never removed, riders never taken off an order,    *)
(* payments never undone.                                                     *)
Grows ==
  \A o \in Orders :
    /\ reached[o] \subseteq reached'[o]
    /\ rider[o] # NoRider => rider'[o] # NoRider
    /\ paid[o] => paid'[o]
    /\ \A r \in Riders : offer[o][r] # "none" => offer'[o][r] # "none"

(* What backs a request stays, for rows only grow in what counts.             *)
LEMMA BackedStays ==
  ASSUME TInv, Grows, NEW u \in Threads, req'[u] = req[u], Backed(req[u])
  PROVE  Backed(req[u])'
  <1>1. req[u] \in Request /\ WellFormed(req[u])
    BY DEF TInv, TypeOK, Shape
  <1> QED
    BY <1>1 DEF TInv, TypeOK, Grows, Request, WellFormed, Ops, Backed, HotelMaySet

(* So after a step it is enough to look at the thread that took it.          *)
LEMMA OthersStayBacked ==
  ASSUME TInv, Grows, AllBacked, NEW t \in Threads, NEW q, Goto(t, q), Backed(req[t])'
  PROVE  AllBacked'
  <1> SUFFICES ASSUME NEW u \in Threads PROVE Backed(req[u])'
    BY DEF AllBacked
  <1>1. CASE u # t
    <2>1. req'[u] = req[u]
      BY <1>1 DEF Goto, TInv, TypeOK
    <2> QED
      BY <2>1, BackedStays DEF AllBacked
  <1> QED
    BY <1>1

(* An idle thread needs nothing behind it.                                    *)
LEMMA IdleBacked ==
  ASSUME TInv, NEW t \in Threads, Finish(t)
  PROVE  Backed(req[t])'
  BY DEF Finish, Goto, TInv, TypeOK, Idle, Backed

(* A step that leaves every row alone keeps the records.                     *)
LEMMA ReadsKeepRecords ==
  ASSUME TInv, Records,
         UNCHANGED <<orderRow, offer, earnings, history>>, jobs' \subseteq jobs
  PROVE  Grows /\ Records'
  <1>1. Grows
    BY DEF Grows, orderRow, history
  <1>2. Records'
    BY DEF Records, StatusReached, JobsPaid, StagesInOrder, CarrierWasOffered,
           EarningsOnlyWhenPaid, CashOnlyFromDelivery, orderRow, earnings, history
  <1> QED
    BY <1>1, <1>2

(* Nothing needs backing at first.                                            *)
LEMMA LifecycleInit == Init => Lifecycle
  <1> SUFFICES ASSUME Init PROVE Lifecycle
    OBVIOUS
  <1>1. TInv
    BY TypeInit
  <1>2. AllBacked
    BY DEF Init, AllBacked, Backed, Idle
  <1>3. StatusReached /\ JobsPaid /\ StagesInOrder
    BY <1>1 DEF Init, StatusReached, JobsPaid, StagesInOrder, TInv, TypeOK
  <1>4. CarrierWasOffered /\ EarningsOnlyWhenPaid /\ CashOnlyFromDelivery
    BY StoreAssumption DEF Init, CarrierWasOffered, EarningsOnlyWhenPaid, CashOnlyFromDelivery
  <1> QED
    BY <1>1, <1>2, <1>3, <1>4 DEF Lifecycle, Records

(* A request arrives: nothing is written, and what it has read is true.      *)
LEMMA LifecycleArrive ==
  ASSUME Lifecycle, NEW t \in Threads, Arrive(t)
  PROVE  Grows /\ Records' /\ AllBacked'
  <1>0. TInv /\ AllBacked /\ Records
    BY DEF Lifecycle
  <1>1. UNCHANGED <<orderRow, offer, earnings, history>> /\ jobs' \subseteq jobs
    BY DEF Arrive, HotelRead, PollRead, AcceptRead, RejectRead, PickUpRead, CompleteRead,
           SplitStart, CancelRead, rowsOnly, rowsOutside
  <1>2. Grows /\ Records'
    BY <1>0, <1>1, ReadsKeepRecords
  <1>3. Backed(req[t])'
    <2> USE <1>0
    <2>1. ASSUME NEW o \in Orders, NEW want \in HotelSettable, HotelRead(t, o, want)
          PROVE  Backed(req[t])'
      BY <2>1 DEF HotelRead, Goto, Idle, Backed, HotelMaySet, Records, StatusReached,
                  TInv, TypeOK, history, orderRow
    <2>2. ASSUME NEW r \in Riders, PollRead(t, r) PROVE Backed(req[t])'
      BY <2>2 DEF PollRead, Goto, Idle, Backed, TInv, TypeOK
    <2>3. ASSUME NEW r \in Riders, NEW o \in Orders, AcceptRead(t, r, o)
          PROVE  Backed(req[t])'
      BY <2>3 DEF AcceptRead, Goto, Idle, Backed, TInv, TypeOK
    <2>4. ASSUME NEW r \in Riders, NEW o \in Orders, RejectRead(t, r, o)
          PROVE  Backed(req[t])'
      BY <2>4 DEF RejectRead, Goto, Idle, Backed, TInv, TypeOK
    <2>5. ASSUME NEW o \in Orders, PickUpRead(t, o) PROVE Backed(req[t])'
      BY <2>5 DEF PickUpRead, Goto, Idle, Backed, Records, StatusReached, TInv, TypeOK,
                  history, orderRow
    <2>6. ASSUME NEW o \in Orders, NEW c \in BOOLEAN, CompleteRead(t, o, c)
          PROVE  Backed(req[t])'
      BY <2>6 DEF CompleteRead, Goto, Idle, Backed, Records, StatusReached, TInv, TypeOK,
                  history, orderRow
    <2>7. ASSUME NEW o \in Orders, SplitStart(t, o) PROVE Backed(req[t])'
      BY <2>7 DEF SplitStart, Goto, Idle, Backed, Records, JobsPaid, TInv, TypeOK,
                  rowsOutside, orderRow
    <2>8. ASSUME NEW o \in Orders, CancelRead(t, o) PROVE Backed(req[t])'
      BY <2>8 DEF CancelRead, Goto, Idle, Backed, TInv, TypeOK
    <2> QED
      BY <2>1, <2>2, <2>3, <2>4, <2>5, <2>6, <2>7, <2>8 DEF Arrive
  <1>4. \E q : Goto(t, q)
    BY DEF Arrive, HotelRead, PollRead, AcceptRead, RejectRead, PickUpRead, CompleteRead,
           SplitStart, CancelRead
  <1> QED
    BY <1>0, <1>2, <1>3, <1>4, OthersStayBacked

(* A request is carried on: its writes are covered by what it has behind it. *)
LEMMA LifecycleProceed ==
  ASSUME Lifecycle, NEW t \in Threads, Proceed(t)
  PROVE  Grows /\ Records' /\ AllBacked'
  <1> DEFINE q == req[t]
  <1>0. /\ TInv /\ AllBacked /\ Records
        /\ q \in Request /\ WellFormed(q) /\ Backed(q)
    BY DEF Lifecycle, TInv, TypeOK, Shape, AllBacked
  <1>1. ASSUME HotelCommit(t) PROVE Grows /\ Records' /\ Backed(req[t])'
    <2>1. /\ q.order \in Orders /\ q.was \in reached[q.order]
          /\ HotelMaySet(q.was, q.want)
      BY <1>0, <1>1 DEF HotelCommit, At, WellFormed, Backed, Ops
    <2>2. Grows
      BY <1>0, <1>1 DEF HotelCommit, WriteStatus, Grows, TInv, TypeOK
    <2>3. Records'
      BY <1>0, <1>1, <2>1 DEF HotelCommit, WriteStatus, FlushOf, HotelMaySet, HotelSettable,
         TInv, TypeOK, Records, StatusReached, JobsPaid, StagesInOrder, CarrierWasOffered,
         EarningsOnlyWhenPaid, CashOnlyFromDelivery, earnings
    <2> DEFINE n == [Idle EXCEPT !.op = "dispatch", !.order = q.order]
    <2>4. CASE Finish(t)
      BY <1>0, <2>2, <2>3, <2>4, IdleBacked
    <2>5. CASE Goto(t, n)
      <3>1. req'[t] = n /\ n.op = "dispatch"
        BY <1>0, <2>5 DEF Goto, Idle, TInv, TypeOK
      <3> QED
        BY <2>2, <2>3, <3>1 DEF Backed
    <2> QED
      BY <1>1, <2>4, <2>5 DEF HotelCommit
  <1>2. ASSUME BroadcastRead(t) \/ OffersRead(t) PROVE Grows /\ Records' /\ Backed(req[t])'
    <2>1. Grows /\ Records'
      BY <1>0, <1>2, ReadsKeepRecords DEF BroadcastRead, OffersRead, rowsOnly
    <2>2. CASE Finish(t)
      BY <1>0, <2>1, <2>2, IdleBacked
    <2>3. ASSUME OffersRead(t) PROVE Grows /\ Records' /\ Backed(req[t])'
      <3>1. req'[t].op = "upsert"
        BY <1>0, <2>3 DEF OffersRead, Goto, Request, TInv, TypeOK
      <3> QED
        BY <2>1, <3>1 DEF Backed
    <2>4. ASSUME BroadcastRead(t), ~ Finish(t)
          PROVE  Grows /\ Records' /\ Backed(req[t])'
      <3>1. req'[t].op = "offers"
        BY <1>0, <2>4 DEF BroadcastRead, Goto, Idle, TInv, TypeOK
      <3> QED
        BY <2>1, <3>1 DEF Backed
    <2> QED
      BY <1>2, <2>2, <2>3, <2>4
  <1>3. ASSUME OffersCommit(t) PROVE Grows /\ Records' /\ Backed(req[t])'
    <2>1. \A o \in Orders, r \in Riders : offer[o][r] # "none" => offer'[o][r] # "none"
      BY <1>0, <1>3 DEF OffersCommit, TInv, TypeOK
    <2>2. Grows
      BY <1>3, <2>1 DEF OffersCommit, Grows, rowsOnly, orderRow, history
    <2>3. Records'
      BY <1>0, <1>3, <2>1 DEF OffersCommit, rowsOnly, orderRow, earnings, history,
         Records, StatusReached, JobsPaid, StagesInOrder, CarrierWasOffered,
         EarningsOnlyWhenPaid, CashOnlyFromDelivery, TInv, TypeOK
    <2> QED
      BY <1>0, <1>3, <2>2, <2>3, IdleBacked DEF OffersCommit
  <1>4. ASSUME AcceptCommit(t) PROVE Grows /\ Records' /\ Backed(req[t])'
    <2>1. /\ q.order \in Orders /\ q.rider \in Riders
          /\ offer[q.order][q.rider] # "none"
      BY <1>0, <1>4 DEF AcceptCommit, At, WellFormed, Backed, Ops
    <2>2. \A o \in Orders, r \in Riders : offer[o][r] # "none" => offer'[o][r] # "none"
      BY <1>0, <1>4, <2>1 DEF AcceptCommit, Superseded, TInv, TypeOK
    <2>3. \A o \in Orders : rider'[o] = IF o = q.order THEN q.rider ELSE rider[o]
      BY <1>0, <1>4, <2>1 DEF AcceptCommit, TInv, TypeOK
    <2>4. Grows
      BY <1>4, <2>1, <2>2, <2>3, StoreAssumption DEF AcceptCommit, Grows, history
    <2>5. CarrierWasOffered'
      BY <1>0, <1>4, <2>1, <2>2, <2>3, StoreAssumption
      DEF AcceptCommit, history, Records, CarrierWasOffered, TInv, TypeOK
    <2>6. Records'
      BY <1>0, <1>4, <2>5 DEF AcceptCommit, earnings, history, Records, StatusReached,
         JobsPaid, StagesInOrder, EarningsOnlyWhenPaid, CashOnlyFromDelivery
    <2> QED
      BY <1>0, <1>4, <2>4, <2>6, IdleBacked DEF AcceptCommit
  <1>5. ASSUME RejectCommit(t) PROVE Grows /\ Records' /\ Backed(req[t])'
    <2>1. q.order \in Orders /\ q.rider \in Riders
      BY <1>0, <1>5 DEF RejectCommit, At, WellFormed, Ops
    <2>2. \A o \in Orders, r \in Riders : offer[o][r] # "none" => offer'[o][r] # "none"
      BY <1>0, <1>5, <2>1 DEF RejectCommit, TInv, TypeOK
    <2>3. Grows
      BY <1>5, <2>2 DEF RejectCommit, Grows, rowsOnly, orderRow, history
    <2>4. Records'
      BY <1>0, <1>5, <2>2 DEF RejectCommit, rowsOnly, orderRow, earnings, history,
         Records, StatusReached, JobsPaid, StagesInOrder, CarrierWasOffered,
         EarningsOnlyWhenPaid, CashOnlyFromDelivery, TInv, TypeOK
    <2> QED
      BY <1>0, <1>5, <2>3, <2>4, IdleBacked DEF RejectCommit
  <1>6. ASSUME PickUpCommit(t) PROVE Grows /\ Records' /\ Backed(req[t])'
    <2>1. q.order \in Orders /\ "ready" \in reached[q.order] /\ rider[q.order] # NoRider
      BY <1>0, <1>6 DEF PickUpCommit, At, WellFormed, Backed, Ops
    <2>2. Grows
      BY <1>0, <1>6 DEF PickUpCommit, WriteStatus, Grows, TInv, TypeOK
    <2>3. Records'
      BY <1>0, <1>6, <2>1 DEF PickUpCommit, WriteStatus, FlushOf,
         TInv, TypeOK, Records, StatusReached, JobsPaid, StagesInOrder, CarrierWasOffered,
         EarningsOnlyWhenPaid, CashOnlyFromDelivery, earnings
    <2> QED
      BY <1>0, <1>6, <2>2, <2>3, IdleBacked DEF PickUpCommit
  <1>7. ASSUME CompleteCommit(t) PROVE Grows /\ Records' /\ Backed(req[t])'
    <2>1. /\ q.order \in Orders /\ q.rider \in Riders
          /\ "picked_up" \in reached[q.order]
      BY <1>0, <1>7 DEF CompleteCommit, At, WellFormed, Backed, Ops
    <2>2. Grows
      BY <1>0, <1>7 DEF CompleteCommit, WriteStatus, Grows, TInv, TypeOK
    <2>3. StatusReached' /\ JobsPaid' /\ StagesInOrder'
      BY <1>0, <1>7, <2>1 DEF CompleteCommit, WriteStatus, FlushOf, TInv, TypeOK,
         Records, StatusReached, JobsPaid, StagesInOrder
    <2>4. CarrierWasOffered' /\ EarningsOnlyWhenPaid'
      BY <1>0, <1>7, <2>1 DEF CompleteCommit, WriteStatus, TInv, TypeOK,
         Records, CarrierWasOffered, EarningsOnlyWhenPaid, earnings
    <2>5. /\ "delivered" \in reached'[q.order]
          /\ \A o \in Orders : /\ reached[o] \subseteq reached'[o]
                               /\ o # q.order => cash'[o] = cash[o] /\ credited'[o] = credited[o]
      BY <1>0, <1>7, <2>1 DEF CompleteCommit, WriteStatus, TInv, TypeOK
    <2>6. CashOnlyFromDelivery'
      BY <1>0, <2>5 DEF Records, CashOnlyFromDelivery
    <2>7. Backed(req[t])'
      BY <1>0, <1>7, <2>1 DEF CompleteCommit, Goto, Idle, Backed, TInv, TypeOK
    <2> QED
      BY <2>2, <2>3, <2>4, <2>6, <2>7 DEF Records
  <1>8. ASSUME SplitRead(t) PROVE Grows /\ Records' /\ Backed(req[t])'
    <2>1. q.order \in Orders /\ paid[q.order]
      BY <1>0, <1>8 DEF SplitRead, At, WellFormed, Backed, Ops
    <2>2. Grows /\ Records'
      BY <1>0, <1>8, ReadsKeepRecords DEF SplitRead, rowsOutside
    <2>3. Backed(req[t])'
      BY <1>0, <1>8, <2>1 DEF SplitRead, Goto, Idle, Backed, rowsOutside, orderRow, TInv, TypeOK
    <2> QED
      BY <2>2, <2>3
  <1>9. ASSUME SplitCommit(t) PROVE Grows /\ Records' /\ Backed(req[t])'
    <2>1. q.order \in Orders /\ paid[q.order]
      BY <1>0, <1>9 DEF SplitCommit, At, WellFormed, Backed, Ops
    <2>2. Grows
      BY <1>9 DEF SplitCommit, Grows, rowsOutside, orderRow, history
    <2>3. \A o \in Orders : o # q.order =>
            hotelEarning'[o] = hotelEarning[o] /\ riderEarning'[o] = riderEarning[o]
      BY <1>0, <1>9, <2>1 DEF SplitCommit, Duplicate, earnings, TInv, TypeOK
    <2>4. EarningsOnlyWhenPaid'
      BY <1>0, <1>9, <2>1, <2>3 DEF SplitCommit, Records, EarningsOnlyWhenPaid, rowsOutside,
                                    orderRow
    <2>5. Records'
      BY <1>0, <1>9, <2>4 DEF SplitCommit, rowsOutside, orderRow, history, Records,
         StatusReached, JobsPaid, StagesInOrder, CarrierWasOffered, CashOnlyFromDelivery
    <2> QED
      BY <1>0, <1>9, <2>2, <2>5, IdleBacked DEF SplitCommit
  <1>10. ASSUME CancelCommit(t) PROVE Grows /\ Records' /\ Backed(req[t])'
    <2>1. q.order \in Orders /\ q.cash \in BOOLEAN
      BY <1>0, <1>10 DEF CancelCommit, At, Request, WellFormed, Ops
    <2>2. \A o \in Orders, r \in Riders : offer[o][r] # "none" => offer'[o][r] # "none"
      BY <1>0, <1>10 DEF CancelCommit, TInv, TypeOK
    <2>3. Grows
      BY <1>0, <1>10, <2>2 DEF CancelCommit, WriteStatus, Grows, TInv, TypeOK
    <2>4. StatusReached' /\ JobsPaid' /\ StagesInOrder'
      BY <1>0, <1>10, <2>1 DEF CancelCommit, WriteStatus, FlushOf, TInv, TypeOK,
         Records, StatusReached, JobsPaid, StagesInOrder
    <2>5. CarrierWasOffered'
      BY <1>0, <1>10, <2>1, <2>2 DEF CancelCommit, WriteStatus, TInv, TypeOK,
         Records, CarrierWasOffered
    <2>6. EarningsOnlyWhenPaid'
      BY <1>0, <1>10, <2>1 DEF CancelCommit, Voided, TInv, TypeOK, Records, EarningsOnlyWhenPaid
    <2>7. \A o \in Orders : /\ cash'[o] => cash[o]
                            /\ credited'[o] \in {credited[o], NoRider}
                            /\ reached[o] \subseteq reached'[o]
      <3>1. \A o \in Orders : cash'[o] => cash[o]
        <4> SUFFICES ASSUME NEW o \in Orders, cash'[o] PROVE cash[o]
          OBVIOUS
        <4>1. CASE o # q.order
          BY <1>0, <1>10, <4>1 DEF CancelCommit, TInv, TypeOK
        <4>2. CASE o = q.order
          <5>1. cash'[o] = FlushOf(q.cash, FALSE, cash[o])
            BY <1>0, <1>10, <4>2 DEF CancelCommit, TInv, TypeOK
          <5> QED
            BY <5>1, <2>1 DEF FlushOf
        <4> QED
          BY <4>1, <4>2
      <3>2. \A o \in Orders : /\ credited'[o] \in {credited[o], NoRider}
                              /\ reached[o] \subseteq reached'[o]
        BY <1>0, <1>10 DEF CancelCommit, WriteStatus, TInv, TypeOK
      <3> QED
        BY <3>1, <3>2
    <2>8. CashOnlyFromDelivery'
      BY <1>0, <2>7 DEF Records, CashOnlyFromDelivery
    <2> QED
      BY <1>0, <1>10, <2>3, <2>4, <2>5, <2>6, <2>8, IdleBacked DEF CancelCommit, Records
  <1>11. \E n : Goto(t, n)
    BY DEF Proceed, HotelCommit, BroadcastRead, OffersRead, OffersCommit, AcceptCommit,
           RejectCommit, PickUpCommit, CompleteCommit, SplitRead, SplitCommit, CancelCommit,
           Finish
  <1>12. Grows /\ Records' /\ Backed(req[t])'
    BY <1>1, <1>2, <1>3, <1>4, <1>5, <1>6, <1>7, <1>8, <1>9, <1>10 DEF Proceed
  <1> QED
    BY <1>0, <1>11, <1>12, OthersStayBacked

(* Every step keeps it.                                                       *)
LEMMA LifecycleStep == Lifecycle /\ [Next]_vars => Lifecycle'
  <1> SUFFICES ASSUME Lifecycle, [Next]_vars PROVE Lifecycle'
    OBVIOUS
  <1>0. TInv /\ AllBacked /\ Records /\ TInv'
    BY TypeStep DEF Lifecycle
  <1>1. ASSUME NEW t \in Threads, Arrive(t) PROVE Lifecycle'
    BY <1>0, <1>1, LifecycleArrive DEF Lifecycle
  <1>2. ASSUME NEW t \in Threads, Proceed(t) PROVE Lifecycle'
    BY <1>0, <1>2, LifecycleProceed DEF Lifecycle
  <1>3. ASSUME NEW t \in Threads, Fail(t) PROVE Lifecycle'
    <2>1. Grows /\ Records'
      BY <1>0, <1>3, ReadsKeepRecords DEF Fail
    <2>2. Backed(req[t])'
      BY <1>0, <1>3, IdleBacked DEF Fail
    <2>3. AllBacked'
      BY <1>0, <1>3, <2>1, <2>2, OthersStayBacked DEF Fail, Finish
    <2> QED
      BY <1>0, <2>1, <2>3 DEF Lifecycle
  <1>4. ASSUME NEW o \in Orders, IssueOtp(o) \/ ExpireOtp(o) PROVE Lifecycle'
    BY <1>0, <1>4 DEF IssueOtp, ExpireOtp, Lifecycle, AllBacked, Backed, HotelMaySet, Records,
       StatusReached, JobsPaid, StagesInOrder, CarrierWasOffered, EarningsOnlyWhenPaid,
       CashOnlyFromDelivery, earnings, history
  <1>5. ASSUME SettleHotel \/ \E r \in Riders : SettleRider(r) PROVE Lifecycle'
    <2>1. \A o \in Orders : /\ hotelEarning[o] = "none" => hotelEarning'[o] = "none"
                            /\ riderEarning[o] = "none" => riderEarning'[o] = "none"
      BY <1>0, <1>5 DEF SettleHotel, SettleRider, TInv, TypeOK
    <2>2. EarningsOnlyWhenPaid'
      BY <1>0, <1>5, <2>1 DEF SettleHotel, SettleRider, Records, EarningsOnlyWhenPaid,
                              rowsOutside, orderRow
    <2>3. Records'
      BY <1>0, <1>5, <2>2 DEF SettleHotel, SettleRider, Records, StatusReached, JobsPaid,
         StagesInOrder, CarrierWasOffered, CashOnlyFromDelivery, rowsOutside, orderRow, history
    <2>4. AllBacked'
      BY <1>0, <1>5 DEF SettleHotel, SettleRider, AllBacked, Backed, HotelMaySet,
                        rowsOutside, orderRow, history
    <2> QED
      BY <1>0, <2>3, <2>4 DEF Lifecycle
  <1>6. CASE UNCHANGED vars
    BY <1>0, <1>6 DEF vars, Lifecycle, AllBacked, Backed, HotelMaySet, Records, StatusReached,
       JobsPaid, StagesInOrder, CarrierWasOffered, EarningsOnlyWhenPaid,
       CashOnlyFromDelivery, orderRow, earnings, history
  <1> QED
    BY <1>1, <1>2, <1>3, <1>4, <1>5, <1>6 DEF Next

(* So it holds for ever.                                                      *)
LEMMA LifecycleAlways == Spec => []Lifecycle
  BY LifecycleInit, LifecycleStep, PTL DEF Spec

(* However many handlers race on stale readings, no order is ready before the *)
(* restaurant accepted it, picked up before ready or delivered before that.   *)
THEOREM StagesCorrect == Spec => []StagesInOrder
  <1>1. Lifecycle => StagesInOrder
    BY DEF Lifecycle, Records
  <1> QED
    BY LifecycleAlways, <1>1, PTL

(* accept_offer never gives an order to a rider it was not offered to, and no *)
(* race of acceptances, pick-ups and cancellations loses an order's rider.    *)
THEOREM CarrierCorrect == Spec => []CarrierWasOffered
  <1>1. Lifecycle => CarrierWasOffered
    BY DEF Lifecycle, Records
  <1> QED
    BY LifecycleAlways, <1>1, PTL

(* process_payment_split, in the background or after a delivery, never books  *)
(* an earning for an order that is not paid.                                  *)
THEOREM EarningsCorrect == Spec => []EarningsOnlyWhenPaid
  <1>1. Lifecycle => EarningsOnlyWhenPaid
    BY DEF Lifecycle, Records
  <1> QED
    BY LifecycleAlways, <1>1, PTL

(* complete_delivery and cancel_order, whatever they overwrite, leave no cash *)
(* and no payout recorded for an order that never was delivered.              *)
THEOREM CashCorrect == Spec => []CashOnlyFromDelivery
  <1>1. Lifecycle => CashOnlyFromDelivery
    BY DEF Lifecycle, Records
  <1> QED
    BY LifecycleAlways, <1>1, PTL

-----------------------------------------------------------------------------
(* What a step may never do to a settled row.                                 *)
SettledStay ==
  \A o \in Orders :
    /\ hotelEarning[o] = "settled" => hotelEarning'[o] = "settled"
    /\ riderEarning[o] = "settled" => riderEarning'[o] = "settled" /\ earner'[o] = earner[o]

(* No step does it.                                                           *)
LEMMA SettledStep == TInv /\ [Next]_vars => [SettledStay]_vars
  <1> SUFFICES ASSUME TInv, Next PROVE SettledStay
    BY DEF vars
  <1>1. ASSUME UNCHANGED earnings PROVE SettledStay
    BY <1>1 DEF earnings, SettledStay
  <1>2. ASSUME NEW t \in Threads, SplitCommit(t) PROVE SettledStay
    <2>1. CASE UNCHANGED earnings
      BY <2>1, <1>1
    <2>2. CASE /\ "hotel" \in req[t].due => hotelEarning[req[t].order] = "none"
               /\ "rider" \in req[t].due => riderEarning[req[t].order] = "none"
      BY <1>2, <2>2 DEF SplitCommit, SettledStay, earnings, TInv, TypeOK
    <2> QED
      BY <1>2, <2>1, <2>2 DEF SplitCommit, Duplicate
  <1>3. ASSUME NEW t \in Threads, CancelCommit(t) PROVE SettledStay
    BY <1>3 DEF CancelCommit, Voided, SettledStay, TInv, TypeOK
  <1>4. ASSUME SettleHotel \/ \E r \in Riders : SettleRider(r) PROVE SettledStay
    BY <1>4 DEF SettleHotel, SettleRider, SettledStay, TInv, TypeOK
  <1>5. ASSUME NEW t \in Threads, Arrive(t) PROVE SettledStay
    BY <1>1, <1>5 DEF Arrive, HotelRead, PollRead, AcceptRead, RejectRead, PickUpRead,
       CompleteRead, SplitStart, CancelRead, rowsOnly
  <1>6. ASSUME NEW t \in Threads, Proceed(t) PROVE SettledStay
    BY <1>1, <1>2, <1>3, <1>6 DEF Proceed, HotelCommit, BroadcastRead, OffersRead,
       OffersCommit, AcceptCommit, RejectCommit, PickUpCommit, CompleteCommit, SplitRead,
       rowsOnly
  <1> QED
    BY <1>1, <1>4, <1>5, <1>6 DEF Next, Fail, IssueOtp, ExpireOtp

(* settle_*_earnings, cancel_order and any number of splits of the same order *)
(* never remove, reopen or reassign an earning that has been paid out.        *)
THEOREM SettledCorrect == Spec => SettledIsFinal
  BY TypeInit, TypeStep, SettledStep, PTL DEF Spec, SettledIsFinal, SettledStay

-----------------------------------------------------------------------------
(* With one worker what a request has read about the offers is still true     *)
(* when it commits.                                                           *)
Fresh(q) ==
  /\ q.op = "accept" => rider[q.order] = NoRider
  /\ q.op = "offers" => \A x \in q.pairs : rider[x[1]] = NoRider
  /\ q.op = "upsert" => \A x \in q.pairs \cup q.fresh : rider[x[1]] = NoRider

(* The inductive invariant of the lock: readings in flight are fresh.         *)
LockInv == TInv /\ ExclusiveLock /\ \A t \in Threads : Fresh(req[t])

(* No order has a rider at first.                                             *)
LEMMA LockInit == Init => LockInv
  <1> SUFFICES ASSUME Init PROVE LockInv
    OBVIOUS
  <1>1. ExclusiveLock
    BY DEF Init, ExclusiveLock
  <1>2. \A t \in Threads : Fresh(req[t])
    BY DEF Init, Fresh, Idle
  <1> QED
    BY <1>1, <1>2, TypeInit DEF LockInv

(* What the steps of the only worker do to the lock. *)
LEMMA LockArrive ==
  ASSUME LockInv, TInv', NEW t \in Threads, \A u \in Threads : u = t, Arrive(t)
  PROVE  LockInv'
  <1>0. TInv /\ ExclusiveLock
    BY DEF LockInv
  <1>1. ExclusiveLock'
    BY <1>0 DEF ExclusiveLock, Arrive, HotelRead, PollRead, AcceptRead, RejectRead, PickUpRead,
       CompleteRead, SplitStart, CancelRead, rowsOnly, rowsOutside, orderRow
  <1>2. Fresh(req[t])'
    <2>1. ASSUME NEW r \in Riders, PollRead(t, r) PROVE Fresh(req[t])'
      <3> DEFINE open == {o \in Orders : IsOpen(o)}
                 n == [Idle EXCEPT !.op = "offers", !.rider = r, !.pairs = open \X {r}]
      <3>1. req'[t] = n
        BY <1>0, <2>1 DEF PollRead, Goto, TInv, TypeOK
      <3>2. \A x \in open \X {r} : rider[x[1]] = NoRider
        BY DEF IsOpen
      <3>3. rider' = rider
        BY <2>1 DEF PollRead, rowsOnly, orderRow
      <3>4. n.op = "offers" /\ n.pairs = open \X {r}
        BY DEF Idle
      <3> HIDE DEF open, n
      <3> QED
        BY <3>1, <3>2, <3>3, <3>4 DEF Fresh
    <2>2. ASSUME NEW r \in Riders, NEW o \in Orders, AcceptRead(t, r, o)
          PROVE  Fresh(req[t])'
      BY <1>0, <2>2 DEF AcceptRead, IsOpen, Goto, Idle, Fresh, rowsOnly, orderRow, TInv, TypeOK
    <2>3. ASSUME req'[t].op \notin {"accept", "offers", "upsert"} PROVE Fresh(req[t])'
      BY <2>3 DEF Fresh
    <2>4. ASSUME NEW o \in Orders, NEW want \in HotelSettable, HotelRead(t, o, want)
          PROVE  req'[t].op = "hotel"
      BY <1>0, <2>4 DEF HotelRead, Goto, Idle, TInv, TypeOK
    <2>5. ASSUME NEW o \in Orders, NEW r \in Riders, RejectRead(t, r, o) PROVE req'[t].op = "reject"
      BY <1>0, <2>5 DEF RejectRead, Goto, Idle, TInv, TypeOK
    <2>6. ASSUME NEW o \in Orders, PickUpRead(t, o) PROVE req'[t].op = "pickup"
      BY <1>0, <2>6 DEF PickUpRead, Goto, Idle, TInv, TypeOK
    <2>7. ASSUME NEW o \in Orders, NEW c \in BOOLEAN, CompleteRead(t, o, c)
          PROVE  req'[t].op = "complete"
      BY <1>0, <2>7 DEF CompleteRead, Goto, Idle, TInv, TypeOK
    <2>8. ASSUME NEW o \in Orders, SplitStart(t, o) PROVE req'[t].op = "split"
      BY <1>0, <2>8 DEF SplitStart, Goto, Idle, TInv, TypeOK
    <2>9. ASSUME NEW o \in Orders, CancelRead(t, o) PROVE req'[t].op = "cancel"
      BY <1>0, <2>9 DEF CancelRead, Goto, Idle, TInv, TypeOK
    <2> QED
      BY <2>1, <2>2, <2>3, <2>4, <2>5, <2>6, <2>7, <2>8, <2>9 DEF Arrive
  <1> QED
    BY <1>1, <1>2 DEF LockInv

(* The next step of the only request in flight.                               *)
LEMMA LockProceed ==
  ASSUME LockInv, TInv', NEW t \in Threads, \A u \in Threads : u = t, Proceed(t)
  PROVE  LockInv'
  <1> DEFINE q == req[t]
  <1>0. TInv /\ ExclusiveLock /\ Fresh(q) /\ q \in Request /\ WellFormed(q)
    BY DEF LockInv, TInv, TypeOK, Shape
  <1>1. ASSUME OffersRead(t) PROVE LockInv'
    <2>1. ExclusiveLock'
      BY <1>0, <1>1 DEF ExclusiveLock, OffersRead, rowsOnly, orderRow
    <2>2. \A x \in q.pairs : rider[x[1]] = NoRider
      BY <1>0, <1>1 DEF OffersRead, At, Fresh
    <2>3. /\ req'[t].op = "upsert"
          /\ req'[t].pairs \cup req'[t].fresh \subseteq q.pairs
      BY <1>0, <1>1 DEF OffersRead, Goto, Request, TInv, TypeOK
    <2>4. rider' = rider
      BY <1>1 DEF OffersRead, rowsOnly, orderRow
    <2>5. Fresh(req[t])'
      BY <2>2, <2>3, <2>4 DEF Fresh
    <2> QED
      BY <2>1, <2>5 DEF LockInv
  <1>2. ASSUME BroadcastRead(t) PROVE LockInv'
    <2> DEFINE n == [Idle EXCEPT !.op = "offers", !.pairs = {q.order} \X Riders]
    <2>1. ExclusiveLock' /\ rider' = rider
      BY <1>0, <1>2 DEF ExclusiveLock, BroadcastRead, rowsOnly, orderRow
    <2>2. CASE req'[t] = Idle
      BY <2>1, <2>2 DEF Fresh, Idle, LockInv
    <2>3. CASE req'[t] = n /\ rider[q.order] = NoRider
      <3>1. n.op = "offers" /\ \A x \in n.pairs : rider[x[1]] = NoRider
        BY <2>3 DEF Idle
      <3> HIDE DEF n
      <3> QED
        BY <2>1, <2>3, <3>1 DEF Fresh, LockInv
    <2> QED
      BY <1>0, <1>2, <2>2, <2>3 DEF BroadcastRead, IsOpen, Goto, Finish, TInv, TypeOK
  <1>3. ASSUME req'[t].op \notin {"accept", "offers", "upsert"}, ExclusiveLock' PROVE LockInv'
    BY <1>3 DEF Fresh, LockInv
  <1>4. ASSUME OffersCommit(t) PROVE LockInv'
    <2>1. \A x \in q.fresh \cup q.pairs : rider[x[1]] = NoRider
      BY <1>0, <1>4 DEF OffersCommit, At, Fresh
    <2>2. \A o \in Orders, r \in Riders :
            offer'[o][r] = offer[o][r] \/ (offer'[o][r] = "offered" /\ rider[o] = NoRider)
      BY <1>0, <1>4, <2>1 DEF OffersCommit, TInv, TypeOK
    <2>3. ExclusiveLock'
      BY <1>0, <1>4, <2>2 DEF OffersCommit, ExclusiveLock, rowsOnly, orderRow
    <2>4. req'[t].op = "idle"
      BY <1>0, <1>4 DEF OffersCommit, Finish, Goto, Idle, TInv, TypeOK
    <2> QED
      BY <1>3, <2>3, <2>4
  <1>5. ASSUME AcceptCommit(t) PROVE LockInv'
    <2>1. q.order \in Orders /\ q.rider \in Riders /\ rider[q.order] = NoRider
      BY <1>0, <1>5 DEF AcceptCommit, At, WellFormed, Ops, Fresh
    <2>2. /\ \A o \in Orders : rider'[o] = IF o = q.order THEN q.rider ELSE rider[o]
          /\ \A o \in Orders, r \in Riders :
               IF o = q.order
               THEN offer'[o][r] = IF r = q.rider THEN "accepted"
                                   ELSE IF offer[o][r] = "offered" THEN "superseded"
                                   ELSE offer[o][r]
               ELSE offer'[o][r] = offer[o][r]
      BY <1>0, <1>5, <2>1 DEF AcceptCommit, Superseded, TInv, TypeOK
    <2>3. \A r \in Riders : offer[q.order][r] # "accepted"
      BY <1>0, <2>1, StoreAssumption DEF ExclusiveLock
    <2>4. ExclusiveLock'
      BY <1>0, <2>1, <2>2, <2>3 DEF ExclusiveLock
    <2>5. req'[t].op = "idle"
      BY <1>0, <1>5 DEF AcceptCommit, Finish, Goto, Idle, TInv, TypeOK
    <2> QED
      BY <1>3, <2>4, <2>5
  <1>6. ASSUME RejectCommit(t) \/ CancelCommit(t) PROVE LockInv'
    <2>1. \A o \in Orders, r \in Riders :
            offer'[o][r] = offer[o][r] \/ offer'[o][r] \in {"rejected", "cancelled"}
      <3>1. CASE RejectCommit(t)
        BY <1>0, <3>1 DEF RejectCommit, TInv, TypeOK
      <3>2. CASE CancelCommit(t)
        BY <1>0, <3>2 DEF CancelCommit, TInv, TypeOK
      <3> QED
        BY <1>6, <3>1, <3>2
    <2>2. rider' = rider /\ Finish(t)
      BY <1>6 DEF RejectCommit, CancelCommit, rowsOnly, orderRow
    <2>3. ExclusiveLock'
      BY <1>0, <2>1, <2>2 DEF ExclusiveLock
    <2> QED
      BY <1>0, <1>3, <2>2, <2>3 DEF Finish, Goto, Idle, TInv, TypeOK
  <1>7. ASSUME \/ HotelCommit(t) \/ PickUpCommit(t) \/ CompleteCommit(t)
               \/ SplitRead(t) \/ SplitCommit(t)
        PROVE  LockInv'
    <2>1. ExclusiveLock'
      BY <1>0, <1>7 DEF HotelCommit, PickUpCommit, CompleteCommit, SplitRead, SplitCommit,
         ExclusiveLock, rowsOutside, orderRow
    <2>2. ASSUME Finish(t) PROVE req'[t].op = "idle"
      BY <1>0, <2>2 DEF Finish, Goto, Idle, TInv, TypeOK
    <2>3. ASSUME HotelCommit(t), ~ Finish(t) PROVE req'[t].op = "dispatch"
      <3>1. Goto(t, [Idle EXCEPT !.op = "dispatch", !.order = q.order])
        BY <2>3 DEF HotelCommit
      <3> QED
        BY <1>0, <3>1 DEF Goto, Idle, TInv, TypeOK
    <2>4. ASSUME CompleteCommit(t) PROVE req'[t].op = "split"
      BY <1>0, <2>4 DEF CompleteCommit, Goto, Idle, TInv, TypeOK
    <2>5. ASSUME SplitRead(t) PROVE req'[t].op = "ledger"
      BY <1>0, <2>5 DEF SplitRead, Goto, Idle, TInv, TypeOK
    <2> QED
      BY <1>3, <1>7, <2>1, <2>2, <2>3, <2>4, <2>5 DEF PickUpCommit, SplitCommit
  <1> QED
    BY <1>1, <1>2, <1>4, <1>5, <1>6, <1>7 DEF Proceed

(* accept_offer gives an order to one rider alone, for any number of orders   *)
(* and riders, when requests are served one at a time: what it lacks is a     *)
(* lock on the order, not a check.                                            *)
THEOREM SerialLock ==
  ASSUME \A t, u \in Threads : t = u
  PROVE  Spec => []ExclusiveLock
  <1>1. LockInv /\ [Next]_vars => LockInv'
    <2> SUFFICES ASSUME LockInv, [Next]_vars PROVE LockInv'
      OBVIOUS
    <2>0. TInv /\ TInv'
      BY TypeStep DEF LockInv
    <2>1. ASSUME NEW t \in Threads, Arrive(t) PROVE LockInv'
      BY <2>0, <2>1, LockArrive
    <2>2. ASSUME NEW t \in Threads, Proceed(t) PROVE LockInv'
      BY <2>0, <2>2, LockProceed
    <2>3. ASSUME NEW t \in Threads, Fail(t) PROVE LockInv'
      BY <2>0, <2>3 DEF Fail, Finish, Goto, Idle, Fresh, ExclusiveLock, LockInv, orderRow,
                        TInv, TypeOK
    <2>4. CASE UNCHANGED <<rider, offer, req>>
      BY <2>0, <2>4 DEF LockInv, Fresh, ExclusiveLock
    <2> QED
      BY <2>1, <2>2, <2>3, <2>4 DEF Next, IssueOtp, ExpireOtp, SettleHotel, SettleRider,
         rowsOutside, vars, orderRow
  <1>2. LockInv => ExclusiveLock
    BY DEF LockInv
  <1> QED
    BY LockInit, <1>1, <1>2, PTL DEF Spec

-----------------------------------------------------------------------------
(* With one worker a request still finds what it has read: an open order and  *)
(* a rider with nothing in hand to accept it, the status it goes on from, and *)
(* the rider whose wallet and earning it writes.                              *)
Steady(q) ==
  /\ q.op = "accept" =>
       /\ IsOpen(q.order)
       /\ \/ q.rider \in MultiRiders
          \/ \A p \in Orders : rider[p] = q.rider => status[p] \notin ActiveStatus
  /\ q.op = "hotel" => q.was = status[q.order] /\ HotelMaySet(q.was, q.want)
  /\ q.op = "pickup" => status[q.order] = "ready"
  /\ q.op = "complete" => status[q.order] = "picked_up" /\ q.rider = rider[q.order]
  /\ q.op = "ledger" => q.rider = rider[q.order]

(* An order with a rider is past pending, and only such a one has an earning. *)
Held ==
  \A o \in Orders : /\ rider[o] # NoRider => status[o] # "pending"
                    /\ riderEarning[o] # "none" => rider[o] # NoRider

(* The inductive invariant of who carries and who earns.                      *)
CarrierInv ==
  TInv /\ EarnerIsCarrier /\ OneActiveOrder /\ Held /\ \A t \in Threads : Steady(req[t])

(* The orders of one request: nobody's order, or one that was active, becomes *)
(* active.                                                                    *)
LEMMA ActiveKeeps ==
  ASSUME TInv, TInv', OneActiveOrder, UNCHANGED rider,
         \A o \in Orders : status'[o] \in ActiveStatus /\ rider[o] # NoRider => status[o] \in ActiveStatus
  PROVE  OneActiveOrder'
  <1> SUFFICES ASSUME NEW r \in Riders \ MultiRiders, NEW o \in Orders, NEW p \in Orders,
                      rider[o] = r, rider[p] = r, status'[o] \in ActiveStatus, status'[p] \in ActiveStatus
               PROVE  o = p
    BY DEF OneActiveOrder
  <1>1. status[o] \in ActiveStatus /\ status[p] \in ActiveStatus
    BY StoreAssumption
  <1> QED
    BY <1>1 DEF OneActiveOrder

(* A step that writes none of the rows, and leaves one steady request.        *)
LEMMA SteadyRead ==
  ASSUME CarrierInv, TInv', NEW t \in Threads, \A u \in Threads : u = t,
         UNCHANGED <<status, rider, riderEarning, earner, credited>>, Steady(req[t])'
  PROVE  CarrierInv'
  BY DEF CarrierInv, EarnerIsCarrier, OneActiveOrder, Held

(* The reads of the only worker.                                             *)
LEMMA CarrierArrive ==
  ASSUME CarrierInv, TInv', NEW t \in Threads, \A u \in Threads : u = t, Arrive(t)
  PROVE  CarrierInv'
  <1>0. TInv /\ req \in [Threads -> Request]
    BY DEF CarrierInv, TInv, TypeOK
  <1>1. UNCHANGED <<status, rider, riderEarning, earner, credited>>
    BY DEF Arrive, HotelRead, PollRead, AcceptRead, RejectRead, PickUpRead, CompleteRead, SplitStart,
       CancelRead, rowsOnly, rowsOutside, orderRow, earnings, history
  <1>2. ASSUME NEW n, Goto(t, n), n.op \notin {"accept", "hotel", "pickup", "complete", "ledger"}
        PROVE  Steady(req[t])'
    BY <1>0, <1>2 DEF Goto, Steady
  <1>3. ASSUME NEW o \in Orders, NEW want \in HotelSettable, HotelRead(t, o, want) PROVE Steady(req[t])'
    BY <1>0, <1>1, <1>3 DEF HotelRead, Goto, Idle, Steady
  <1>4. ASSUME NEW r \in Riders, PollRead(t, r) PROVE Steady(req[t])'
    <2> DEFINE n == [Idle EXCEPT !.op = "offers", !.rider = r, !.pairs = {o \in Orders : IsOpen(o)} \X {r}]
    <2>1. Goto(t, n) /\ n.op = "offers"
      BY <1>4 DEF PollRead, Idle
    <2> HIDE DEF n
    <2> QED
      BY <1>2, <2>1
  <1>5. ASSUME NEW r \in Riders, NEW o \in Orders, AcceptRead(t, r, o) PROVE Steady(req[t])'
    <2>1. req'[t].op = "accept" /\ req'[t].order = o /\ req'[t].rider = r
      BY <1>0, <1>5 DEF AcceptRead, Goto, Idle
    <2>2. IsOpen(o) /\ (IsBusy(r) => r \in MultiRiders)
      BY <1>5 DEF AcceptRead
    <2> QED
      BY <1>1, <2>1, <2>2 DEF Steady, IsOpen, IsBusy
  <1>6. ASSUME NEW o \in Orders, NEW r \in Riders, RejectRead(t, r, o) PROVE Steady(req[t])'
    BY <1>0, <1>6 DEF RejectRead, Goto, Idle, Steady
  <1>7. ASSUME NEW o \in Orders, PickUpRead(t, o) PROVE Steady(req[t])'
    BY <1>0, <1>1, <1>7 DEF PickUpRead, Goto, Idle, Steady
  <1>8. ASSUME NEW o \in Orders, NEW c \in BOOLEAN, CompleteRead(t, o, c) PROVE Steady(req[t])'
    <2>1. req'[t].op = "complete" /\ req'[t].order = o /\ req'[t].rider = rider[o]
      BY <1>0, <1>8 DEF CompleteRead, Goto, Idle
    <2>2. status[o] = "picked_up"
      BY <1>8 DEF CompleteRead
    <2> QED
      BY <1>1, <2>1, <2>2 DEF Steady
  <1>9. ASSUME NEW o \in Orders, SplitStart(t, o) PROVE Steady(req[t])'
    BY <1>0, <1>9 DEF SplitStart, Goto, Idle, Steady
  <1>10. ASSUME NEW o \in Orders, CancelRead(t, o) PROVE Steady(req[t])'
    <2>1. req'[t].op = "cancel"
      BY <1>0, <1>10 DEF CancelRead, Goto, Idle
    <2> QED
      BY <2>1 DEF Steady
  <1>11. Steady(req[t])'
    BY <1>3, <1>4, <1>5, <1>6, <1>7, <1>8, <1>9, <1>10 DEF Arrive
  <1> QED
    BY <1>1, <1>11, SteadyRead

(* Its writes.                                                               *)
LEMMA CarrierProceed ==
  ASSUME CarrierInv, TInv', NEW t \in Threads, \A u \in Threads : u = t, Proceed(t)
  PROVE  CarrierInv'
  <1> DEFINE q == req[t]
  <1>0. /\ TInv /\ EarnerIsCarrier /\ OneActiveOrder /\ Held /\ Steady(q)
        /\ q \in Request /\ WellFormed(q) /\ req \in [Threads -> Request]
    BY DEF CarrierInv, TInv, TypeOK, Shape
  <1>1. ASSUME req'[t].op \in {"idle", "dispatch", "split", "offers", "upsert"} PROVE Steady(req[t])'
    BY <1>1 DEF Steady
  <1>2. ASSUME Finish(t) PROVE req'[t].op = "idle"
    BY <1>0, <1>2 DEF Finish, Goto, Idle
  <1>3. ASSUME BroadcastRead(t) PROVE CarrierInv'
    <2>1. req'[t].op \in {"idle", "offers"}
      <3>1. CASE Finish(t)
        BY <1>2, <3>1
      <3>2. CASE Goto(t, [Idle EXCEPT !.op = "offers", !.pairs = {q.order} \X Riders])
        BY <1>0, <3>2 DEF Goto, Idle
      <3> QED
        BY <1>3, <3>1, <3>2 DEF BroadcastRead
    <2> QED
      BY <1>1, <1>3, <2>1, SteadyRead DEF BroadcastRead, rowsOnly, orderRow, earnings, history
  <1>4. ASSUME OffersRead(t) PROVE CarrierInv'
    <2>1. req'[t].op = "upsert"
      BY <1>0, <1>4 DEF OffersRead, Goto, Request
    <2> QED
      BY <1>1, <1>4, <2>1, SteadyRead DEF OffersRead, rowsOnly, orderRow, earnings, history
  <1>5. ASSUME OffersCommit(t) \/ RejectCommit(t) PROVE CarrierInv'
    BY <1>1, <1>2, <1>5, SteadyRead DEF OffersCommit, RejectCommit, rowsOnly, orderRow, earnings, history
  <1>6. ASSUME SplitRead(t) PROVE CarrierInv'
    <2>1. /\ req'[t].op = "ledger" /\ req'[t].order = q.order /\ req'[t].rider = rider[q.order]
          /\ UNCHANGED rider
      BY <1>0, <1>6 DEF SplitRead, Goto, Idle, rowsOutside, orderRow
    <2>2. Steady(req[t])'
      BY <2>1 DEF Steady
    <2> QED
      BY <1>6, <2>2, SteadyRead DEF SplitRead, rowsOutside, orderRow, earnings, history
  <1>7. ASSUME HotelCommit(t) PROVE CarrierInv'
    <2>1. /\ q.order \in Orders /\ q.was = status[q.order] /\ HotelMaySet(q.was, q.want)
          /\ UNCHANGED <<rider, riderEarning, earner, credited>>
      BY <1>0, <1>7 DEF HotelCommit, At, Steady, WellFormed, Ops, earnings
    <2>2. \A o \in Orders : status'[o] = IF o = q.order THEN q.want ELSE status[o]
      BY <1>0, <1>7, <2>1 DEF HotelCommit, WriteStatus, FlushOf, TInv, TypeOK
    <2>3. q.want \in {"accepted", "ready", "cancelled"} /\ (q.want = "accepted" => q.was = "pending")
          /\ (q.want = "ready" => q.was \in {"accepted", "ready"})
      BY <2>1 DEF HotelMaySet, HotelSettable
    <2>4. \A o \in Orders : status'[o] \in ActiveStatus /\ rider[o] # NoRider => status[o] \in ActiveStatus
      BY <1>0, <2>1, <2>2, <2>3 DEF Held, ActiveStatus
    <2>5. OneActiveOrder'
      BY <1>0, <2>1, <2>4, ActiveKeeps
    <2>6. EarnerIsCarrier' /\ Held'
      BY <1>0, <2>1, <2>2, <2>3 DEF EarnerIsCarrier, Held
    <2>7. req'[t].op \in {"idle", "dispatch"}
      <3>1. CASE Finish(t)
        BY <1>2, <3>1
      <3>2. CASE Goto(t, [Idle EXCEPT !.op = "dispatch", !.order = q.order])
        BY <1>0, <3>2 DEF Goto, Idle
      <3> QED
        BY <1>7, <3>1, <3>2 DEF HotelCommit
    <2> QED
      BY <1>1, <2>5, <2>6, <2>7 DEF CarrierInv
  <1>8. ASSUME AcceptCommit(t) PROVE CarrierInv'
    <2>1. /\ q.order \in Orders /\ q.rider \in Riders /\ rider[q.order] = NoRider
          /\ status[q.order] \in OpenStatus
          /\ q.rider \in MultiRiders \/ \A p \in Orders : rider[p] = q.rider => status[p] \notin ActiveStatus
      BY <1>0, <1>8 DEF AcceptCommit, At, Steady, IsOpen, WellFormed, Ops
    <2>2. /\ \A o \in Orders : rider'[o] = IF o = q.order THEN q.rider ELSE rider[o]
          /\ UNCHANGED <<status, riderEarning, earner, credited>>
      BY <1>0, <1>8, <2>1 DEF AcceptCommit, earnings, history, TInv, TypeOK
    <2>3. OneActiveOrder'
      <3> SUFFICES ASSUME NEW r \in Riders \ MultiRiders, NEW o \in Orders, NEW p \in Orders,
                          rider'[o] = r, rider'[p] = r, status[o] \in ActiveStatus, status[p] \in ActiveStatus
                   PROVE  o = p
        BY <2>2 DEF OneActiveOrder
      <3>1. CASE r = q.rider
        BY <2>1, <2>2, <3>1
      <3>2. CASE r # q.rider
        BY <1>0, <2>2, <3>2 DEF OneActiveOrder
      <3> QED
        BY <3>1, <3>2
    <2>4. riderEarning[q.order] = "none" /\ credited[q.order] = NoRider
      BY <1>0, <2>1 DEF Held, EarnerIsCarrier
    <2>5. EarnerIsCarrier'
      BY <1>0, <2>2, <2>4 DEF EarnerIsCarrier
    <2>6. Held'
      BY <1>0, <2>1, <2>2, <2>4, StoreAssumption DEF Held, OpenStatus
    <2>7. req'[t].op = "idle"
      BY <1>2, <1>8 DEF AcceptCommit
    <2> QED
      BY <1>1, <2>3, <2>5, <2>6, <2>7 DEF CarrierInv
  <1>9. ASSUME PickUpCommit(t) PROVE CarrierInv'
    <2>1. /\ q.order \in Orders /\ status[q.order] = "ready"
          /\ UNCHANGED <<rider, riderEarning, earner, credited>>
      BY <1>0, <1>9 DEF PickUpCommit, At, Steady, WellFormed, Ops, earnings
    <2>2. \A o \in Orders : status'[o] = IF o = q.order THEN "picked_up" ELSE status[o]
      BY <1>0, <1>9, <2>1 DEF PickUpCommit, WriteStatus, FlushOf, TInv, TypeOK
    <2>3. OneActiveOrder'
      BY <1>0, <2>1, <2>2, ActiveKeeps DEF ActiveStatus
    <2>4. EarnerIsCarrier' /\ Held'
      BY <1>0, <2>1, <2>2 DEF EarnerIsCarrier, Held
    <2>5. req'[t].op = "idle"
      BY <1>2, <1>9 DEF PickUpCommit
    <2> QED
      BY <1>1, <2>3, <2>4, <2>5 DEF CarrierInv
  <1>10. ASSUME CompleteCommit(t) PROVE CarrierInv'
    <2>1. /\ q.order \in Orders /\ status[q.order] = "picked_up" /\ q.rider = rider[q.order]
          /\ UNCHANGED <<rider, riderEarning, earner>>
      BY <1>0, <1>10 DEF CompleteCommit, At, Steady, WellFormed, Ops, earnings
    <2>2. /\ \A o \in Orders : status'[o] = IF o = q.order THEN "delivered" ELSE status[o]
          /\ \A o \in Orders : credited'[o] = IF o = q.order THEN q.rider ELSE credited[o]
      BY <1>0, <1>10, <2>1 DEF CompleteCommit, WriteStatus, FlushOf, TInv, TypeOK
    <2>3. OneActiveOrder'
      BY <1>0, <2>1, <2>2, ActiveKeeps DEF ActiveStatus
    <2>4. EarnerIsCarrier' /\ Held'
      BY <1>0, <2>1, <2>2 DEF EarnerIsCarrier, Held
    <2>5. req'[t].op = "split"
      BY <1>0, <1>10 DEF CompleteCommit, Goto, Idle
    <2> QED
      BY <1>1, <2>3, <2>4, <2>5 DEF CarrierInv
  <1>11. ASSUME SplitCommit(t) PROVE CarrierInv'
    <2>1. /\ q.order \in Orders /\ q.rider = rider[q.order] /\ ("rider" \in q.due => q.rider \in Riders)
          /\ UNCHANGED <<rider, status, credited>>
      BY <1>0, <1>11 DEF SplitCommit, At, Steady, WellFormed, Ops, rowsOutside, orderRow, history
    <2>2. \/ UNCHANGED <<riderEarning, earner>>
          \/ /\ "rider" \in q.due /\ \A o \in Orders \ {q.order} : riderEarning'[o] = riderEarning[o]
             /\ \A o \in Orders : earner'[o] = IF o = q.order THEN q.rider ELSE earner[o]
      BY <1>0, <1>11, <2>1 DEF SplitCommit, earnings, TInv, TypeOK
    <2>3. EarnerIsCarrier' /\ Held' /\ OneActiveOrder'
      BY <1>0, <2>1, <2>2, StoreAssumption DEF EarnerIsCarrier, Held, OneActiveOrder
    <2>4. req'[t].op = "idle"
      BY <1>2, <1>11 DEF SplitCommit
    <2> QED
      BY <1>1, <2>3, <2>4 DEF CarrierInv
  <1>12. ASSUME CancelCommit(t) PROVE CarrierInv'
    <2>1. q.order \in Orders /\ UNCHANGED rider
      BY <1>0, <1>12 DEF CancelCommit, At, WellFormed, Ops
    <2>2. /\ \A o \in Orders : status'[o] \in {status[o], "cancelled"}
          /\ \A o \in Orders : credited'[o] \in {credited[o], NoRider}
          /\ \A o \in Orders \ {q.order} : riderEarning'[o] = riderEarning[o] /\ earner'[o] = earner[o]
          /\ riderEarning'[q.order] \in {riderEarning[q.order], "none"}
          /\ riderEarning'[q.order] # "none" => earner'[q.order] = earner[q.order]
      BY <1>0, <1>12, <2>1 DEF CancelCommit, WriteStatus, FlushOf, Voided, TInv, TypeOK
    <2>3. OneActiveOrder'
      BY <1>0, <2>1, <2>2, ActiveKeeps DEF ActiveStatus
    <2>4. EarnerIsCarrier' /\ Held'
      BY <1>0, <2>1, <2>2 DEF EarnerIsCarrier, Held
    <2>5. req'[t].op = "idle"
      BY <1>2, <1>12 DEF CancelCommit
    <2> QED
      BY <1>1, <2>3, <2>4, <2>5 DEF CarrierInv
  <1> QED
    BY <1>3, <1>4, <1>5, <1>6, <1>7, <1>8, <1>9, <1>10, <1>11, <1>12 DEF Proceed

(* The invariant of one worker.                                              *)
LEMMA CarrierAlways ==
  ASSUME \A t, u \in Threads : t = u
  PROVE  Spec => []CarrierInv
  <1>1. Init => CarrierInv
    <2> SUFFICES ASSUME Init PROVE CarrierInv
      OBVIOUS
    <2>1. OneActiveOrder /\ EarnerIsCarrier /\ Held
      BY StoreAssumption DEF Init, OneActiveOrder, EarnerIsCarrier, Held
    <2>2. \A t \in Threads : Steady(req[t])
      BY DEF Init, Steady, Idle
    <2> QED
      BY <2>1, <2>2, TypeInit DEF CarrierInv
  <1>2. CarrierInv /\ [Next]_vars => CarrierInv'
    <2> SUFFICES ASSUME CarrierInv, [Next]_vars PROVE CarrierInv'
      OBVIOUS
    <2>0. TInv /\ TInv'
      BY TypeStep DEF CarrierInv
    <2>1. ASSUME NEW t \in Threads, Arrive(t) PROVE CarrierInv'
      BY <2>0, <2>1, CarrierArrive
    <2>2. ASSUME NEW t \in Threads, Proceed(t) PROVE CarrierInv'
      BY <2>0, <2>2, CarrierProceed
    <2>3. ASSUME NEW t \in Threads, Fail(t) PROVE CarrierInv'
      <3>1. req'[t] = Idle
        BY <2>0, <2>3 DEF Fail, Finish, Goto, TInv, TypeOK
      <3>2. Steady(req[t])'
        BY <3>1 DEF Idle, Steady
      <3> QED
        BY <2>0, <2>3, <3>2, SteadyRead DEF Fail, orderRow, earnings, history
    <2>4. ASSUME UNCHANGED <<status, rider, earner, credited, req>>,
                 \A o \in Orders : riderEarning'[o] # "none" => riderEarning[o] # "none"
          PROVE  CarrierInv'
      <3>1. \A t \in Threads : Steady(req[t])'
        BY <2>4 DEF CarrierInv, Steady, IsOpen
      <3> QED
        BY <2>0, <2>4, <3>1 DEF CarrierInv, EarnerIsCarrier, OneActiveOrder, Held
    <2>5. ASSUME NEW r \in Riders, SettleRider(r) PROVE CarrierInv'
      BY <2>4, <2>5 DEF SettleRider, rowsOutside, orderRow, history
    <2>6. CASE \/ UNCHANGED vars \/ SettleHotel
               \/ \E o \in Orders : IssueOtp(o) \/ ExpireOtp(o)
      BY <2>4, <2>6 DEF vars, SettleHotel, IssueOtp, ExpireOtp, rowsOutside, orderRow, earnings, history
    <2> QED
      BY <2>1, <2>2, <2>3, <2>5, <2>6 DEF Next
  <1> QED
    BY <1>1, <1>2, PTL DEF Spec

(* For any number of orders and riders, requests served one at a time keep a  *)
(* rider without allow_multiple_orders to one order at a time.                *)
THEOREM SerialRider ==
  ASSUME \A t, u \in Threads : t = u
  PROVE  Spec => []OneActiveOrder
  <1>1. Spec => []CarrierInv
    BY CarrierAlways
  <1>2. CarrierInv => OneActiveOrder
    BY DEF CarrierInv
  <1> QED
    BY <1>1, <1>2, PTL

(* Requests served one at a time keep the ledger and the wallet to the rider  *)
(* who carries the order.                                                     *)
THEOREM SerialEarner ==
  ASSUME \A t, u \in Threads : t = u
  PROVE  Spec => []EarnerIsCarrier
  <1>1. Spec => []CarrierInv
    BY CarrierAlways
  <1>2. CarrierInv => EarnerIsCarrier
    BY DEF CarrierInv
  <1> QED
    BY <1>1, <1>2, PTL

-----------------------------------------------------------------------------
(* With one worker a request still finds the money and the offers it has read *)
(* and no split is in flight for an order that is cancelled, but one that was *)
(* paid online.                                                               *)
Current(q) ==
  /\ q.op = "hotel" => q.was = status[q.order] /\ HotelMaySet(q.was, q.want)
  /\ q.op = "pickup" => status[q.order] = "ready"
  /\ q.op = "accept" => status[q.order] \in OpenStatus
  /\ q.op \in {"offers", "upsert"} => \A x \in q.pairs \cup q.fresh : status[x[1]] \in OpenStatus
  /\ q.op = "complete" =>
       status[q.order] = "picked_up" /\ q.rider = rider[q.order] /\ q.balance = wallet[q.rider]
  /\ q.op = "cancel" =>
       /\ q.was = status[q.order] /\ q.was # "cancelled" /\ q.rider = rider[q.order]
       /\ q.rider # NoRider => q.balance = wallet[q.rider]
       /\ q.cash = cash[q.order]
       /\ \A r \in Riders : offer[q.order][r] \in {"offered", "accepted"} => <<q.order, r>> \in q.pairs
  /\ q.op \in {"split", "ledger"} => q.order \in prepaid \/ status[q.order] = "delivered"

(* The orders a rider is credited for.                                        *)
CreditOf(r) == {o \in Orders : credited[o] = r}

(* The rider of a delivered order is credited for it; an order still on its   *)
(* way has no credit.                                                         *)
CreditInv ==
  /\ jobs \subseteq prepaid
  /\ \A o \in Orders :
       /\ status[o] = "delivered" => credited[o] = rider[o] /\ rider[o] # NoRider
       /\ status[o] \notin {"delivered", "cancelled"} => credited[o] = NoRider
  /\ \A r \in Riders : IsFiniteSet(CreditOf(r))

(* The inductive invariant of wallets, cash and cancellations.                *)
BooksInv ==
  TInv /\ CreditInv /\ WalletAddsUp /\ CancellationIsClean /\ \A t \in Threads : Current(req[t])

(* The rows that the books are about.                                         *)
money == <<status, rider, cash, offer, wallet, earnings, jobs, prepaid, credited, voided>>

(* A step that writes none of these rows, and leaves one current request.    *)
LEMMA CurrentRead ==
  ASSUME BooksInv, TInv', NEW t \in Threads, \A u \in Threads : u = t, UNCHANGED money, Current(req[t])'
  PROVE  BooksInv'
  BY DEF BooksInv, CreditInv, CreditOf, WalletAddsUp, CancellationIsClean, money, earnings

(* The reads of the only worker.                                             *)
LEMMA BooksArrive ==
  ASSUME BooksInv, TInv', NEW t \in Threads, \A u \in Threads : u = t, Arrive(t)
  PROVE  BooksInv'
  <1>0. TInv /\ req \in [Threads -> Request] /\ jobs \subseteq prepaid
    BY DEF BooksInv, CreditInv, TInv, TypeOK
  <1>1. ASSUME UNCHANGED money, Current(req[t])' PROVE BooksInv'
    BY <1>1, CurrentRead
  <1>3. ASSUME NEW o \in Orders, NEW want \in HotelSettable, HotelRead(t, o, want) PROVE BooksInv'
    <2>1. /\ req'[t].op = "hotel" /\ req'[t].order = o /\ req'[t].was = status[o] /\ req'[t].want = want
          /\ HotelMaySet(status[o], want) /\ UNCHANGED money
      BY <1>0, <1>3 DEF HotelRead, Goto, Idle, money, orderRow, history
    <2>2. Current(req[t])'
      BY <2>1 DEF Current, money
    <2> QED
      BY <1>1, <2>1, <2>2
  <1>4. ASSUME NEW r \in Riders, PollRead(t, r) PROVE BooksInv'
    <2> DEFINE open == {o \in Orders : IsOpen(o)}
    <2>1. /\ req'[t].op = "offers" /\ req'[t].pairs = open \X {r} /\ req'[t].fresh = {}
          /\ UNCHANGED money
      BY <1>0, <1>4 DEF PollRead, Goto, Idle, money, rowsOnly, orderRow, history
    <2>2. \A x \in open \X {r} : status[x[1]] \in OpenStatus
      BY DEF IsOpen
    <2> HIDE DEF open
    <2>3. Current(req[t])'
      BY <2>1, <2>2 DEF Current, money
    <2> QED
      BY <1>1, <2>1, <2>3
  <1>5. ASSUME NEW r \in Riders, NEW o \in Orders, AcceptRead(t, r, o) PROVE BooksInv'
    <2>1. /\ req'[t].op = "accept" /\ req'[t].order = o /\ status[o] \in OpenStatus
          /\ UNCHANGED money
      BY <1>0, <1>5 DEF AcceptRead, IsOpen, Goto, Idle, money, rowsOnly, orderRow, history
    <2>2. Current(req[t])'
      BY <2>1 DEF Current, money
    <2> QED
      BY <1>1, <2>1, <2>2
  <1>6. ASSUME NEW o \in Orders, NEW r \in Riders, RejectRead(t, r, o) PROVE BooksInv'
    <2>1. req'[t].op = "reject" /\ UNCHANGED money
      BY <1>0, <1>6 DEF RejectRead, Goto, Idle, money, rowsOnly, orderRow, history
    <2>2. Current(req[t])'
      BY <2>1 DEF Current
    <2> QED
      BY <1>1, <2>1, <2>2
  <1>7. ASSUME NEW o \in Orders, PickUpRead(t, o) PROVE BooksInv'
    <2>1. /\ req'[t].op = "pickup" /\ req'[t].order = o /\ status[o] = "ready"
          /\ UNCHANGED money
      BY <1>0, <1>7 DEF PickUpRead, Goto, Idle, money, orderRow, history
    <2>2. Current(req[t])'
      BY <2>1 DEF Current, money
    <2> QED
      BY <1>1, <2>1, <2>2
  <1>8. ASSUME NEW o \in Orders, NEW c \in BOOLEAN, CompleteRead(t, o, c) PROVE BooksInv'
    <2>1. /\ req'[t].op = "complete" /\ req'[t].order = o /\ req'[t].rider = rider[o]
          /\ req'[t].balance = wallet[rider[o]]
      BY <1>0, <1>8 DEF CompleteRead, Goto, Idle
    <2>2. status[o] = "picked_up" /\ UNCHANGED money
      BY <1>8 DEF CompleteRead, money, orderRow, history
    <2>3. Current(req[t])'
      BY <2>1, <2>2 DEF Current, money
    <2> QED
      BY <1>1, <2>2, <2>3
  <1>9. ASSUME NEW o \in Orders, SplitStart(t, o) PROVE BooksInv'
    <2>1. req'[t].op = "split" /\ req'[t].order = o /\ o \in prepaid
      BY <1>0, <1>9 DEF SplitStart, Goto, Idle
    <2>2. /\ UNCHANGED <<status, rider, cash, offer, wallet, earnings, prepaid, credited, voided>>
          /\ jobs' \subseteq jobs
      BY <1>9 DEF SplitStart, rowsOutside, orderRow, history
    <2>3. Current(req[t])'
      BY <2>1, <2>2 DEF Current
    <2> QED
      BY <2>2, <2>3 DEF BooksInv, CreditInv, CreditOf, WalletAddsUp, CancellationIsClean, earnings
  <1>10. ASSUME NEW o \in Orders, CancelRead(t, o) PROVE BooksInv'
    <2> DEFINE closing == {r \in Riders : offer[o][r] \in {"offered", "accepted"}}
    <2>1. /\ req'[t].op = "cancel" /\ req'[t].order = o /\ req'[t].rider = rider[o]
          /\ req'[t].was = status[o] /\ req'[t].cash = cash[o] /\ req'[t].pairs = {o} \X closing
      BY <1>0, <1>10 DEF CancelRead, Goto, Idle
    <2>2. rider[o] # NoRider => req'[t].balance = wallet[rider[o]]
      BY <1>0, <1>10 DEF CancelRead, Goto, Idle
    <2>3. status[o] # "cancelled" /\ UNCHANGED money
      BY <1>10 DEF CancelRead, money, orderRow, history
    <2>4. \A r \in Riders : offer[o][r] \in {"offered", "accepted"} => <<o, r>> \in {o} \X closing
      OBVIOUS
    <2> HIDE DEF closing
    <2>5. Current(req[t])'
      BY <2>1, <2>2, <2>3, <2>4 DEF Current, money
    <2> QED
      BY <1>1, <2>3, <2>5
  <1> QED
    BY <1>3, <1>4, <1>5, <1>6, <1>7, <1>8, <1>9, <1>10 DEF Arrive

(* A payout is added to, or taken from, one wallet and its order's credit.    *)
LEMMA WalletAdds ==
  ASSUME TInv, WalletAddsUp, NEW o \in Orders, NEW r \in Riders,
         \A x \in Riders : IsFiniteSet(CreditOf(x)), credited[o] = NoRider,
         credited' = [credited EXCEPT ![o] = r], wallet' = [wallet EXCEPT ![r] = wallet[r] + 1]
  PROVE  WalletAddsUp' /\ \A x \in Riders : IsFiniteSet(CreditOf(x)')
  <1>1. CreditOf(r)' = CreditOf(r) \cup {o} /\ o \notin CreditOf(r)
    BY StoreAssumption DEF CreditOf, TInv, TypeOK
  <1>2. \A x \in Riders : x # r => CreditOf(x)' = CreditOf(x)
    BY StoreAssumption DEF CreditOf, TInv, TypeOK
  <1>3. \A x \in Riders : wallet[x] = Cardinality(CreditOf(x))
    BY DEF WalletAddsUp, CreditOf
  <1>4. IsFiniteSet(CreditOf(r) \cup {o}) /\ Cardinality(CreditOf(r) \cup {o}) = Cardinality(CreditOf(r)) + 1
    BY <1>1, FS_AddElement
  <1>5. \A x \in Riders : wallet'[x] = Cardinality(CreditOf(x)')
    BY <1>1, <1>2, <1>3, <1>4 DEF TInv, TypeOK
  <1> QED
    BY <1>1, <1>2, <1>4, <1>5 DEF WalletAddsUp, CreditOf

(* A wallet that gives back one payout for one order no longer credited.      *)
LEMMA WalletTakes ==
  ASSUME TInv, WalletAddsUp, NEW o \in Orders, NEW r \in Riders,
         \A x \in Riders : IsFiniteSet(CreditOf(x)), credited[o] = r,
         credited' = [credited EXCEPT ![o] = NoRider], wallet' = [wallet EXCEPT ![r] = wallet[r] - 1]
  PROVE  WalletAddsUp' /\ \A x \in Riders : IsFiniteSet(CreditOf(x)')
  <1>1. CreditOf(r)' = CreditOf(r) \ {o} /\ o \in CreditOf(r)
    BY StoreAssumption DEF CreditOf, TInv, TypeOK
  <1>2. \A x \in Riders : x # r => CreditOf(x)' = CreditOf(x)
    BY StoreAssumption DEF CreditOf, TInv, TypeOK
  <1>3. \A x \in Riders : wallet[x] = Cardinality(CreditOf(x))
    BY DEF WalletAddsUp, CreditOf
  <1>4. IsFiniteSet(CreditOf(r) \ {o}) /\ Cardinality(CreditOf(r) \ {o}) = Cardinality(CreditOf(r)) - 1
    BY <1>1, FS_RemoveElement
  <1>5. \A x \in Riders : wallet'[x] = Cardinality(CreditOf(x)')
    BY <1>1, <1>2, <1>3, <1>4 DEF TInv, TypeOK
  <1> QED
    BY <1>1, <1>2, <1>4, <1>5 DEF WalletAddsUp, CreditOf

(* Whoever is credited has a payout in his wallet.                            *)
LEMMA CreditedHasPayout ==
  ASSUME TInv, WalletAddsUp, NEW o \in Orders, NEW r \in Riders, credited[o] = r, IsFiniteSet(CreditOf(r))
  PROVE  wallet[r] > 0
  <1>1. wallet[r] = Cardinality(CreditOf(r)) /\ o \in CreditOf(r)
    BY DEF WalletAddsUp, CreditOf
  <1>2. Cardinality(CreditOf(r)) # 0
    BY <1>1, FS_EmptySet
  <1> QED
    BY <1>1, <1>2 DEF TInv, TypeOK

(* Its writes.                                                               *)
LEMMA BooksProceed ==
  ASSUME BooksInv, TInv', NEW t \in Threads, \A u \in Threads : u = t, Proceed(t)
  PROVE  BooksInv'
  <1> DEFINE q == req[t]
  <1>0. /\ TInv /\ CreditInv /\ WalletAddsUp /\ CancellationIsClean /\ Current(q)
        /\ q \in Request /\ WellFormed(q) /\ req \in [Threads -> Request]
    BY DEF BooksInv, TInv, TypeOK, Shape
  <1>1. ASSUME req'[t].op \in {"idle", "dispatch"} PROVE Current(req[t])'
    BY <1>1 DEF Current
  <1>2. ASSUME Finish(t) PROVE Current(req[t])'
    BY <1>0, <1>1, <1>2 DEF Finish, Goto, Idle
  <1>3. ASSUME BroadcastRead(t) PROVE BooksInv'
    <2>1. UNCHANGED money
      BY <1>3 DEF BroadcastRead, money, rowsOnly, orderRow, history
    <2>2. CASE IsOpen(q.order)
      <3>1. /\ req'[t].op = "offers" /\ req'[t].pairs = {q.order} \X Riders /\ req'[t].fresh = {}
            /\ status[q.order] \in OpenStatus
        BY <1>0, <1>3, <2>2 DEF BroadcastRead, Goto, Idle, IsOpen
      <3>2. Current(req[t])'
        BY <2>1, <3>1 DEF Current, money
      <3> QED
        BY <2>1, <3>2, CurrentRead
    <2>3. CASE ~ IsOpen(q.order)
      BY <1>2, <1>3, <2>1, <2>3, CurrentRead DEF BroadcastRead
    <2> QED
      BY <2>2, <2>3
  <1>4. ASSUME OffersRead(t) PROVE BooksInv'
    <2>1. UNCHANGED money /\ q.op = "offers"
      BY <1>4 DEF OffersRead, At, money, rowsOnly, orderRow, history
    <2>2. req'[t].op = "upsert" /\ req'[t].pairs \cup req'[t].fresh \subseteq q.pairs
      BY <1>0, <1>4 DEF OffersRead, Goto, Request
    <2>3. Current(req[t])'
      BY <1>0, <2>1, <2>2 DEF Current, money
    <2> QED
      BY <2>1, <2>3, CurrentRead
  <1>5. ASSUME OffersCommit(t) \/ RejectCommit(t) PROVE BooksInv'
    <2>1. UNCHANGED <<status, rider, cash, wallet, earnings, jobs, prepaid, credited, voided>> /\ Finish(t)
      BY <1>5 DEF OffersCommit, RejectCommit, rowsOnly, orderRow, history
    <2>2. \A o \in Orders, r \in Riders :
            \/ offer'[o][r] = offer[o][r] \/ offer'[o][r] = "rejected"
            \/ status[o] \in OpenStatus
      <3>1. CASE OffersCommit(t)
        <4>1. \A x \in q.pairs \cup q.fresh : status[x[1]] \in OpenStatus
          BY <1>0, <3>1 DEF OffersCommit, At, Current
        <4>2. \A o \in Orders, r \in Riders : <<o, r>> \in q.fresh \cup q.pairs => status[o] \in OpenStatus
          <5> SUFFICES ASSUME NEW o \in Orders, NEW r \in Riders, <<o, r>> \in q.fresh \cup q.pairs
                       PROVE  status[o] \in OpenStatus
            OBVIOUS
          <5>1. status[<<o, r>>[1]] \in OpenStatus
            BY <4>1
          <5> QED
            BY <5>1
        <4>3. \/ offer' = offer
              \/ offer' = [o \in Orders |-> [r \in Riders |->
                             IF <<o, r>> \in q.fresh \cup q.pairs THEN "offered" ELSE offer[o][r]]]
          BY <3>1 DEF OffersCommit
        <4> QED
          BY <4>2, <4>3
      <3>2. CASE RejectCommit(t)
        BY <1>0, <3>2 DEF RejectCommit, TInv, TypeOK
      <3> QED
        BY <1>5, <3>1, <3>2
    <2>3. CancellationIsClean'
      BY <1>0, <2>1, <2>2 DEF CancellationIsClean, OpenStatus, earnings, TInv, TypeOK
    <2> QED
      BY <1>0, <1>2, <2>1, <2>3 DEF BooksInv, CreditInv, CreditOf, WalletAddsUp
  <1>6. ASSUME SplitRead(t) PROVE BooksInv'
    <2>1. UNCHANGED money /\ q.op = "split" /\ req'[t].op = "ledger" /\ req'[t].order = q.order
      BY <1>0, <1>6 DEF SplitRead, At, Goto, Idle, money, rowsOutside, orderRow, history
    <2>2. Current(req[t])'
      BY <1>0, <2>1 DEF Current, money
    <2> QED
      BY <2>1, <2>2, CurrentRead
  <1>7. ASSUME HotelCommit(t) PROVE BooksInv'
    <2>1. /\ q.order \in Orders /\ q.was = status[q.order] /\ HotelMaySet(q.was, q.want)
          /\ UNCHANGED <<rider, cash, offer, wallet, earnings, jobs, prepaid, credited, voided>>
      BY <1>0, <1>7 DEF HotelCommit, At, Current, WellFormed, Ops
    <2>2. \A o \in Orders : status'[o] = IF o = q.order THEN q.want ELSE status[o]
      BY <1>0, <1>7, <2>1 DEF HotelCommit, WriteStatus, FlushOf, TInv, TypeOK
    <2>3. /\ q.want \in {"accepted", "ready", "cancelled"} /\ (q.want = "accepted" => q.was = "pending")
          /\ q.want = "ready" => q.was \in {"accepted", "ready"}
      BY <2>1 DEF HotelMaySet, HotelSettable
    <2>4. CreditInv'
      BY <1>0, <2>1, <2>2, <2>3 DEF CreditInv, CreditOf
    <2>5. CancellationIsClean'
      BY <1>0, <2>1, <2>2, <2>3 DEF CancellationIsClean, earnings, TInv, TypeOK
    <2>6. Current(req[t])'
      <3>1. CASE Finish(t)
        BY <1>2, <3>1
      <3>2. CASE Goto(t, [Idle EXCEPT !.op = "dispatch", !.order = q.order])
        <4>1. req'[t].op = "dispatch"
          BY <1>0, <3>2 DEF Goto, Idle
        <4> QED
          BY <1>1, <4>1
      <3> QED
        BY <1>7, <3>1, <3>2 DEF HotelCommit
    <2> QED
      BY <1>0, <2>1, <2>4, <2>5, <2>6 DEF BooksInv, WalletAddsUp
  <1>8. ASSUME AcceptCommit(t) PROVE BooksInv'
    <2>1. q.order \in Orders /\ q.rider \in Riders /\ status[q.order] \in OpenStatus
      BY <1>0, <1>8 DEF AcceptCommit, At, Current, WellFormed, Ops
    <2>2. /\ \A o \in Orders : o # q.order => rider'[o] = rider[o] /\ offer'[o] = offer[o]
          /\ UNCHANGED <<status, cash, wallet, earnings, jobs, prepaid, credited, voided>> /\ Finish(t)
      BY <1>0, <1>8, <2>1 DEF AcceptCommit, history, TInv, TypeOK
    <2>3. CreditInv'
      BY <1>0, <2>1, <2>2 DEF CreditInv, CreditOf, OpenStatus
    <2>4. CancellationIsClean'
      <3>1. \A o \in voided : o # q.order /\ o \in Orders
        BY <1>0, <2>1 DEF CancellationIsClean, OpenStatus, TInv, TypeOK
      <3> QED
        BY <1>0, <2>2, <3>1 DEF CancellationIsClean, earnings
    <2> QED
      BY <1>0, <1>2, <2>2, <2>3, <2>4 DEF BooksInv, WalletAddsUp
  <1>9. ASSUME PickUpCommit(t) PROVE BooksInv'
    <2>1. /\ q.order \in Orders /\ status[q.order] = "ready" /\ Finish(t)
          /\ UNCHANGED <<rider, cash, offer, wallet, earnings, jobs, prepaid, credited, voided>>
      BY <1>0, <1>9 DEF PickUpCommit, At, Current, WellFormed, Ops
    <2>2. \A o \in Orders : status'[o] = IF o = q.order THEN "picked_up" ELSE status[o]
      BY <1>0, <1>9, <2>1 DEF PickUpCommit, WriteStatus, FlushOf, TInv, TypeOK
    <2>3. CreditInv' /\ CancellationIsClean'
      BY <1>0, <2>1, <2>2 DEF CreditInv, CreditOf, CancellationIsClean, earnings, TInv, TypeOK
    <2> QED
      BY <1>0, <1>2, <2>1, <2>3 DEF BooksInv, WalletAddsUp
  <1>10. ASSUME CompleteCommit(t) PROVE BooksInv'
    <2>1. /\ q.order \in Orders /\ q.rider \in Riders /\ status[q.order] = "picked_up"
          /\ q.rider = rider[q.order] /\ q.balance = wallet[q.rider]
          /\ UNCHANGED <<rider, offer, earnings, jobs, prepaid, voided>>
      BY <1>0, <1>10 DEF CompleteCommit, At, Current, WellFormed, Ops
    <2>2. /\ \A o \in Orders : status'[o] = IF o = q.order THEN "delivered" ELSE status[o]
          /\ \A o \in Orders : o # q.order => cash'[o] = cash[o]
          /\ credited' = [credited EXCEPT ![q.order] = q.rider]
          /\ wallet' = [wallet EXCEPT ![q.rider] = wallet[q.rider] + 1]
      BY <1>0, <1>10, <2>1 DEF CompleteCommit, WriteStatus, FlushOf, TInv, TypeOK
    <2>3. WalletAddsUp' /\ \A x \in Riders : IsFiniteSet(CreditOf(x)')
      BY <1>0, <2>1, <2>2, WalletAdds DEF CreditInv
    <2>4. \A o \in Orders : credited'[o] = IF o = q.order THEN q.rider ELSE credited[o]
      BY <1>0, <2>2 DEF TInv, TypeOK
    <2>5. CreditInv'
      BY <1>0, <2>1, <2>2, <2>3, <2>4, StoreAssumption DEF CreditInv
    <2>6. CancellationIsClean'
      BY <1>0, <2>1, <2>2, <2>4 DEF CancellationIsClean, earnings, TInv, TypeOK
    <2>7. req'[t].op = "split" /\ req'[t].order = q.order
      BY <1>0, <1>10 DEF CompleteCommit, Goto, Idle
    <2>8. Current(req[t])'
      BY <2>1, <2>2, <2>7 DEF Current
    <2> QED
      BY <2>3, <2>5, <2>6, <2>8 DEF BooksInv
  <1>11. ASSUME SplitCommit(t) PROVE BooksInv'
    <2>1. /\ q.order \in Orders /\ (q.order \in prepaid \/ status[q.order] = "delivered") /\ Finish(t)
          /\ UNCHANGED <<status, rider, cash, offer, wallet, jobs, prepaid, credited, voided>>
      BY <1>0, <1>11 DEF SplitCommit, At, Current, WellFormed, Ops, rowsOutside, orderRow, history
    <2>2. \A o \in Orders \ {q.order} :
            hotelEarning'[o] = hotelEarning[o] /\ riderEarning'[o] = riderEarning[o]
      BY <1>0, <1>11, <2>1 DEF SplitCommit, earnings, TInv, TypeOK
    <2>3. CreditInv' /\ CancellationIsClean'
      BY <1>0, <2>1, <2>2 DEF CreditInv, CreditOf, CancellationIsClean, TInv, TypeOK
    <2> QED
      BY <1>0, <1>2, <2>1, <2>3 DEF BooksInv, WalletAddsUp
  <1>12. ASSUME CancelCommit(t) PROVE BooksInv'
    <2> DEFINE o == q.order
    <2>1. /\ o \in Orders /\ q.was = status[o] /\ q.was # "cancelled" /\ q.rider = rider[o]
          /\ q.rider # NoRider => q.balance = wallet[q.rider]
          /\ q.cash = cash[o]
          /\ \A r \in Riders : offer[o][r] \in {"offered", "accepted"} => <<o, r>> \in q.pairs
          /\ UNCHANGED <<rider, jobs, prepaid>> /\ Finish(t) /\ voided' = voided \cup {o}
      BY <1>0, <1>12 DEF CancelCommit, At, Current, WellFormed, Ops
    <2>2. /\ status' = [status EXCEPT ![o] = "cancelled"]
          /\ cash' = [cash EXCEPT ![o] = FALSE]
      BY <1>0, <1>12, <2>1 DEF CancelCommit, WriteStatus, FlushOf, TInv, TypeOK
    <2>3. /\ \A r \in Riders : offer'[o][r] \notin {"offered", "accepted"}
          /\ \A x \in Orders \ {o} : offer'[x] = offer[x]
      BY <1>0, <1>12, <2>1 DEF CancelCommit, TInv, TypeOK
    <2>4. /\ hotelEarning'[o] # "unsettled" /\ riderEarning'[o] # "unsettled"
          /\ \A x \in Orders \ {o} : hotelEarning'[x] = hotelEarning[x] /\ riderEarning'[x] = riderEarning[x]
      BY <1>0, <1>12, <2>1 DEF CancelCommit, Voided, TInv, TypeOK
    <2>5. /\ WalletAddsUp' /\ \A x \in Riders : IsFiniteSet(CreditOf(x)')
          /\ credited'[o] = NoRider /\ \A x \in Orders \ {o} : credited'[x] = credited[x]
      <3>1. CASE status[o] = "delivered"
        <4>1. /\ credited[o] = q.rider /\ q.rider \in Riders /\ q.balance = wallet[q.rider]
              /\ IsFiniteSet(CreditOf(q.rider))
          BY <1>0, <2>1, <3>1 DEF CreditInv, TInv, TypeOK
        <4>2. wallet[q.rider] > 0
          BY <1>0, <2>1, <4>1, CreditedHasPayout
        <4>3. TakesBack(q)
          BY <2>1, <3>1, <4>1, <4>2, StoreAssumption DEF TakesBack
        <4>4. /\ credited' = [credited EXCEPT ![o] = NoRider]
              /\ wallet' = [wallet EXCEPT ![q.rider] = wallet[q.rider] - 1]
          BY <1>12, <4>1, <4>3 DEF CancelCommit
        <4>5. WalletAddsUp' /\ \A x \in Riders : IsFiniteSet(CreditOf(x)')
          BY <1>0, <2>1, <4>1, <4>4, WalletTakes DEF CreditInv
        <4>6. credited'[o] = NoRider /\ \A x \in Orders \ {o} : credited'[x] = credited[x]
          BY <1>0, <2>1, <4>4 DEF TInv, TypeOK
        <4> QED
          BY <4>5, <4>6
      <3>2. CASE status[o] # "delivered"
        <4>1. ~ TakesBack(q) /\ credited[o] = NoRider
          BY <1>0, <2>1, <3>2 DEF TakesBack, CreditInv
        <4>2. credited' = credited /\ wallet' = wallet
          BY <1>0, <1>12, <4>1 DEF CancelCommit, TInv, TypeOK
        <4> QED
          BY <1>0, <4>1, <4>2 DEF WalletAddsUp, CreditInv, CreditOf
      <3> QED
        BY <3>1, <3>2
    <2>6. \A x \in Orders : status'[x] = (IF x = o THEN "cancelled" ELSE status[x])
                            /\ cash'[x] = (IF x = o THEN FALSE ELSE cash[x])
      BY <1>0, <2>2 DEF TInv, TypeOK
    <2> HIDE DEF o
    <2>7. CreditInv'
      BY <1>0, <2>1, <2>5, <2>6 DEF CreditInv
    <2>8. CancellationIsClean'
      <3> SUFFICES ASSUME NEW x \in voided'
                   PROVE  /\ status'[x] = "cancelled" /\ ~ cash'[x] /\ credited'[x] = NoRider
                          /\ \A r \in Riders : offer'[x][r] \notin {"offered", "accepted"}
                          /\ x \notin prepaid => "unsettled" \notin {hotelEarning'[x], riderEarning'[x]}
        BY <2>1 DEF CancellationIsClean
      <3>1. x \in Orders
        BY <1>0, <2>1 DEF TInv, TypeOK
      <3>2. CASE x = o
        BY <2>1, <2>3, <2>4, <2>5, <2>6, <3>2
      <3>3. CASE x # o
        <4>1. x \in voided
          BY <2>1, <3>3
        <4> QED
          BY <1>0, <2>3, <2>4, <2>5, <2>6, <3>1, <3>3, <4>1 DEF CancellationIsClean
      <3> QED
        BY <3>2, <3>3
    <2> QED
      BY <1>2, <2>1, <2>5, <2>7, <2>8 DEF BooksInv
  <1> QED
    BY <1>3, <1>4, <1>5, <1>6, <1>7, <1>8, <1>9, <1>10, <1>11, <1>12 DEF Proceed

(* The books of one worker.                                                  *)
LEMMA BooksAlways ==
  ASSUME \A t, u \in Threads : t = u
  PROVE  Spec => []BooksInv
  <1>1. Init => BooksInv
    <2> SUFFICES ASSUME Init PROVE BooksInv
      OBVIOUS
    <2>1. \A r \in Riders : CreditOf(r) = {}
      BY StoreAssumption DEF Init, CreditOf
    <2>2. WalletAddsUp /\ \A r \in Riders : IsFiniteSet(CreditOf(r))
      BY <2>1, FS_EmptySet DEF Init, WalletAddsUp, CreditOf
    <2>3. CreditInv /\ CancellationIsClean
      BY <2>2 DEF Init, CreditInv, CancellationIsClean
    <2>4. \A t \in Threads : Current(req[t])
      BY DEF Init, Current, Idle
    <2> QED
      BY <2>2, <2>3, <2>4, TypeInit DEF BooksInv
  <1>2. BooksInv /\ [Next]_vars => BooksInv'
    <2> SUFFICES ASSUME BooksInv, [Next]_vars PROVE BooksInv'
      OBVIOUS
    <2>0. TInv /\ TInv'
      BY TypeStep DEF BooksInv
    <2>1. ASSUME NEW t \in Threads, Arrive(t) PROVE BooksInv'
      BY <2>0, <2>1, BooksArrive
    <2>2. ASSUME NEW t \in Threads, Proceed(t) PROVE BooksInv'
      BY <2>0, <2>2, BooksProceed
    <2>3. ASSUME NEW t \in Threads, Fail(t) PROVE BooksInv'
      <3>1. req'[t] = Idle
        BY <2>0, <2>3 DEF Fail, Finish, Goto, TInv, TypeOK
      <3>2. Current(req[t])'
        BY <3>1 DEF Idle, Current
      <3> QED
        BY <2>0, <2>3, <3>2, CurrentRead DEF Fail, money, orderRow, history
    <2>4. ASSUME UNCHANGED <<status, rider, cash, offer, wallet, jobs, prepaid, credited, voided, req>>,
                 \A o \in Orders : /\ hotelEarning'[o] = "unsettled" => hotelEarning[o] = "unsettled"
                                   /\ riderEarning'[o] = "unsettled" => riderEarning[o] = "unsettled"
          PROVE  BooksInv'
      <3>1. \A t \in Threads : Current(req[t])'
        BY <2>4 DEF BooksInv, Current
      <3> QED
        BY <2>0, <2>4, <3>1 DEF BooksInv, CreditInv, CreditOf, WalletAddsUp, CancellationIsClean, TInv, TypeOK
    <2>5. ASSUME NEW r \in Riders, SettleRider(r) PROVE BooksInv'
      BY <2>4, <2>5 DEF SettleRider, rowsOutside, orderRow, history
    <2>6. CASE UNCHANGED vars \/ SettleHotel \/ \E o \in Orders : IssueOtp(o) \/ ExpireOtp(o)
      BY <2>4, <2>6 DEF vars, SettleHotel, IssueOtp, ExpireOtp, rowsOutside, orderRow, earnings, history
    <2> QED
      BY <2>1, <2>2, <2>3, <2>5, <2>6 DEF Next
  <1> QED
    BY <1>1, <1>2, PTL DEF Spec

(* Requests served one at a time keep every wallet at one payout for each     *)
(* order its rider was credited for.                                          *)
THEOREM SerialWallet ==
  ASSUME \A t, u \in Threads : t = u
  PROVE  Spec => []WalletAddsUp
  <1>1. Spec => []BooksInv
    BY BooksAlways
  <1>2. BooksInv => WalletAddsUp
    BY DEF BooksInv
  <1> QED
    BY <1>1, <1>2, PTL

(* Requests served one at a time let an admin's cancellation leave no payout, *)
(* cash, open offer or unsettled earning behind, whatever follows it.         *)
THEOREM SerialCancellation ==
  ASSUME \A t, u \in Threads : t = u
  PROVE  Spec => []CancellationIsClean
  <1>1. Spec => []BooksInv
    BY BooksAlways
  <1>2. BooksInv => CancellationIsClean
    BY DEF BooksInv
  <1> QED
    BY <1>1, <1>2, PTL

-----------------------------------------------------------------------------
(* The two ledgers.                                                           *)
(* Fulfilment implements EarningsLedger, once for each of the two ledgers,    *)
(* for any number of orders, riders and threads.  The invariant Lifecycle     *)
(* supplies that a split in flight is of a paid order; that an absent row     *)
(* names no rider is added to it.                                             *)

(* An earning that is not there belongs to nobody.                            *)
NoRowNoPayee == \A o \in Orders : riderEarning[o] = "none" => earner[o] = NoRider

(* The invariant under which every step maps to a ledger's.                   *)
LedgerInv == Lifecycle /\ NoRowNoPayee

(* Every step of the system, seen by the two ledgers.                        *)
RiderMoves == RiderLedger!Next \/ UNCHANGED RiderLedger!ledger
HotelMoves == HotelLedger!Next \/ UNCHANGED HotelLedger!ledger

(* A step that touches neither ledger is a stutter of both.                   *)
LEMMA StillMoves ==
  ASSUME UNCHANGED <<earnings, paid>>
  PROVE  RiderMoves /\ HotelMoves
  BY DEF RiderMoves, HotelMoves, earnings, RiderLedger!ledger, HotelLedger!ledger

(* An order getting paid is the ledgers' Pay.                                 *)
LEMMA PayMoves ==
  ASSUME NEW o \in Orders, paid' = [paid EXCEPT ![o] = TRUE], UNCHANGED earnings
  PROVE  RiderMoves /\ HotelMoves
  BY DEF RiderMoves, HotelMoves, earnings, RiderLedger!Next, RiderLedger!Pay,
         HotelLedger!Next, HotelLedger!Pay

(* The split's rows are credits, or stutters when they exist.                 *)
LEMMA SplitMoves ==
  ASSUME LedgerInv, NEW t \in Threads, SplitCommit(t)
  PROVE  RiderMoves /\ HotelMoves /\ NoRowNoPayee'
  <1> DEFINE q == req[t]  o == q.order
  <1>0. TInv /\ Backed(q) /\ NoRowNoPayee
    BY DEF LedgerInv, Lifecycle, AllBacked
  <1>1. /\ o \in Orders /\ paid[o] /\ paid' = paid
        /\ "rider" \in q.due => q.rider \in Riders
    BY <1>0 DEF SplitCommit, At, TInv, TypeOK, Shape, WellFormed, Backed, Ops, rowsOutside, orderRow
  <1>2. CASE Duplicate(q)
    BY <1>0, <1>1, <1>2, StillMoves DEF SplitCommit, NoRowNoPayee, earnings
  <1>3. CASE ~ Duplicate(q)
    <2>1. RiderMoves /\ NoRowNoPayee'
      <3>1. CASE "rider" \in q.due
        <4>1. PICK s \in NewEarning : riderEarning' = [riderEarning EXCEPT ![o] = s]
          BY <1>3, <3>1 DEF SplitCommit
        <4>2. earner' = [earner EXCEPT ![o] = q.rider] /\ riderEarning[o] = "none"
          BY <1>3, <3>1 DEF SplitCommit, Duplicate
        <4>3. RiderLedger!Credit(o, q.rider, s)
          BY <1>1, <4>1, <4>2 DEF RiderLedger!Credit
        <4>4. RiderMoves
          BY <1>1, <3>1, <4>3 DEF RiderMoves, RiderLedger!Next, NewEarning
        <4>5. NoRowNoPayee'
          BY <1>0, <1>1, <4>1, <4>2 DEF NoRowNoPayee, NewEarning, TInv, TypeOK
        <4> QED
          BY <4>4, <4>5
      <3>2. CASE "rider" \notin q.due
        BY <1>0, <1>1, <1>3, <3>2 DEF SplitCommit, RiderMoves, RiderLedger!ledger, NoRowNoPayee
      <3> QED
        BY <3>1, <3>2
    <2>2. HotelMoves
      <3>1. CASE "hotel" \in q.due
        <4>1. PICK s \in NewEarning : hotelEarning' = [hotelEarning EXCEPT ![o] = s]
          BY <1>3, <3>1 DEF SplitCommit
        <4>2. hotelEarning[o] = "none"
          BY <1>3, <3>1 DEF Duplicate
        <4>3. \A p \in Orders : (IF hotelEarning'[p] = "none" THEN "nobody" ELSE "hotel")
                = [[p1 \in Orders |-> IF hotelEarning[p1] = "none" THEN "nobody" ELSE "hotel"]
                     EXCEPT ![o] = "hotel"][p]
          BY <1>0, <1>1, <4>1, <4>2 DEF NewEarning, TInv, TypeOK
        <4>4. HotelLedger!Credit(o, "hotel", s)
          BY <1>1, <4>1, <4>2, <4>3 DEF HotelLedger!Credit
        <4> QED
          BY <1>1, <4>4 DEF HotelMoves, HotelLedger!Next, NewEarning
      <3>2. CASE "hotel" \notin q.due
        BY <1>1, <1>3, <3>2 DEF SplitCommit, HotelMoves, HotelLedger!ledger
      <3> QED
        BY <3>1, <3>2
    <2> QED
      BY <2>1, <2>2
  <1> QED
    BY <1>2, <1>3

(* A cancellation takes back what is not settled.                             *)
LEMMA CancelMoves ==
  ASSUME LedgerInv, NEW t \in Threads, CancelCommit(t)
  PROVE  RiderMoves /\ HotelMoves /\ NoRowNoPayee'
  <1> DEFINE o == req[t].order
  <1>0. TInv /\ NoRowNoPayee
    BY DEF LedgerInv, Lifecycle
  <1>1. /\ o \in Orders /\ paid' = paid
        /\ riderEarning' = [riderEarning EXCEPT ![o] = Voided(@)]
        /\ hotelEarning' = [hotelEarning EXCEPT ![o] = Voided(@)]
        /\ earner' = [earner EXCEPT ![o] = IF riderEarning'[o] = "none" THEN NoRider ELSE @]
    BY <1>0 DEF CancelCommit, At, TInv, TypeOK, Shape, WellFormed, Ops
  <1>2. RiderMoves /\ NoRowNoPayee'
    <2>1. CASE riderEarning[o] = "unsettled"
      <3>1. RiderLedger!TakeBack(o)
        BY <1>0, <1>1, <2>1 DEF RiderLedger!TakeBack, Voided, TInv, TypeOK
      <3> QED
        BY <1>0, <1>1, <2>1, <3>1 DEF RiderMoves, RiderLedger!Next, NoRowNoPayee, Voided, TInv, TypeOK
    <2>2. CASE riderEarning[o] # "unsettled"
      <3>1. riderEarning' = riderEarning /\ earner' = earner
        BY <1>0, <1>1, <2>2 DEF Voided, NoRowNoPayee, TInv, TypeOK
      <3> QED
        BY <1>0, <1>1, <3>1 DEF RiderMoves, RiderLedger!ledger, NoRowNoPayee
    <2> QED
      BY <2>1, <2>2
  <1>3. HotelMoves
    <2>1. CASE hotelEarning[o] = "unsettled"
      <3>1. \A p \in Orders : (IF hotelEarning'[p] = "none" THEN "nobody" ELSE "hotel")
              = [[p1 \in Orders |-> IF hotelEarning[p1] = "none" THEN "nobody" ELSE "hotel"]
                   EXCEPT ![o] = "nobody"][p]
        BY <1>0, <1>1, <2>1 DEF Voided, TInv, TypeOK
      <3>2. \E p \in Orders : HotelLedger!TakeBack(p)
        BY <1>0, <1>1, <2>1, <3>1 DEF HotelLedger!TakeBack, Voided, TInv, TypeOK
      <3> QED
        BY <3>2 DEF HotelMoves, HotelLedger!Next
    <2>2. CASE hotelEarning[o] # "unsettled"
      <3>1. hotelEarning' = hotelEarning
        BY <1>0, <1>1, <2>2 DEF Voided, TInv, TypeOK
      <3> QED
        BY <1>1, <3>1 DEF HotelMoves, HotelLedger!ledger
    <2> QED
      BY <2>1, <2>2
  <1> QED
    BY <1>2, <1>3

(* Both settlements are the ledgers' settlement.                              *)
LEMMA SettleMoves ==
  ASSUME LedgerInv, SettleHotel \/ \E r \in Riders : SettleRider(r)
  PROVE  RiderMoves /\ HotelMoves /\ NoRowNoPayee'
  <1>0. TInv /\ NoRowNoPayee
    BY DEF LedgerInv, Lifecycle
  <1>1. CASE SettleHotel
    <2> DEFINE S == {o \in Orders : hotelEarning[o] = "unsettled"}
    <2>1. hotelEarning' = [o \in Orders |-> IF o \in S THEN "settled" ELSE hotelEarning[o]]
      BY <1>1 DEF SettleHotel
    <2>2. \A o \in Orders : (hotelEarning'[o] = "none") <=> (hotelEarning[o] = "none")
      BY <2>1
    <2>3. HotelLedger!PayOut(S)
      BY <1>1, <2>1, <2>2 DEF SettleHotel, HotelLedger!PayOut, rowsOutside, orderRow
    <2>4. HotelMoves
      BY <2>3 DEF HotelMoves, HotelLedger!Next
    <2>5. RiderMoves /\ NoRowNoPayee'
      BY <1>0, <1>1 DEF SettleHotel, RiderMoves, RiderLedger!ledger, NoRowNoPayee, rowsOutside,
         orderRow
    <2> QED
      BY <2>4, <2>5
  <1>2. ASSUME NEW r \in Riders, SettleRider(r) PROVE RiderMoves /\ HotelMoves /\ NoRowNoPayee'
    <2> DEFINE S == {o \in Orders : riderEarning[o] = "unsettled" /\ earner[o] = r}
    <2>1. riderEarning' = [o \in Orders |-> IF o \in S THEN "settled" ELSE riderEarning[o]]
      BY <1>2 DEF SettleRider
    <2>2. UNCHANGED <<paid, earner, hotelEarning>>
      BY <1>2 DEF SettleRider, rowsOutside, orderRow
    <2>3. RiderLedger!PayOut(S)
      BY <2>1, <2>2 DEF RiderLedger!PayOut
    <2>4. RiderMoves
      BY <2>3 DEF RiderMoves, RiderLedger!Next
    <2>5. HotelMoves
      BY <2>2 DEF HotelMoves, HotelLedger!ledger
    <2>6. NoRowNoPayee'
      BY <1>0, <2>1, <2>2 DEF NoRowNoPayee
    <2> QED
      BY <2>4, <2>5, <2>6
  <1> QED
    BY <1>1, <1>2

(* Every step is a step of each ledger, or a stutter.                         *)
LEMMA LedgerStep == LedgerInv /\ [Next]_vars => NoRowNoPayee' /\ RiderMoves /\ HotelMoves
  <1> SUFFICES ASSUME LedgerInv, [Next]_vars PROVE NoRowNoPayee' /\ RiderMoves /\ HotelMoves
    OBVIOUS
  <1>0. TInv /\ NoRowNoPayee
    BY DEF LedgerInv, Lifecycle
  <1>1. CASE UNCHANGED <<earnings, paid>>
    BY <1>0, <1>1, StillMoves DEF NoRowNoPayee, earnings
  <1>2. ASSUME NEW t \in Threads, Proceed(t) PROVE NoRowNoPayee' /\ RiderMoves /\ HotelMoves
    <2>1. CASE CompleteCommit(t)
      <3>1. req[t].order \in Orders
        BY <1>0, <2>1 DEF CompleteCommit, At, TInv, TypeOK, Shape, WellFormed, Ops
      <3>2. paid' = [paid EXCEPT ![req[t].order] = TRUE] /\ UNCHANGED earnings
        BY <2>1 DEF CompleteCommit
      <3> QED
        BY <1>0, <3>1, <3>2, PayMoves DEF NoRowNoPayee, earnings
    <2>2. CASE SplitCommit(t)
      BY <2>2, SplitMoves
    <2>3. CASE CancelCommit(t)
      BY <2>3, CancelMoves
    <2> QED
      BY <1>1, <1>2, <2>1, <2>2, <2>3 DEF Proceed, HotelCommit, BroadcastRead, OffersRead,
         OffersCommit, AcceptCommit, RejectCommit, PickUpCommit, SplitRead, rowsOnly,
         rowsOutside, orderRow
  <1>3. ASSUME NEW t \in Threads, Arrive(t) PROVE UNCHANGED <<earnings, paid>>
    BY <1>3 DEF Arrive, HotelRead, PollRead, AcceptRead, RejectRead, PickUpRead,
       CompleteRead, SplitStart, CancelRead, rowsOnly, rowsOutside, orderRow
  <1>4. ASSUME \/ \E t \in Threads : Fail(t)
               \/ \E o \in Orders : IssueOtp(o) \/ ExpireOtp(o)
               \/ UNCHANGED vars
        PROVE  UNCHANGED <<earnings, paid>>
    BY <1>4 DEF Fail, IssueOtp, ExpireOtp, vars, orderRow
  <1> QED
    BY <1>1, <1>2, <1>3, <1>4, SettleMoves DEF Next

(* Both ledgers keep what EarningsLedger promises under every interleaving of *)
(* splits, completions, settlements and cancellations.                        *)
THEOREM LedgersCorrect == Spec => LedgersImplemented
  <1>1. Init => RiderLedger!Init /\ HotelLedger!Init /\ NoRowNoPayee
    <2> SUFFICES ASSUME Init PROVE RiderLedger!Init /\ HotelLedger!Init /\ NoRowNoPayee
      OBVIOUS
    <2>1. paid \in [Orders -> BOOLEAN]
      BY DEF Init
    <2> QED
      BY <2>1 DEF Init, RiderLedger!Init, HotelLedger!Init, NoRowNoPayee
  <1>2. LedgerInv /\ [Next]_vars => [RiderLedger!Next]_(RiderLedger!ledger)
                                      /\ [HotelLedger!Next]_(HotelLedger!ledger)
    BY LedgerStep DEF RiderMoves, HotelMoves
  <1>3. Lifecycle /\ NoRowNoPayee /\ [Next]_vars => NoRowNoPayee'
    BY LedgerStep DEF LedgerInv
  <1>4. Spec => []LedgerInv
    BY LifecycleAlways, <1>1, <1>3, PTL DEF Spec, LedgerInv
  <1> QED
    BY <1>1, <1>2, <1>4, PTL DEF Spec, LedgersImplemented, RiderLedger!Spec, HotelLedger!Spec
=============================================================================
